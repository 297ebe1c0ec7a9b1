---------------------------- MODULE MkoStreamProps ----------------------------
(***************************************************************************)
(* What the streaming calls of the MKO service are meant to guarantee.     *)
(***************************************************************************)
EXTENDS MkoStream

Codes == {"none", "OK", "CANCELLED", "UNAVAILABLE", "FAILED_PRECONDITION", "INTERNAL"}

\* The state has its types.
TypeOK ==
  /\ server \in {"serving", "stopping", "stopped"}
  /\ kind \in [Calls -> {"KK", "OU"}]
  /\ handler \in [Calls -> {"idle", "open", "wait", "send", "returned"}]
  /\ status \in [Calls -> Codes]
  /\ context \in [Calls -> {"live", "done"}]
  /\ cancelled \in [Calls -> BOOLEAN]
  /\ produced \in [Calls -> Nat]
  /\ driver \in [Calls -> {"open", "eof", "error"}]
  /\ reader \in [Calls -> {"none", "recv", "push", "exited"}]
  /\ read \in [Calls -> Nat] /\ \A c \in Calls : read[c] <= produced[c]
  /\ logger \in [Calls -> {"none", "wait", "push", "exited"}]
  /\ logged \in [Calls -> Nat] /\ sending \in [Calls -> Nat]
  /\ received \in [Calls -> Seq(Nat)]

\* While the call is served nothing is lost, doubled or reordered on the way
\* through the two goroutines: what the client was given, and what handler,
\* decorator and reader hold, are the items read so far.
When(condition, item) == IF condition THEN <<item>> ELSE <<>>

NothingLost ==
  \A c \in Calls :
    context[c] = "live" =>
      received[c] \o When(handler[c] = "send", sending[c])
                  \o When(logger[c] = "push", logged[c])
                  \o When(reader[c] = "push", read[c]) = [n \in 1..read[c] |-> n]

\* Each call implements the pipe, cancelled or not: its client is given the
\* driver's items in order, each once, with none skipped.
Pipe == INSTANCE ResultPipe WITH
  Subscribers <- Calls,
  Items <- 1..MaxItems,
  Final <- {},
  input <- [c \in Calls |-> [n \in 1..produced[c] |-> n]],
  output <- received

PipeSpec == Pipe!Spec

\* A call whose stream from the driver ended, however it ended, returns, and
\* only after everything the driver sent before was written to the client.
EndIsDelivered ==
  \A c \in Calls :
    (driver[c] # "open") ~>
      /\ Returned(c) \/ server = "stopped"
      /\ cancelled[c] \/ Len(received[c]) = produced[c]

\* A call whose client left returns, whatever the two goroutines are doing.
CancelEndsCall ==
  \A c \in Calls : cancelled[c] ~> Returned(c)

\* A call leaves no goroutine behind.  It holds for OU; the KK reader that
\* pushes when the call ends stays blocked until the process ends.
Gone(f, c) == f[c] \in {"none", "exited"}

LeavesNothing ==
  \A c \in Calls :
    Returned(c) ~>
      \/ server = "stopped"
      \/ Gone(logger, c) /\ (Gone(reader, c) \/ kind[c] = "KK")

\* GracefulStop waits for the streaming calls, so a signal ends the process
\* once the clients have left, even when goroutines of ended calls are stuck.
StopCompletes ==
  (server = "stopping" /\ \A c \in Calls : cancelled[c] \/ handler[c] = "idle")
    ~> server = "stopped"

\* A call whose connection to the driver was lost ends with Unavailable, if its
\* client has not left ("Unavailable - no connection with mko_driver",
\* mko/api/mko.proto).
DriverLossIsUnavailable ==
  \A c \in Calls :
    (Returned(c) /\ driver[c] = "error" /\ status[c] # "CANCELLED")
      => status[c] = "UNAVAILABLE"
=============================================================================
