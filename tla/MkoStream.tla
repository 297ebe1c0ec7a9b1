------------------------------- MODULE MkoStream -------------------------------
(***************************************************************************)
(* The two streaming calls of the MKO service, SubscribeExchangeResults of *)
(* the bus controller ("KK") and SubscribeOuCommands of the terminal       *)
(* ("OU").  Each call is a chain of three: the goroutine of the driver     *)
(* client that receives from the driver, the goroutine of the logging      *)
(* decorator, and the gRPC handler, joined by two unbuffered channels.     *)
(* A send on such a channel and its receive are one step.                  *)
(*                                                                         *)
(* The service layers between them hand the channel on and have no state.  *)
(***************************************************************************)
EXTENDS Naturals, Sequences

CONSTANTS
  Calls,        \* the streaming calls the service may receive
  MaxItems      \* bound: results or commands the driver sends on one stream

ASSUME ConstantsAssumption == MaxItems \in Nat

VARIABLES
  server,       \* the gRPC server: "serving", "stopping" or "stopped"
  kind,         \* which of the two methods a call invokes
  handler,      \* where the handler of each call is
  status,       \* the gRPC code each call ended with
  context,      \* the context of each call: "live" or "done"
  cancelled,    \* whether the client cancelled the call
  produced,     \* how many items the driver sent on the stream of the call
  driver,       \* its stream: "open", "eof", or "error" once it is lost
  reader,       \* where the goroutine of the driver client is
  read,         \* how many items it received: it holds the last one in "push"
  logger,       \* where the goroutine of the logging decorator is
  logged,       \* the item the decorator holds in "push"
  sending,      \* the item the handler holds in "send"
  received      \* what the handler wrote to its client

call == <<kind, handler, status, context, cancelled>>
source == <<produced, driver>>
chain == <<reader, read, logger, logged, sending, received>>
vars == <<server, call, source, chain>>

At(f, c, v) == [f EXCEPT ![c] = v]

Returned(c) == handler[c] = "returned"

\* The handler returns; gRPC then cancels the context of the call.
Return(c, code) ==
  /\ handler' = At(handler, c, "returned")
  /\ status' = At(status, c, code)
  /\ context' = At(context, c, "done")

-----------------------------------------------------------------------------
(* Opening the call.                                                       *)

Arrive(c) ==
  /\ handler[c] = "idle" /\ server = "serving"
  /\ handler' = At(handler, c, "open")
  /\ UNCHANGED <<server, kind, status, context, cancelled, source, chain>>

\* Both goroutines run when the stream to the driver is open.
Open(c) ==
  /\ handler[c] = "open"
  /\ handler' = At(handler, c, "wait")
  /\ reader' = At(reader, c, "recv")
  /\ logger' = At(logger, c, "wait")
  /\ UNCHANGED <<server, kind, status, context, cancelled, source,
                 read, logged, sending, received>>

\* No connection to the driver.  The KK service wraps every driver error in
\* ErrDeviceRejected; the OU client keeps ErrDriverUnavailable.
OpenFails(c) ==
  /\ handler[c] = "open" /\ (kind[c] = "KK" => context[c] = "live")
  /\ Return(c, IF kind[c] = "KK" THEN "FAILED_PRECONDITION" ELSE "UNAVAILABLE")
  /\ UNCHANGED <<server, kind, cancelled, source, chain>>

\* The client left first: neither error of the two services has a code.
OpenCancelled(c) ==
  /\ handler[c] = "open" /\ context[c] = "done"
  /\ Return(c, "INTERNAL")
  /\ UNCHANGED <<server, kind, cancelled, source, chain>>

-----------------------------------------------------------------------------
(* The goroutine of the driver client.                                     *)

\* Mutant: an item the decorator is not ready for is dropped.
ReaderDrops(c) ==
  /\ reader[c] \in {"recv", "push"} /\ read[c] < produced[c]
  /\ read' = At(read, c, read[c] + 1)
  /\ reader' = At(reader, c, "push")
  /\ UNCHANGED <<server, call, source, logger, logged, sending, received>>

ReaderReceives(c) ==
  /\ reader[c] = "recv" /\ read[c] < produced[c]
  /\ read' = At(read, c, read[c] + 1)
  /\ reader' = At(reader, c, "push")
  /\ UNCHANGED <<server, call, source, logger, logged, sending, received>>

\* Mutant: the end of the driver's stream overtakes what was sent before it.
ReaderEndsEarly(c) ==
  /\ reader[c] = "recv"
  /\ context[c] = "done" \/ driver[c] # "open"
  /\ reader' = At(reader, c, "exited")
  /\ UNCHANGED <<server, call, source, read, logger, logged, sending, received>>

\* Recv returns an error, whichever one: the goroutine closes its channel.
ReaderEnds(c) ==
  /\ reader[c] = "recv"
  /\ context[c] = "done" \/ (driver[c] # "open" /\ read[c] = produced[c])
  /\ reader' = At(reader, c, "exited")
  /\ UNCHANGED <<server, call, source, read, logger, logged, sending, received>>

\* Mutant: the OU client pushes without watching the context, as KK does.
ReaderNeverGivesUp(c) == FALSE

\* Only the OU client watches the context while it pushes.
ReaderGivesUp(c) ==
  /\ kind[c] = "OU" /\ reader[c] = "push" /\ context[c] = "done"
  /\ reader' = At(reader, c, "exited")
  /\ UNCHANGED <<server, call, source, read, logger, logged, sending, received>>

-----------------------------------------------------------------------------
(* The goroutine of the logging decorator.                                 *)

LoggerTakes(c) ==
  /\ reader[c] = "push" /\ logger[c] = "wait"
  /\ logged' = At(logged, c, read[c])
  /\ logger' = At(logger, c, "push")
  /\ reader' = At(reader, c, "recv")
  /\ UNCHANGED <<server, call, source, read, sending, received>>

\* The channel it reads was closed: it closes its own.
LoggerEnds(c) ==
  /\ logger[c] = "wait" /\ reader[c] = "exited"
  /\ logger' = At(logger, c, "exited")
  /\ UNCHANGED <<server, call, source, reader, read, logged, sending, received>>

\* Mutant: the decorator returns without closing its channel.
LoggerVanishes(c) ==
  /\ logger[c] \in {"wait", "push"} /\ context[c] = "done"
  /\ logger' = At(logger, c, "none")
  /\ UNCHANGED <<server, call, source, reader, read, logged, sending, received>>

LoggerCancelled(c) ==
  /\ logger[c] \in {"wait", "push"} /\ context[c] = "done"
  /\ logger' = At(logger, c, "exited")
  /\ UNCHANGED <<server, call, source, reader, read, logged, sending, received>>

-----------------------------------------------------------------------------
(* The gRPC handler.                                                       *)

HandlerTakes(c) ==
  /\ logger[c] = "push" /\ handler[c] = "wait"
  /\ sending' = At(sending, c, logged[c])
  /\ handler' = At(handler, c, "send")
  /\ logger' = At(logger, c, "wait")
  /\ UNCHANGED <<server, kind, status, context, cancelled, source,
                 reader, read, logged, received>>

Send(c) ==
  /\ handler[c] = "send" /\ context[c] = "live"
  /\ received' = At(received, c, Append(received[c], sending[c]))
  /\ handler' = At(handler, c, "wait")
  /\ UNCHANGED <<server, kind, status, context, cancelled, source,
                 reader, read, logger, logged, sending>>

SendFails(c) ==
  /\ handler[c] = "send" /\ context[c] = "done"
  /\ Return(c, "CANCELLED")
  /\ UNCHANGED <<server, kind, cancelled, source, chain>>

\* The channel of the decorator was closed: both handlers return nil.
HandlerEnds(c) ==
  /\ handler[c] = "wait" /\ logger[c] = "exited"
  /\ Return(c, "OK")
  /\ UNCHANGED <<server, kind, cancelled, source, chain>>

\* Only the OU handler watches the context itself.
HandlerCancelled(c) ==
  /\ kind[c] = "OU" /\ handler[c] = "wait" /\ context[c] = "done"
  /\ Return(c, "CANCELLED")
  /\ UNCHANGED <<server, kind, cancelled, source, chain>>

-----------------------------------------------------------------------------
(* The driver, the clients and the signal that stops the service.          *)

StreamOpen(c) == reader[c] \in {"recv", "push"} /\ context[c] = "live" /\ driver[c] = "open"

DriverSends(c) ==
  /\ StreamOpen(c) /\ produced[c] < MaxItems
  /\ produced' = At(produced, c, produced[c] + 1)
  /\ UNCHANGED <<server, call, driver, chain>>

\* The driver ends its stream, or the connection to it is lost.
DriverEnds(c) ==
  /\ StreamOpen(c)
  /\ \E end \in {"eof", "error"} : driver' = At(driver, c, end)
  /\ UNCHANGED <<server, call, produced, chain>>

ClientCancels(c) ==
  /\ handler[c] \in {"open", "wait", "send"} /\ ~cancelled[c]
  /\ cancelled' = At(cancelled, c, TRUE)
  /\ context' = At(context, c, "done")
  /\ UNCHANGED <<server, kind, handler, status, source, chain>>

\* waitForShutdown: SIGINT or SIGTERM arrives and GracefulStop begins.
Signal ==
  /\ server = "serving"
  /\ server' = "stopping"
  /\ UNCHANGED <<call, source, chain>>

\* Mutant: the service also waits for the goroutines it started.
GracefulStopWaits ==
  /\ server = "stopping"
  /\ \A c \in Calls :
       handler[c] \in {"idle", "returned"} /\ reader[c] \in {"none", "exited"}
  /\ server' = "stopped"
  /\ UNCHANGED <<call, source, chain>>

\* GracefulStop returns when no handler is left, and main returns.
GracefulStop ==
  /\ server = "stopping"
  /\ \A c \in Calls : handler[c] \in {"idle", "returned"}
  /\ server' = "stopped"
  /\ UNCHANGED <<call, source, chain>>

-----------------------------------------------------------------------------
Init ==
  /\ server = "serving"
  /\ kind \in [Calls -> {"KK", "OU"}]
  /\ handler = [c \in Calls |-> "idle"]
  /\ status = [c \in Calls |-> "none"]
  /\ context = [c \in Calls |-> "live"]
  /\ cancelled = [c \in Calls |-> FALSE]
  /\ produced = [c \in Calls |-> 0]
  /\ driver = [c \in Calls |-> "open"]
  /\ reader = [c \in Calls |-> "none"]
  /\ read = [c \in Calls |-> 0]
  /\ logger = [c \in Calls |-> "none"]
  /\ logged = [c \in Calls |-> 0]
  /\ sending = [c \in Calls |-> 0]
  /\ received = [c \in Calls |-> <<>>]

ReaderStep(c) == ReaderReceives(c) \/ ReaderEnds(c) \/ ReaderGivesUp(c)
LoggerStep(c) == LoggerTakes(c) \/ LoggerEnds(c) \/ LoggerCancelled(c)
HandlerStep(c) ==
  \/ Open(c) \/ OpenFails(c) \/ OpenCancelled(c)
  \/ HandlerTakes(c) \/ Send(c) \/ SendFails(c)
  \/ HandlerEnds(c) \/ HandlerCancelled(c)
Environment(c) == Arrive(c) \/ DriverSends(c) \/ DriverEnds(c) \/ ClientCancels(c)

Stopped == server = "stopped" /\ UNCHANGED vars

\* Once the process has ended its goroutines are gone and nothing moves.
Running(A) == server # "stopped" /\ A

Next ==
  \/ \E c \in Calls :
       Running(ReaderStep(c) \/ LoggerStep(c) \/ HandlerStep(c) \/ Environment(c))
  \/ Signal \/ GracefulStop \/ Stopped

Spec == Init /\ [][Next]_vars

\* The Go scheduler runs every goroutine that can run; nothing obliges a
\* driver to send or to end, a client to cancel, or the operator to stop it.
Fairness ==
  /\ \A c \in Calls :
       /\ WF_vars(Running(ReaderStep(c)))
       /\ WF_vars(Running(LoggerStep(c)))
       /\ WF_vars(Running(HandlerStep(c)))
  /\ WF_vars(GracefulStop)

FairSpec == Spec /\ Fairness
=============================================================================
