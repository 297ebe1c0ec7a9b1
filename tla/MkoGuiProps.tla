----------------------------- MODULE MkoGuiProps -----------------------------
(***************************************************************************)
(* What the OU subscription of the MKO tab is meant to guarantee.          *)
(***************************************************************************)
EXTENDS MkoGui

GuiPlaces == {"idle", "unsubscribe", "cancel", "join", "unsubscribed", "spawn", "closed"}
ThreadPlaces == {"none", "opening", "loop", "reading", "posting", "check",
                 "finishing", "done", "failed", "exited"}
EventType == [run : Runs, n : Nat, kind : {"command", "error"}]

\* The state has its types.
TypeOK ==
  /\ prompt \in BOOLEAN /\ viewSubscribed \in BOOLEAN
  /\ active \in BOOLEAN /\ stopped \in BOOLEAN
  /\ gui \in GuiPlaces /\ purpose \in {"none", "stop", "start", "close"}
  /\ thread \in ThreadPlaces
  /\ context \in {"none", "live", "cancelled"}
  /\ clicks \in 0..MaxClicks /\ run \in 0..MaxRuns
  /\ thread # "none" => run \in Runs
  /\ produced \in [Runs -> Nat] /\ ended \in [Runs -> {"open", "OK", "ERROR"}]
  /\ read \in Nat
  /\ run \in Runs => read <= produced[run]
  /\ posted \in Seq(EventType)
  /\ shown \in [Runs -> Seq(EventType)]

Alive == thread \notin {"none", "exited"}

\* The client never meets std::terminate or a destroyed context: a thread is
\* created only when the last one was joined, the context outlives the thread
\* that uses it, and a destroyed client leaves no thread behind.
ThreadIsOwned ==
  /\ gui = "spawn" => thread = "none"
  /\ Alive => context # "none"
  /\ gui = "closed" => thread = "none"

\* An explicit stop is not an error: the tab reports an error only for a stream
\* that its service, or the loss of it, had ended before the stop.
StopIsNoError ==
  \A i \in 1..Len(posted) :
    posted[i].kind = "error" => ended[posted[i].run] # "open"

\* When every posted event was handled and Qt never let a click overtake one,
\* the button offers to stop exactly when a subscribe thread is alive, or the
\* service ended the last stream with OK, which nobody tells the tab.
EndedUnnoticed == thread = "exited" /\ ended[run] = "OK"

ButtonTellsTruth ==
  (prompt /\ gui = "idle" /\ posted = <<>>) =>
    (viewSubscribed <=> (Alive \/ EndedUnnoticed))

-----------------------------------------------------------------------------
\* The tab implements the pipe: per subscription the log shows the commands of
\* the service in order, each once, none skipped.  A command is its position in
\* the stream; an error in the log is no command.
CommandsOf(r) == {k \in 1..Len(shown[r]) : shown[r][k].kind = "command"}
Sent == [r \in Runs |-> [n \in 1..produced[r] |-> n]]
Shown == [r \in Runs |-> [k \in CommandsOf(r) |-> shown[r][k].n]]

Pipe == INSTANCE ResultPipe WITH
  Subscribers <- Runs,
  Items <- 1..MaxItems,
  Final <- {},
  input <- Sent,
  output <- Shown

PipeSpec == Pipe!Spec

-----------------------------------------------------------------------------
\* The GUI thread never freezes: a click on the button, or closing the window,
\* ends, whatever the subscribe thread and the service are doing.
GuiNeverFreezes == gui # "idle" ~> gui \in {"idle", "closed"}

\* When a stream ends with an error the button offers a new subscription,
\* unless the operator starts one first or closes the window.
ErrorReachesButton ==
  \A r \in Runs :
    (run = r /\ ended[r] = "ERROR") ~> (~viewSubscribed \/ run # r \/ Closing)
=============================================================================
