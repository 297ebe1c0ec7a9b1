---------------------------- MODULE Rs485GuiProps ----------------------------
(***************************************************************************)
(* What the subscription of the RS-485 tab is meant to guarantee.          *)
(***************************************************************************)
EXTENDS Rs485Gui

GuiPlaces == {"idle", "startJoin", "arm", "spawn", "stop",
              "unsubscribe", "cancel", "join", "clear", "closed"}
ThreadPlaces == {"none", "spawned", "opening", "loop", "reading", "posting",
                 "finishing", "failed", "ended", "reportFailure", "reportEnd",
                 "exited"}
Statuses == {"connected", "running", "startFailed", "data", "error",
             "finished", "stopped"}
EventType == [run : Runs, n : Nat, kind : {"data", "failure", "finished"}]

\* The state has its types.
TypeOK ==
  /\ prompt \in BOOLEAN /\ closing \in BOOLEAN
  /\ gui \in GuiPlaces /\ thread \in ThreadPlaces /\ status \in Statuses
  /\ viewSubscribed \in BOOLEAN /\ subscribed \in BOOLEAN /\ stopRequested \in BOOLEAN
  /\ context \in {"none", "live", "cancelled"}
  /\ clicks \in 0..MaxClicks /\ run \in 0..MaxRuns
  /\ thread # "none" => run \in Runs
  /\ source \in [Runs -> Seq(Results \union Ends)]
  /\ read \in Nat
  /\ run \in Runs => read <= Len(source[run])
  /\ posted \in Seq(EventType)
  /\ shown \in [Runs -> Seq(EventType)]

Alive == thread \notin {"none", "exited"}

\* The client never meets std::terminate or a destroyed context: a thread is
\* created only when the last one was joined, the context outlives the thread
\* that uses it, and a destroyed view leaves no thread behind.
ThreadIsOwned ==
  /\ gui \in {"arm", "spawn"} => thread = "none"
  /\ Alive => context # "none"
  /\ gui = "closed" => thread = "none"

\* When every posted event was handled and Qt never let a click overtake one,
\* the button offers to stop exactly when a subscribe thread is alive.
ButtonTellsTruth ==
  (prompt /\ gui = "idle" /\ posted = <<>>) => (viewSubscribed <=> Alive)

\* When a failed call is over and its events are handled, the status line shows
\* the error, not the general text about the end of the subscription.
ErrorNotMasked ==
  (gui = "idle" /\ posted = <<>> /\ thread = "exited"
     /\ source[run] # <<>> /\ source[run][Len(source[run])] = "ERROR"
     /\ context = "live")
  => status = "error"

\* Once stopSubscribe() has returned, and until the next start, the client
\* posts nothing to the event loop.
QuietAfterStop ==
  [][(context = "none" /\ gui \notin {"arm", "spawn"}) => Len(posted') <= Len(posted)]_vars

\* The tab implements the pipe: per subscription the log shows the service's
\* results in order, each once, none skipped.
IsResult(e) == e.kind # "finished" /\ source[e.run][e.n] \in Results
ResultsOf(r) == {n \in 1..Len(source[r]) : source[r][n] \in Results}
ShownOf(r) == {n \in 1..Len(shown[r]) : IsResult(shown[r][n])}

\* What the service sent, and what the log shows of it.  Both are sequences only
\* if the results come first.
Sent == [r \in Runs |-> [n \in ResultsOf(r) |->
                           [run |-> r, n |-> n, kind |-> source[r][n]]]]
Shown == [r \in Runs |-> [n \in ShownOf(r) |-> shown[r][n]]]

Pipe == INSTANCE ResultPipe WITH
  Subscribers <- Runs,
  Items <- [run : Runs, n : 1..MaxResults, kind : Results],
  Final <- {},
  input <- Sent,
  output <- Shown

PipeSpec == Pipe!Spec

-----------------------------------------------------------------------------
\* The GUI thread never freezes: a click on the button, or closing the tab,
\* ends, whatever the subscribe thread and the service are doing.
GuiNeverFreezes == gui # "idle" ~> gui \in {"idle", "closed"}

\* When the service ends the stream the button offers a new subscription,
\* unless the operator starts one first or closes the tab.
EndReachesButton ==
  \A r \in Runs :
    (run = r /\ source[r] # <<>> /\ source[r][Len(source[r])] \in Ends) ~>
      (~viewSubscribed \/ run # r \/ closing)

=============================================================================
