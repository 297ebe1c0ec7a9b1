------------------------------- MODULE MkoGui -------------------------------
(***************************************************************************)
(* The OU subscription of the MKO tab of the GUI: the button of QtViewMKO  *)
(* on the GUI thread, GrpcMkoClient with its subscribe thread, and the     *)
(* events that thread posts to the event loop of Qt.                       *)
(*                                                                         *)
(* unsubscribe_ou_commands() runs for three purposes: the operator stops,  *)
(* the operator starts (a start first ends what was there), and the        *)
(* destructor of the client.  The property "subscribed" of the button      *)
(* stands for its text and for the board field it locks.                   *)
(***************************************************************************)
EXTENDS Naturals, Sequences

CONSTANTS
  MaxRuns,      \* bound: subscriptions the operator starts
  MaxClicks,    \* bound: clicks on the subscribe button
  MaxItems      \* bound: commands the service sends on one stream

ASSUME ConstantsAssumption == MaxRuns \in Nat /\ MaxClicks \in Nat /\ MaxItems \in Nat

VARIABLES
  prompt,         \* does Qt dispatch the posted events before a click
  gui,            \* where the GUI thread is
  purpose,        \* why it is in unsubscribe_ou_commands()
  viewSubscribed, \* the property "subscribed" of the button
  clicks,         \* clicks so far
  active,         \* GrpcMkoClient::subscribe_active
  context,        \* subscribe_context
  thread,         \* where subscribe_thread is: joinable unless "none"
  stopped,        \* its local was_stopped_explicitly
  run,            \* the number of the last subscription
  produced,       \* per subscription, how many commands the service sent
  ended,          \* per subscription, how the service ended it: "open" if it did not
  read,           \* commands of the last subscription the thread has read
  posted,         \* the events waiting in the event loop
  shown           \* per subscription, the events in the log

view == <<gui, purpose, viewSubscribed, clicks>>
client == <<active, context, thread, stopped, run>>
stream == <<produced, ended, read>>
events == <<posted, shown>>
vars == <<prompt, view, client, stream, events>>

Runs == 1..MaxRuns
Closing == gui # "idle" /\ purpose = "close"

Event(kind, n) == [run |-> run, n |-> n, kind |-> kind]
Post(event) == posted' = Append(posted, event)

-----------------------------------------------------------------------------
(* The click on the button, and the destructor of the client.              *)

\* The GUI thread takes a click when it is back in its event loop.
Click ==
  /\ gui = "idle" /\ clicks < MaxClicks
  /\ prompt => posted = <<>>
  /\ clicks' = clicks + 1

Unsubscribe(why) ==
  /\ gui' = "unsubscribe" /\ purpose' = why

ClickStop ==
  /\ Click /\ viewSubscribed
  /\ Unsubscribe("stop")
  /\ UNCHANGED <<prompt, viewSubscribed, client, stream, events>>

\* Mutant: a start does not end the subscription before it.
ClickStartKeepsLast ==
  /\ Click /\ ~viewSubscribed /\ run < MaxRuns
  /\ gui' = "unsubscribed" /\ purpose' = "start"
  /\ UNCHANGED <<prompt, viewSubscribed, client, stream, events>>

ClickStart ==
  /\ Click /\ ~viewSubscribed /\ run < MaxRuns
  /\ Unsubscribe("start")
  /\ UNCHANGED <<prompt, viewSubscribed, client, stream, events>>

Close ==
  /\ gui = "idle"
  /\ Unsubscribe("close")
  /\ UNCHANGED <<prompt, viewSubscribed, clicks, client, stream, events>>

-----------------------------------------------------------------------------
(* unsubscribe_ou_commands().                                              *)

NothingToStop ==
  /\ gui = "unsubscribe" /\ thread = "none"
  /\ gui' = "unsubscribed"
  /\ UNCHANGED <<prompt, purpose, viewSubscribed, clicks, client, stream, events>>

\* Mutant: only the cancellation tells the thread to stop.
NotDeactivated ==
  /\ gui = "unsubscribe" /\ thread # "none"
  /\ gui' = "cancel"
  /\ UNCHANGED <<prompt, purpose, viewSubscribed, clicks, client, stream, events>>

Deactivate ==
  /\ gui = "unsubscribe" /\ thread # "none"
  /\ active' = FALSE
  /\ gui' = "cancel"
  /\ UNCHANGED <<prompt, purpose, viewSubscribed, clicks, context, thread, stopped,
                 run, stream, events>>

\* Mutant: the call is not cancelled before the join.
SkipCancel ==
  /\ gui = "cancel"
  /\ gui' = "join"
  /\ UNCHANGED <<prompt, purpose, viewSubscribed, clicks, client, stream, events>>

Cancel ==
  /\ gui = "cancel"
  /\ context' = IF context = "none" THEN "none" ELSE "cancelled"
  /\ gui' = "join"
  /\ UNCHANGED <<prompt, purpose, viewSubscribed, clicks, active, thread, stopped,
                 run, stream, events>>

\* join() returns, and the context is reset: nobody else uses it any more.
Join ==
  /\ gui = "join" /\ thread = "exited"
  /\ thread' = "none" /\ context' = "none"
  /\ gui' = "unsubscribed"
  /\ UNCHANGED <<prompt, purpose, viewSubscribed, clicks, active, stopped, run,
                 stream, events>>

-----------------------------------------------------------------------------
(* What follows it: the button, the end, or the new subscription.          *)

ShowStopped ==
  /\ gui = "unsubscribed" /\ purpose = "stop"
  /\ viewSubscribed' = FALSE
  /\ gui' = "idle"
  /\ UNCHANGED <<prompt, purpose, clicks, client, stream, events>>

Closed ==
  /\ gui = "unsubscribed" /\ purpose = "close"
  /\ gui' = "closed"
  /\ UNCHANGED <<prompt, purpose, viewSubscribed, clicks, client, stream, events>>

Arm ==
  /\ gui = "unsubscribed" /\ purpose = "start"
  /\ context' = "live" /\ active' = TRUE
  /\ gui' = "spawn"
  /\ UNCHANGED <<prompt, purpose, viewSubscribed, clicks, thread, stopped, run,
                 stream, events>>

Spawn ==
  /\ gui = "spawn"
  /\ thread' = "opening" /\ run' = run + 1 /\ read' = 0
  /\ viewSubscribed' = TRUE
  /\ gui' = "idle"
  /\ UNCHANGED <<prompt, purpose, clicks, active, context, stopped, produced,
                 ended, events>>

\* The exception of std::thread reaches the click: context and flag stay set.
SpawnFails ==
  /\ gui = "spawn"
  /\ gui' = "idle"
  /\ UNCHANGED <<prompt, purpose, viewSubscribed, clicks, client, stream, events>>

-----------------------------------------------------------------------------
(* The subscribe thread.                                                   *)

ThreadOpens ==
  /\ thread = "opening"
  /\ thread' = "loop"
  /\ UNCHANGED <<prompt, view, active, context, stopped, run, stream, events>>

ThreadLoops ==
  /\ thread = "loop"
  /\ thread' = IF active THEN "reading" ELSE "check"
  /\ UNCHANGED <<prompt, view, active, context, stopped, run, stream, events>>

\* What arrived before TryCancel may still be read after it.
ThreadReads ==
  /\ thread = "reading" /\ read < produced[run]
  /\ read' = read + 1
  /\ thread' = "posting"
  /\ UNCHANGED <<prompt, view, active, context, stopped, run, produced, ended, events>>

\* A lost connection may lose what the service had already sent.
ThreadReadFails ==
  /\ thread = "reading"
  /\ \/ context = "cancelled" \/ ended[run] = "ERROR"
     \/ ended[run] = "OK" /\ read = produced[run]
  /\ thread' = "check"
  /\ UNCHANGED <<prompt, view, active, context, stopped, run, stream, events>>

\* on_event: a queued call of append_ou_command_event().
ThreadPosts ==
  /\ thread = "posting"
  /\ Post(Event("command", read))
  /\ thread' = "loop"
  /\ UNCHANGED <<prompt, view, active, context, stopped, run, stream, shown>>

\* Mutant: the thread clears the flag before it looks at it.
ThreadChecksLate ==
  /\ thread = "check"
  /\ active' = FALSE /\ stopped' = TRUE
  /\ thread' = "finishing"
  /\ UNCHANGED <<prompt, view, context, run, stream, events>>

\* was_stopped_explicitly, before Finish().
ThreadChecks ==
  /\ thread = "check"
  /\ stopped' = ~active
  /\ thread' = "finishing"
  /\ UNCHANGED <<prompt, view, active, context, run, stream, events>>

\* Finish() returns once the call is cancelled or the service has ended it; of
\* a call that is both, either status may win.
ThreadFinishes ==
  /\ thread = "finishing"
  /\ \/ context = "cancelled" /\ thread' = "failed"
     \/ ended[run] = "ERROR" /\ thread' = "failed"
     \/ ended[run] = "OK" /\ thread' = "done"
  /\ UNCHANGED <<prompt, view, active, context, stopped, run, stream, events>>

ThreadEnds ==
  /\ thread = "done"
  /\ active' = FALSE
  /\ thread' = "exited"
  /\ UNCHANGED <<prompt, view, context, stopped, run, stream, events>>

\* on_error, unless the operator stopped the call.
ThreadFails ==
  /\ thread = "failed"
  /\ active' = FALSE
  /\ IF stopped THEN UNCHANGED posted ELSE Post(Event("error", 0))
  /\ thread' = "exited"
  /\ UNCHANGED <<prompt, view, context, stopped, run, stream, shown>>

-----------------------------------------------------------------------------
(* The event loop and the service.                                         *)

\* Mutant: the queued error does not reset the button.
HandleEventKeepsButton ==
  /\ gui = "idle" /\ posted # <<>>
  /\ LET e == Head(posted) IN shown' = [shown EXCEPT ![e.run] = Append(@, e)]
  /\ posted' = Tail(posted)
  /\ UNCHANGED <<prompt, view, client, stream>>

HandleEvent ==
  /\ gui = "idle" /\ posted # <<>>
  /\ LET e == Head(posted) IN
     /\ shown' = [shown EXCEPT ![e.run] = Append(@, e)]
     /\ viewSubscribed' = (viewSubscribed /\ e.kind # "error")
  /\ posted' = Tail(posted)
  /\ UNCHANGED <<prompt, gui, purpose, clicks, client, stream>>

StreamOpen ==
  /\ thread \in {"loop", "reading", "posting"} /\ context = "live"
  /\ ended[run] = "open"

ServiceSends ==
  /\ StreamOpen /\ produced[run] < MaxItems
  /\ produced' = [produced EXCEPT ![run] = @ + 1]
  /\ UNCHANGED <<prompt, view, client, ended, read, events>>

\* The service ends the stream, with OK when its driver is lost, or the
\* connection to the service is lost.
ServiceEnds ==
  /\ StreamOpen
  /\ \E end \in {"OK", "ERROR"} : ended' = [ended EXCEPT ![run] = end]
  /\ UNCHANGED <<prompt, view, client, produced, read, events>>

-----------------------------------------------------------------------------
Init ==
  /\ prompt \in BOOLEAN
  /\ gui = "idle" /\ purpose = "none" /\ viewSubscribed = FALSE /\ clicks = 0
  /\ active = FALSE /\ context = "none" /\ thread = "none" /\ stopped = FALSE
  /\ run = 0 /\ produced = [r \in Runs |-> 0] /\ ended = [r \in Runs |-> "open"]
  /\ read = 0 /\ posted = <<>> /\ shown = [r \in Runs |-> <<>>]

GuiStep ==
  \/ NothingToStop \/ Deactivate \/ Cancel \/ Join
  \/ ShowStopped \/ Closed \/ Arm \/ Spawn \/ SpawnFails \/ HandleEvent

ThreadStep ==
  \/ ThreadOpens \/ ThreadLoops \/ ThreadReads \/ ThreadReadFails \/ ThreadPosts
  \/ ThreadChecks \/ ThreadFinishes \/ ThreadEnds \/ ThreadFails

Operator == ClickStop \/ ClickStart \/ Close

Service == ServiceSends \/ ServiceEnds

Gone == gui = "closed" /\ UNCHANGED vars

Next == GuiStep \/ ThreadStep \/ Operator \/ Service \/ Gone

Spec == Init /\ [][Next]_vars

\* Both threads run.  Nothing obliges the operator to click, nor the service
\* to send or to end a stream.
FairSpec == Spec /\ WF_vars(GuiStep) /\ WF_vars(ThreadStep)
=============================================================================
