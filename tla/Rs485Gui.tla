------------------------------- MODULE Rs485Gui -------------------------------
(***************************************************************************)
(* The subscription of the RS-485 tab of the GUI: QtViewRS485 on the GUI   *)
(* thread, Rs485MicroserviceClient with its subscribe thread, and the      *)
(* events that thread posts to the event loop of Qt.                       *)
(*                                                                         *)
(* The client's context and its two callbacks are set together and cleared *)
(* together under subscribe_mutex_: context stands for the three of them.  *)
(***************************************************************************)
EXTENDS Naturals, Sequences

CONSTANTS
  MaxRuns,      \* bound: subscriptions the operator starts
  MaxClicks,    \* bound: clicks on the subscribe button
  MaxResults,   \* bound: results the service sends on one stream
  Results,      \* the kinds of result: success or failure of a reception
  Ends          \* the statuses the service may end a stream with

ASSUME ConstantsAssumption ==
  /\ MaxRuns \in Nat /\ MaxClicks \in Nat /\ MaxResults \in Nat
  /\ Results \subseteq {"data", "failure"}
  /\ Ends \subseteq {"OK", "ERROR"}

VARIABLES
  prompt,         \* does Qt dispatch the posted events before a click
  gui,            \* where the GUI thread is
  viewSubscribed, \* QtViewRS485::subscribed, and with it the button's text
  status,         \* the status line
  clicks,         \* clicks so far
  closing,        \* the view is being destroyed
  subscribed,     \* Rs485MicroserviceClient::subscribed_
  stopRequested,  \* stop_requested_
  context,        \* subscribe_context_
  thread,         \* where subscribe_thread_ is in subscribeLoop()
  run,            \* the number of the last subscription
  source,         \* per subscription, what the service wrote on its stream
  read,           \* elements of source[run] the thread has consumed
  posted,         \* the events waiting in the event loop
  shown           \* per subscription, the entries of the received log

view == <<gui, viewSubscribed, status, clicks, closing>>
client == <<subscribed, stopRequested, context, thread, run>>
stream == <<source, read>>
events == <<posted, shown>>
vars == <<prompt, view, client, stream, events>>

Runs == 1..MaxRuns

\* The n-th entry a subscription shows, and what posts it.
Event(kind, n) == [run |-> run, n |-> n, kind |-> kind]
Post(event) == posted' = Append(posted, event)

Ended == source[run] # <<>> /\ source[run][Len(source[run])] \in Ends
HasNext == read < Len(source[run])
NextItem == source[run][read + 1]

-----------------------------------------------------------------------------
(* on_subscribe_clicked() with subscribed = false: startSubscribe().       *)

\* The GUI thread takes a click when it is back in its event loop.
Click ==
  /\ gui = "idle" /\ ~closing /\ clicks < MaxClicks
  /\ prompt => posted = <<>>
  /\ clicks' = clicks + 1

ShowRunning == viewSubscribed' = TRUE /\ status' = "running"

\* startSubscribe() returns at once, and says nothing, if it is subscribed.
StartIgnored ==
  /\ Click /\ ~viewSubscribed /\ subscribed
  /\ ShowRunning
  /\ UNCHANGED <<prompt, gui, closing, client, stream, events>>

\* Mutant: the thread of the last subscription is not joined.
StartSkipsJoin ==
  /\ Click /\ ~viewSubscribed /\ ~subscribed /\ run < MaxRuns
  /\ gui' = "arm"
  /\ UNCHANGED <<prompt, viewSubscribed, status, closing, client, stream, events>>

Start ==
  /\ Click /\ ~viewSubscribed /\ ~subscribed /\ run < MaxRuns
  /\ gui' = IF thread = "none" THEN "arm" ELSE "startJoin"
  /\ UNCHANGED <<prompt, viewSubscribed, status, closing, client, stream, events>>

StartJoined ==
  /\ gui = "startJoin" /\ thread = "exited"
  /\ gui' = "arm" /\ thread' = "none"
  /\ UNCHANGED <<prompt, viewSubscribed, status, clicks, closing, subscribed,
                 stopRequested, context, run, stream, events>>

StartArm ==
  /\ gui = "arm"
  /\ context' = "live" /\ stopRequested' = FALSE /\ subscribed' = TRUE
  /\ gui' = "spawn"
  /\ UNCHANGED <<prompt, viewSubscribed, status, clicks, closing, thread, run,
                 stream, events>>

StartSpawn ==
  /\ gui = "spawn"
  /\ thread' = "spawned" /\ run' = run + 1 /\ read' = 0
  /\ gui' = "idle" /\ ShowRunning
  /\ UNCHANGED <<prompt, clicks, closing, subscribed, stopRequested, context,
                 source, events>>

StartSpawnFails ==
  /\ gui = "spawn"
  /\ subscribed' = FALSE /\ stopRequested' = FALSE /\ context' = "none"
  /\ gui' = "idle" /\ viewSubscribed' = FALSE /\ status' = "startFailed"
  /\ UNCHANGED <<prompt, clicks, closing, thread, run, stream, events>>

-----------------------------------------------------------------------------
(* on_subscribe_clicked() with subscribed = true, and the destructor of    *)
(* the view through disconnect(): stopSubscribe().                         *)

Stop ==
  /\ Click /\ viewSubscribed
  /\ gui' = "stop"
  /\ UNCHANGED <<prompt, viewSubscribed, status, closing, client, stream, events>>

CloseView ==
  /\ gui = "idle" /\ ~closing
  /\ closing' = TRUE
  /\ gui' = "stop"
  /\ UNCHANGED <<prompt, viewSubscribed, status, clicks, client, stream, events>>

StopRequest ==
  /\ gui = "stop"
  /\ stopRequested' = TRUE
  /\ gui' = "unsubscribe"
  /\ UNCHANGED <<prompt, viewSubscribed, status, clicks, closing, subscribed,
                 context, thread, run, stream, events>>

StopUnsubscribe ==
  /\ gui = "unsubscribe"
  /\ subscribed' = FALSE
  /\ gui' = "cancel"
  /\ UNCHANGED <<prompt, viewSubscribed, status, clicks, closing, stopRequested,
                 context, thread, run, stream, events>>

\* Mutant: the call is not cancelled before the join.
StopWithoutCancel ==
  /\ gui = "cancel" /\ thread # "opening"
  /\ gui' = "join"
  /\ UNCHANGED <<prompt, viewSubscribed, status, clicks, closing, client,
                 stream, events>>

\* TryCancel, under the mutex the thread holds while it opens the stream.
StopCancel ==
  /\ gui = "cancel" /\ thread # "opening"
  /\ context' = IF context = "none" THEN "none" ELSE "cancelled"
  /\ gui' = "join"
  /\ UNCHANGED <<prompt, viewSubscribed, status, clicks, closing, subscribed,
                 stopRequested, thread, run, stream, events>>

\* Mutant: the thread is left behind.
StopWithoutJoin ==
  /\ gui = "join"
  /\ gui' = "clear"
  /\ UNCHANGED <<prompt, viewSubscribed, status, clicks, closing, client,
                 stream, events>>

StopJoin ==
  /\ gui = "join" /\ thread \in {"none", "exited"}
  /\ thread' = "none"
  /\ gui' = "clear"
  /\ UNCHANGED <<prompt, viewSubscribed, status, clicks, closing, subscribed,
                 stopRequested, context, run, stream, events>>

StopClear ==
  /\ gui = "clear"
  /\ context' = "none" /\ stopRequested' = FALSE
  /\ IF closing
     THEN gui' = "closed" /\ UNCHANGED <<viewSubscribed, status>>
     ELSE gui' = "idle" /\ viewSubscribed' = FALSE /\ status' = "stopped"
  /\ UNCHANGED <<prompt, clicks, closing, subscribed, thread, run, stream, events>>

-----------------------------------------------------------------------------
(* subscribeLoop(), on the subscribe thread.                               *)

\* The thread takes subscribe_mutex_ and opens the stream while it holds it.
ThreadLock ==
  /\ thread = "spawned"
  /\ thread' = "opening"
  /\ UNCHANGED <<prompt, view, subscribed, stopRequested, context, run, stream, events>>

ThreadOpen ==
  /\ thread = "opening"
  /\ thread' = "loop"
  /\ UNCHANGED <<prompt, view, subscribed, stopRequested, context, run, stream, events>>

\* while (subscribed_ && Read()): the flag is seen only between two reads.
ThreadLoop ==
  /\ thread = "loop"
  /\ thread' = IF subscribed THEN "reading" ELSE "finishing"
  /\ UNCHANGED <<prompt, view, subscribed, stopRequested, context, run, stream, events>>

\* What arrived before TryCancel may still be read after it.
ThreadRead ==
  /\ thread = "reading" /\ HasNext /\ NextItem \in Results
  /\ read' = read + 1
  /\ thread' = "posting"
  /\ UNCHANGED <<prompt, view, subscribed, stopRequested, context, run, source, events>>

ThreadReadFails ==
  /\ thread = "reading"
  /\ context = "cancelled" \/ (HasNext /\ NextItem \in Ends)
  /\ thread' = "finishing"
  /\ UNCHANGED <<prompt, view, subscribed, stopRequested, context, run, stream, events>>

\* Mutant: the event carries the result that was read before.
ThreadPostStale ==
  /\ thread = "posting"
  /\ Post(Event(source[run][1], 1))
  /\ thread' = "loop"
  /\ UNCHANGED <<prompt, view, subscribed, stopRequested, context, run, stream, shown>>

\* receive_callback: a queued call of handle_received_data().
ThreadPost ==
  /\ thread = "posting"
  /\ Post(Event(source[run][read], read))
  /\ thread' = "loop"
  /\ UNCHANGED <<prompt, view, subscribed, stopRequested, context, run, stream, shown>>

\* Finish() returns once the call is cancelled or the service has ended it.
ThreadFinish ==
  /\ thread = "finishing"
  /\ \/ context = "cancelled" /\ thread' = "ended"
     \/ Ended /\ thread' = IF source[run][Len(source[run])] = "ERROR"
                           THEN "failed" ELSE "ended"
  /\ UNCHANGED <<prompt, view, subscribed, stopRequested, context, run, stream, events>>

\* subscribed_ = false, then the callbacks are copied.
ThreadUnsubscribes ==
  /\ thread \in {"failed", "ended"}
  /\ subscribed' = FALSE
  /\ thread' = IF thread = "failed" THEN "reportFailure" ELSE "reportEnd"
  /\ UNCHANGED <<prompt, view, stopRequested, context, run, stream, events>>

\* Mutant: the thread ends after it reported the failure.
ThreadReportsOnlyFailure ==
  /\ thread = "reportFailure"
  /\ Post(Event("failure", Len(source[run])))
  /\ thread' = "exited"
  /\ UNCHANGED <<prompt, view, subscribed, stopRequested, context, run, stream, shown>>

ThreadReportsFailure ==
  /\ thread = "reportFailure"
  /\ Post(Event("failure", Len(source[run])))
  /\ thread' = "reportEnd"
  /\ UNCHANGED <<prompt, view, subscribed, stopRequested, context, run, stream, shown>>

\* finished_callback, unless a stop was requested.
ThreadReportsEnd ==
  /\ thread = "reportEnd"
  /\ posted' = IF stopRequested THEN posted ELSE Append(posted, Event("finished", 0))
  /\ thread' = "exited"
  /\ UNCHANGED <<prompt, view, subscribed, stopRequested, context, run, stream, shown>>

-----------------------------------------------------------------------------
(* The event loop and the service.                                         *)

\* Mutant: the end of a subscription overwrites the error on the status line.
HandleEventMasksError ==
  /\ gui = "idle" /\ ~closing /\ posted # <<>>
  /\ LET e == Head(posted) IN
     /\ shown' = [shown EXCEPT ![e.run] = Append(@, e)]
     /\ status' = CASE e.kind = "data" -> "data"
                    [] e.kind = "failure" -> "error"
                    [] OTHER -> "finished"
     /\ viewSubscribed' = (viewSubscribed /\ e.kind # "finished")
  /\ posted' = Tail(posted)
  /\ UNCHANGED <<prompt, gui, clicks, closing, client, stream>>

\* Mutant: the queued end does not reset the button.
HandleEventKeepsButton ==
  /\ gui = "idle" /\ ~closing /\ posted # <<>>
  /\ LET e == Head(posted) IN
     /\ shown' = [shown EXCEPT ![e.run] = Append(@, e)]
     /\ status' = IF e.kind = "data" THEN "data" ELSE "error"
  /\ posted' = Tail(posted)
  /\ UNCHANGED <<prompt, gui, viewSubscribed, clicks, closing, client, stream>>

\* handle_received_data() or the queued end of a subscription.  The end does
\* not replace an error shown on the status line.
HandleEvent ==
  /\ gui = "idle" /\ ~closing /\ posted # <<>>
  /\ LET e == Head(posted) IN
     /\ shown' = [shown EXCEPT ![e.run] = Append(@, e)]
     /\ status' = CASE e.kind = "data" -> "data"
                    [] e.kind = "failure" -> "error"
                    [] OTHER -> IF status = "error" THEN "error" ELSE "finished"
     /\ viewSubscribed' = (viewSubscribed /\ e.kind # "finished")
  /\ posted' = Tail(posted)
  /\ UNCHANGED <<prompt, gui, clicks, closing, client, stream>>

StreamOpen ==
  /\ thread \in {"loop", "reading", "posting"} /\ context = "live" /\ ~Ended

ServiceSends(r) ==
  /\ StreamOpen /\ Len(source[run]) < MaxResults
  /\ source' = [source EXCEPT ![run] = Append(@, r)]
  /\ UNCHANGED <<prompt, view, client, read, events>>

ServiceEnds(e) ==
  /\ StreamOpen
  /\ source' = [source EXCEPT ![run] = Append(@, e)]
  /\ UNCHANGED <<prompt, view, client, read, events>>

-----------------------------------------------------------------------------
Init ==
  /\ prompt \in BOOLEAN
  /\ gui = "idle" /\ viewSubscribed = FALSE /\ status = "connected"
  /\ clicks = 0 /\ closing = FALSE
  /\ subscribed = FALSE /\ stopRequested = FALSE
  /\ context = "none" /\ thread = "none" /\ run = 0
  /\ source = [r \in Runs |-> <<>>] /\ read = 0
  /\ posted = <<>> /\ shown = [r \in Runs |-> <<>>]

GuiStep ==
  \/ StartJoined \/ StartArm \/ StartSpawn \/ StartSpawnFails
  \/ StopRequest \/ StopUnsubscribe \/ StopCancel \/ StopJoin \/ StopClear
  \/ HandleEvent

ThreadStep ==
  \/ ThreadLock \/ ThreadOpen \/ ThreadLoop \/ ThreadRead \/ ThreadReadFails
  \/ ThreadPost \/ ThreadFinish \/ ThreadUnsubscribes
  \/ ThreadReportsFailure \/ ThreadReportsEnd

Operator == StartIgnored \/ Start \/ Stop \/ CloseView

Service == (\E r \in Results : ServiceSends(r)) \/ (\E e \in Ends : ServiceEnds(e))

Closed == gui = "closed" /\ UNCHANGED vars

Next == GuiStep \/ ThreadStep \/ Operator \/ Service \/ Closed

Spec == Init /\ [][Next]_vars

\* Both threads run.  Nothing obliges the operator to click, nor the service
\* to send or to end a stream.
FairSpec == Spec /\ WF_vars(GuiStep) /\ WF_vars(ThreadStep)
=============================================================================
