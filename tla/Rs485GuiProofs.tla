---------------------------- MODULE Rs485GuiProofs ----------------------------
(***************************************************************************)
(* Theorems about the subscription of the RS-485 tab, for any number of    *)
(* subscriptions, clicks and results, and any interleaving of the GUI      *)
(* thread, the subscribe thread and the service.                           *)
(***************************************************************************)
EXTENDS Integers, Rs485GuiProps, TLAPS

\* What keeps the type of the events: a start leaves room for one more
\* subscription, and the thread posts a result it has read.
Numbered ==
  /\ gui \in {"startJoin", "arm", "spawn"} => run < MaxRuns
  /\ thread = "posting" => read > 0 /\ source[run][read] \in Results

TypeInv == TypeOK /\ Numbered

LEMMA InitTypeInv == Init => TypeInv
<1> SUFFICES ASSUME Init PROVE TypeInv
  OBVIOUS
<1>1. source \in [Runs -> Seq(Results \union Ends)] /\ shown \in [Runs -> Seq(EventType)]
  BY DEF Init
<1>2. 0 \notin Runs /\ 0 \in 0..MaxRuns /\ 0 \in 0..MaxClicks
  BY ConstantsAssumption DEF ConstantsAssumption, Runs
<1>3. posted \in Seq(EventType)
  BY DEF Init
<1>4. Numbered
  BY DEF Init, Numbered
<1> QED
  BY <1>1, <1>2, <1>3, <1>4 DEF Init, TypeInv, TypeOK, GuiPlaces, ThreadPlaces, Statuses

\* The steps of the GUI thread.
LEMMA GuiTypeInv ==
  ASSUME TypeInv, GuiStep
  PROVE  TypeInv'
<1> USE ConstantsAssumption
        DEF ConstantsAssumption, TypeInv, TypeOK, Numbered, GuiPlaces, ThreadPlaces,
            Statuses, view, client, stream, events, Runs
<1>1. CASE StartJoined
  BY <1>1 DEF StartJoined
<1>2. CASE StartArm
  <2>1. stopRequested' \in BOOLEAN /\ subscribed' \in BOOLEAN
    BY <1>2 DEF StartArm
  <2>2. /\ gui = "arm" /\ gui' = "spawn" /\ context' = "live"
        /\ UNCHANGED <<prompt, viewSubscribed, status, clicks, closing, thread, run,
                       stream, events>>
    BY <1>2 DEF StartArm
  <2> QED
    BY <2>1, <2>2
<1>3. CASE StartSpawn
  <2>1. run' \in Runs /\ run' \in 0..MaxRuns
    BY <1>3 DEF StartSpawn
  <2>2. Len(source[run']) \in Nat
    BY <2>1
  <2> QED
    BY <1>3, <2>1, <2>2 DEF StartSpawn, ShowRunning
<1>4. CASE StartSpawnFails
  BY <1>4 DEF StartSpawnFails
<1>5. CASE StopRequest
  <2>1. stopRequested' \in BOOLEAN
    BY <1>5 DEF StopRequest
  <2>2. /\ gui' = "unsubscribe"
        /\ UNCHANGED <<prompt, viewSubscribed, status, clicks, closing, subscribed,
                       context, thread, run, stream, events>>
    BY <1>5 DEF StopRequest
  <2> QED
    BY <2>1, <2>2
<1>6. CASE StopUnsubscribe
  <2>1. subscribed' \in BOOLEAN
    BY <1>6 DEF StopUnsubscribe
  <2>2. /\ gui' = "cancel"
        /\ UNCHANGED <<prompt, viewSubscribed, status, clicks, closing, stopRequested,
                       context, thread, run, stream, events>>
    BY <1>6 DEF StopUnsubscribe
  <2> QED
    BY <2>1, <2>2
<1>7. CASE StopCancel
  BY <1>7 DEF StopCancel
<1>8. CASE StopJoin
  BY <1>8 DEF StopJoin
<1>9. CASE StopClear
  <2>1. stopRequested' \in BOOLEAN /\ viewSubscribed' \in BOOLEAN
    BY <1>9 DEF StopClear
  <2>2. gui' \in {"closed", "idle"} /\ status' \in Statuses /\ context' = "none"
    BY <1>9 DEF StopClear
  <2>3. UNCHANGED <<prompt, clicks, closing, subscribed, thread, run, stream, events>>
    BY <1>9 DEF StopClear
  <2> QED
    BY <2>1, <2>2, <2>3
<1>10. CASE HandleEvent
  <2>1. Head(posted) \in EventType /\ Tail(posted) \in Seq(EventType)
    BY <1>10 DEF HandleEvent
  <2>2. shown' \in [Runs -> Seq(EventType)]
    <3>1. Head(posted).run \in Runs
      BY <2>1 DEF EventType
    <3>2. shown' = [shown EXCEPT ![Head(posted).run] = Append(@, Head(posted))]
      BY <1>10 DEF HandleEvent
    <3> QED
      BY <2>1, <3>1, <3>2
  <2>3. status' \in Statuses
    BY <1>10 DEF HandleEvent
  <2>4. source' = source /\ read' = read
    BY <1>10 DEF HandleEvent
  <2>5. viewSubscribed' \in BOOLEAN /\ posted' \in Seq(EventType)
    BY <1>10, <2>1 DEF HandleEvent
  <2>6. UNCHANGED <<prompt, gui, clicks, closing, client>>
    BY <1>10 DEF HandleEvent
  <2> HIDE DEF GuiPlaces, ThreadPlaces, Statuses
  <2> QED
    BY <2>2, <2>3, <2>4, <2>5, <2>6
<1> QED
  BY <1>1, <1>2, <1>3, <1>4, <1>5, <1>6, <1>7, <1>8, <1>9, <1>10 DEF GuiStep

\* The steps of the subscribe thread.
LEMMA ThreadTypeInv ==
  ASSUME TypeInv, ThreadStep
  PROVE  TypeInv'
<1> USE ConstantsAssumption
        DEF ConstantsAssumption, TypeInv, TypeOK, Numbered, GuiPlaces, ThreadPlaces,
            Statuses, view, client, stream, events
<1>1. CASE ThreadLock
  BY <1>1 DEF ThreadLock
<1>2. CASE ThreadOpen
  BY <1>2 DEF ThreadOpen
<1>3. CASE ThreadLoop
  BY <1>3 DEF ThreadLoop
<1>4. CASE ThreadRead
  BY <1>4 DEF ThreadRead, HasNext, NextItem
<1>5. CASE ThreadReadFails
  BY <1>5 DEF ThreadReadFails
<1>6. CASE ThreadPost
  <2>1. Event(source[run][read], read) \in EventType
    BY <1>6 DEF ThreadPost, Event, EventType
  <2>2. posted' \in Seq(EventType)
    BY <1>6, <2>1 DEF ThreadPost, Post
  <2> QED
    BY <1>6, <2>2 DEF ThreadPost
<1>7. CASE ThreadFinish
  <2>1. thread' \in {"ended", "failed"} /\ thread = "finishing"
    BY <1>7 DEF ThreadFinish
  <2> QED
    BY <1>7, <2>1 DEF ThreadFinish
<1>8. CASE ThreadUnsubscribes
  <2>1. subscribed' \in BOOLEAN
    BY <1>8 DEF ThreadUnsubscribes
  <2>2. /\ thread \in {"failed", "ended"} /\ thread' \in {"reportFailure", "reportEnd"}
        /\ UNCHANGED <<prompt, view, stopRequested, context, run, stream, events>>
    BY <1>8 DEF ThreadUnsubscribes
  <2> QED
    BY <2>1, <2>2
<1>9. CASE ThreadReportsFailure
  <2>1. run \in Runs /\ Len(source[run]) \in Nat
    BY <1>9 DEF ThreadReportsFailure
  <2>2. Event("failure", Len(source[run])) \in EventType
    BY <2>1 DEF Event, EventType
  <2>3. posted' \in Seq(EventType)
    BY <1>9, <2>2 DEF ThreadReportsFailure, Post
  <2> QED
    BY <1>9, <2>3 DEF ThreadReportsFailure
<1>10. CASE ThreadReportsEnd
  <2>1. Event("finished", 0) \in EventType
    BY <1>10 DEF ThreadReportsEnd, Event, EventType
  <2>2. posted' \in Seq(EventType)
    BY <1>10, <2>1 DEF ThreadReportsEnd
  <2> QED
    BY <1>10, <2>2 DEF ThreadReportsEnd
<1> QED
  BY <1>1, <1>2, <1>3, <1>4, <1>5, <1>6, <1>7, <1>8, <1>9, <1>10 DEF ThreadStep

\* The operator and the service.
LEMMA OthersTypeInv ==
  ASSUME TypeInv, Operator \/ Service
  PROVE  TypeInv'
<1> USE ConstantsAssumption
        DEF ConstantsAssumption, TypeInv, TypeOK, Numbered, GuiPlaces, ThreadPlaces,
            Statuses, view, client, stream, events, Click
<1>1. CASE StartIgnored
  BY <1>1 DEF StartIgnored, ShowRunning
<1>2. CASE Start
  BY <1>2 DEF Start
<1>3. CASE Stop
  BY <1>3 DEF Stop
<1>4. CASE CloseView
  BY <1>4 DEF CloseView
<1>5. ASSUME NEW x \in Results \union Ends, StreamOpen,
             source' = [source EXCEPT ![run] = Append(@, x)],
             UNCHANGED <<prompt, view, client, read, events>>
      PROVE  TypeInv'
  <2>1. run \in Runs /\ source[run] \in Seq(Results \union Ends)
    BY <1>5 DEF StreamOpen
  <2>2. source'[run] = Append(source[run], x) /\ Len(source'[run]) = Len(source[run]) + 1
    BY <1>5, <2>1
  <2>3. source' \in [Runs -> Seq(Results \union Ends)]
    BY <1>5, <2>1
  <2>4. thread = "posting" => source'[run][read] = source[run][read]
    BY <2>1, <2>2
  <2> QED
    BY <1>5, <2>1, <2>2, <2>3, <2>4
<1> QED
  BY <1>1, <1>2, <1>3, <1>4, <1>5 DEF Operator, Service, ServiceSends, ServiceEnds

LEMMA NextTypeInv ==
  ASSUME TypeInv, [Next]_vars
  PROVE  TypeInv'
<1>1. CASE UNCHANGED vars
  BY <1>1 DEF vars, view, client, stream, events, TypeInv, TypeOK, Numbered
<1> QED
  BY <1>1, GuiTypeInv, ThreadTypeInv, OthersTypeInv DEF Next, Closed

\* Type correctness of the tab.
THEOREM TypeCorrect == Spec => []TypeOK
<1>1. TypeInv /\ [Next]_vars => TypeInv'
  BY NextTypeInv
<1>2. TypeInv => TypeOK
  BY DEF TypeInv
<1> QED
  BY InitTypeInv, <1>1, <1>2, PTL DEF Spec

-----------------------------------------------------------------------------
\* ThreadIsOwned, with the places between which it is carried: the thread is
\* gone from the join to the next spawn, and the context is set before it.
OwnedInv ==
  /\ gui \in {"arm", "spawn", "clear", "closed"} => thread = "none"
  /\ gui = "spawn" => context = "live"
  /\ Alive => context # "none"

LEMMA NextOwned ==
  ASSUME OwnedInv, [Next]_vars
  PROVE  OwnedInv'
<1> USE DEF OwnedInv, Alive, view, client, stream, events
<1>1. CASE GuiStep
  BY <1>1 DEF GuiStep, StartJoined, StartArm, StartSpawn, StartSpawnFails,
              StopRequest, StopUnsubscribe, StopCancel, StopJoin, StopClear, HandleEvent
<1>2. CASE ThreadStep
  BY <1>2 DEF ThreadStep, ThreadLock, ThreadOpen, ThreadLoop, ThreadRead,
              ThreadReadFails, ThreadPost, ThreadFinish, ThreadUnsubscribes,
              ThreadReportsFailure, ThreadReportsEnd
<1>3. CASE Operator
  BY <1>3 DEF Operator, StartIgnored, Start, Stop, CloseView, Click
<1>4. CASE Service \/ Closed \/ UNCHANGED vars
  BY <1>4 DEF Service, ServiceSends, ServiceEnds, Closed, vars
<1> QED
  BY <1>1, <1>2, <1>3, <1>4 DEF Next

\* A thread is created only when the last one was joined, the context outlives
\* the thread that uses it, and a destroyed view leaves no thread behind.
THEOREM ThreadAlwaysOwned == Spec => []ThreadIsOwned
<1>1. Init => OwnedInv
  BY DEF Init, OwnedInv, Alive
<1>2. OwnedInv /\ [Next]_vars => OwnedInv'
  BY NextOwned
<1>3. OwnedInv => ThreadIsOwned
  BY DEF OwnedInv, ThreadIsOwned
<1> QED
  BY <1>1, <1>2, <1>3, PTL DEF Spec

-----------------------------------------------------------------------------
\* Once stopSubscribe() has returned, and until the next start, the client
\* posts nothing: whoever posts is alive, and then there is a context.
THEOREM AlwaysQuietAfterStop == Spec => QuietAfterStop
<1>1. Init => OwnedInv
  BY DEF Init, OwnedInv, Alive
<1>2. OwnedInv /\ [Next]_vars => OwnedInv'
  BY NextOwned
<1>3. TypeInv /\ [Next]_vars => TypeInv'
  BY NextTypeInv
<1>4. TypeInv /\ OwnedInv /\ [Next]_vars =>
        [(context = "none" /\ gui \notin {"arm", "spawn"}) => Len(posted') <= Len(posted)]_vars
  <2> SUFFICES ASSUME TypeInv, OwnedInv, Next, context = "none"
               PROVE  Len(posted') <= Len(posted)
    BY DEF vars
  <2>1. posted \in Seq(EventType) /\ ~Alive
    BY DEF TypeInv, TypeOK, OwnedInv
  <2>2. CASE UNCHANGED posted
    BY <2>1, <2>2
  <2>3. CASE posted # << >> /\ posted' = Tail(posted)
    BY <2>1, <2>3
  <2>4. UNCHANGED posted \/ (posted # << >> /\ posted' = Tail(posted))
    BY <2>1
    DEF Alive, events, vars, Next, GuiStep, StartJoined, StartArm, StartSpawn, StartSpawnFails,
        StopRequest, StopUnsubscribe, StopCancel, StopJoin, StopClear, HandleEvent,
        ThreadStep, ThreadLock, ThreadOpen, ThreadLoop, ThreadRead, ThreadReadFails, ThreadPost,
        ThreadFinish, ThreadUnsubscribes, ThreadReportsFailure, ThreadReportsEnd,
        Operator, StartIgnored, Start, Stop, CloseView, Service, ServiceSends, ServiceEnds, Closed
  <2> QED
    BY <2>2, <2>3, <2>4
<1> QED
  BY InitTypeInv, <1>1, <1>2, <1>3, <1>4, PTL DEF Spec, QuietAfterStop

-----------------------------------------------------------------------------
(* The button.                                                             *)

\* The client is subscribed from its start until its thread reports the end,
\* and a stop is requested only while the GUI thread carries it out.
Subscribing ==
  /\ subscribed => gui = "spawn" \/ (Alive /\ thread \notin {"reportFailure", "reportEnd"})
  /\ stopRequested => gui \in {"unsubscribe", "cancel", "join", "clear"}

EndPosted(queue) == \E k \in 1..Len(queue) : queue[k].kind = "finished"

\* When no click overtakes an event: a start finds everything handled and
\* nobody alive, the posted end is the end, and without one the button is right.
ButtonInv ==
  prompt =>
    /\ gui \in {"startJoin", "arm", "spawn"} => posted = << >> /\ ~Alive
    /\ EndPosted(posted) => ~Alive
    /\ gui = "idle" /\ ~EndPosted(posted) => (viewSubscribed <=> Alive)

\* The end is posted or not after one more event, and after one less.
LEMMA EndPostedChanges ==
  ASSUME NEW q \in Seq(EventType)
  PROVE  /\ \A e \in EventType : EndPosted(Append(q, e)) <=> EndPosted(q) \/ e.kind = "finished"
         /\ q # << >> => (EndPosted(q) <=> Head(q).kind = "finished" \/ EndPosted(Tail(q)))
         /\ ~EndPosted(<< >>)
<1>1. ASSUME NEW e \in EventType
      PROVE  EndPosted(Append(q, e)) <=> EndPosted(q) \/ e.kind = "finished"
  <2> DEFINE a == Append(q, e)
  <2>1. /\ Len(a) = Len(q) + 1 /\ a[Len(q) + 1] = e /\ Len(q) \in Nat
        /\ \A k \in 1..Len(q) : a[k] = q[k]
    OBVIOUS
  <2> HIDE DEF a
  <2>2. EndPosted(a) <=> EndPosted(q) \/ e.kind = "finished"
    BY <2>1 DEF EndPosted
  <2> QED
    BY <2>2 DEF a
<1>2. ASSUME q # << >>
      PROVE  EndPosted(q) <=> Head(q).kind = "finished" \/ EndPosted(Tail(q))
  <2> DEFINE t == Tail(q)
  <2>1. /\ Len(q) = Len(t) + 1 /\ Head(q) = q[1] /\ Len(t) \in Nat
        /\ \A k \in 1..Len(t) : t[k] = q[k + 1]
    BY <1>2
  <2> HIDE DEF t
  <2>2. ASSUME EndPosted(q) PROVE Head(q).kind = "finished" \/ EndPosted(t)
    <3>1. PICK k \in 1..Len(q) : q[k].kind = "finished"
      BY <2>2 DEF EndPosted
    <3>2. CASE k = 1
      BY <2>1, <3>1, <3>2
    <3>3. CASE k # 1
      <4>1. k - 1 \in 1..Len(t) /\ t[k - 1] = q[k]
        BY <2>1, <3>3
      <4> QED
        BY <3>1, <4>1 DEF EndPosted
    <3> QED
      BY <3>2, <3>3
  <2>3. ASSUME Head(q).kind = "finished" \/ EndPosted(t) PROVE EndPosted(q)
    <3>1. CASE Head(q).kind = "finished"
      <4>1. 1 \in 1..Len(q) /\ q[1].kind = "finished"
        BY <2>1, <3>1
      <4> QED
        BY <4>1 DEF EndPosted
    <3>2. CASE EndPosted(t)
      <4>1. PICK k \in 1..Len(t) : t[k].kind = "finished"
        BY <3>2 DEF EndPosted
      <4>2. k + 1 \in 1..Len(q) /\ q[k + 1].kind = "finished"
        BY <2>1, <4>1
      <4> QED
        BY <4>2 DEF EndPosted
    <3> QED
      BY <2>3, <3>1, <3>2
  <2> QED
    BY <2>2, <2>3 DEF t
<1>3. ~EndPosted(<< >>)
  BY DEF EndPosted
<1> QED
  BY <1>1, <1>2, <1>3

LEMMA NextSubscribing ==
  ASSUME TypeInv, OwnedInv, Subscribing, [Next]_vars
  PROVE  Subscribing'
<1> USE DEF Subscribing, OwnedInv, Alive, view, client, stream, events
<1>1. CASE GuiStep
  BY <1>1 DEF GuiStep, StartJoined, StartArm, StartSpawn, StartSpawnFails,
              StopRequest, StopUnsubscribe, StopCancel, StopJoin, StopClear, HandleEvent
<1>2. CASE ThreadStep
  BY <1>2 DEF ThreadStep, ThreadLock, ThreadOpen, ThreadLoop, ThreadRead,
              ThreadReadFails, ThreadPost, ThreadFinish, ThreadUnsubscribes,
              ThreadReportsFailure, ThreadReportsEnd
<1>3. CASE Operator
  BY <1>3 DEF Operator, StartIgnored, Start, Stop, CloseView, Click
<1>4. CASE Service \/ Closed \/ UNCHANGED vars
  BY <1>4 DEF Service, ServiceSends, ServiceEnds, Closed, vars
<1> QED
  BY <1>1, <1>2, <1>3, <1>4 DEF Next

LEMMA NextButton ==
  ASSUME TypeInv, OwnedInv, Subscribing, ButtonInv, [Next]_vars
  PROVE  ButtonInv'
<1> USE DEF ButtonInv, view, client, stream, events
<1>1. posted \in Seq(EventType) /\ ~EndPosted(<< >>)
  BY EndPostedChanges DEF TypeInv, TypeOK
\* The steps of the GUI thread in its start and its stop.
<1>2. CASE StartJoined \/ StartArm \/ StartSpawn \/ StartSpawnFails
  BY <1>1, <1>2 DEF OwnedInv, Alive, StartJoined, StartArm, StartSpawn, StartSpawnFails, ShowRunning
<1>3. CASE StopRequest \/ StopUnsubscribe \/ StopCancel \/ StopJoin
  BY <1>3 DEF Alive, StopRequest, StopUnsubscribe, StopCancel, StopJoin
<1>4. CASE StopClear
  BY <1>4 DEF OwnedInv, Alive, StopClear
<1>5. CASE HandleEvent
  <2> DEFINE q == posted
  <2>1. /\ gui = "idle" /\ gui' = "idle" /\ thread' = thread /\ prompt' = prompt /\ q # << >>
        /\ posted' = Tail(q)
        /\ viewSubscribed' = (viewSubscribed /\ Head(q).kind # "finished")
    BY <1>5 DEF HandleEvent
  <2>2. EndPosted(q) <=> Head(q).kind = "finished" \/ EndPosted(Tail(q))
    BY <1>1, <2>1, EndPostedChanges
  <2>3. EndPosted(posted)' <=> EndPosted(Tail(q))
    BY <2>1 DEF EndPosted
  <2>4. CASE Head(q).kind = "finished"
    <3>1. viewSubscribed' = FALSE
      BY <2>1, <2>4
    <3> QED
      BY <2>1, <2>2, <2>3, <2>4, <3>1 DEF Alive
  <2>5. CASE Head(q).kind # "finished"
    <3>1. viewSubscribed' <=> viewSubscribed
      BY <2>1, <2>5
    <3> QED
      BY <2>1, <2>2, <2>3, <2>5, <3>1 DEF Alive
  <2> QED
    BY <2>4, <2>5
\* The subscribe thread.
<1>6. CASE ThreadLock \/ ThreadOpen \/ ThreadLoop \/ ThreadRead \/ ThreadReadFails
           \/ ThreadFinish \/ ThreadUnsubscribes
  <2>1. Alive /\ Alive' /\ UNCHANGED <<prompt, gui, viewSubscribed, posted>>
    BY <1>6 DEF Alive, ThreadLock, ThreadOpen, ThreadLoop, ThreadRead, ThreadReadFails,
                ThreadFinish, ThreadUnsubscribes
  <2> QED
    BY <2>1
<1>7. ASSUME ThreadPost \/ ThreadReportsFailure
      PROVE  ButtonInv'
  <2>1. /\ Alive /\ Alive' /\ UNCHANGED <<prompt, gui, viewSubscribed>>
        /\ \E e \in EventType : e.kind # "finished" /\ posted' = Append(posted, e)
    <3>1. CASE ThreadPost
      <4>1. run \in Runs /\ read \in Nat /\ source[run][read] \in {"data", "failure"}
        BY <3>1, ConstantsAssumption DEF TypeInv, TypeOK, Numbered, ThreadPost
      <4>2. Event(source[run][read], read) \in EventType
            /\ Event(source[run][read], read).kind # "finished"
        BY <4>1 DEF Event, EventType
      <4> QED
        BY <3>1, <4>2 DEF ThreadPost, Post, Alive
    <3>2. CASE ThreadReportsFailure
      <4>1. run \in Runs /\ Len(source[run]) \in Nat
        BY <3>2 DEF TypeInv, TypeOK, ThreadReportsFailure
      <4>2. Event("failure", Len(source[run])) \in EventType
            /\ Event("failure", Len(source[run])).kind # "finished"
        BY <4>1 DEF Event, EventType
      <4> QED
        BY <3>2, <4>2 DEF ThreadReportsFailure, Post, Alive
    <3> QED
      BY <1>7, <3>1, <3>2
  <2>2. EndPosted(posted)' <=> EndPosted(posted)
    BY <1>1, <2>1, EndPostedChanges DEF EndPosted
  <2> QED
    BY <2>1, <2>2
<1>8. CASE ThreadReportsEnd
  <2>1. /\ UNCHANGED <<prompt, gui, viewSubscribed>> /\ Alive /\ ~Alive'
        /\ posted' = IF stopRequested THEN posted ELSE Append(posted, Event("finished", 0))
    BY <1>8 DEF ThreadReportsEnd, Alive
  <2>2. CASE stopRequested
    <3>1. gui \notin {"idle", "startJoin", "arm", "spawn"} /\ posted' = posted
      BY <2>1, <2>2 DEF Subscribing
    <3> QED
      BY <2>1, <3>1
  <2>3. CASE ~stopRequested
    <3>1. run \in Runs
      BY <1>8 DEF TypeInv, TypeOK, ThreadReportsEnd
    <3>2. Event("finished", 0) \in EventType /\ Event("finished", 0).kind = "finished"
      BY <3>1 DEF Event, EventType
    <3>3. posted' = Append(posted, Event("finished", 0))
      BY <2>1, <2>3
    <3>4. EndPosted(posted)'
      BY <1>1, <3>2, <3>3, EndPostedChanges DEF EndPosted
    <3> QED
      BY <2>1, <3>4
  <2> QED
    BY <2>2, <2>3
\* The operator and the service.
<1>9. CASE Operator
  <2>1. ASSUME StartIgnored, prompt PROVE FALSE
    BY <2>1, <1>1 DEF StartIgnored, Click, Subscribing
  <2>2. CASE StartIgnored
    BY <2>1, <2>2 DEF StartIgnored
  <2>3. CASE Start
    BY <1>1, <2>3 DEF Start, Click, Alive
  <2>4. CASE Stop \/ CloseView
    BY <2>4 DEF Stop, CloseView, Click, Alive
  <2> QED
    BY <1>9, <2>2, <2>3, <2>4 DEF Operator
<1>10. CASE Service \/ Closed \/ UNCHANGED vars
  BY <1>10 DEF Service, ServiceSends, ServiceEnds, Closed, vars, Alive
<1> QED
  BY <1>2, <1>3, <1>4, <1>5, <1>6, <1>7, <1>8, <1>9, <1>10 DEF Next, GuiStep, ThreadStep

\* When Qt lets no click overtake an event and every event was handled, the
\* button offers to stop exactly when a subscribe thread is alive.
THEOREM ButtonAlwaysTellsTruth == Spec => []ButtonTellsTruth
<1>1. Init => TypeInv /\ OwnedInv /\ Subscribing /\ ButtonInv
  BY InitTypeInv DEF Init, OwnedInv, Alive, Subscribing, ButtonInv, EndPosted
<1>2. TypeInv /\ OwnedInv /\ Subscribing /\ ButtonInv /\ [Next]_vars
        => (TypeInv /\ OwnedInv /\ Subscribing /\ ButtonInv)'
  BY NextTypeInv, NextOwned, NextSubscribing, NextButton
<1>3. ButtonInv => ButtonTellsTruth
  BY DEF ButtonInv, ButtonTellsTruth, EndPosted
<1> QED
  BY <1>1, <1>2, <1>3, PTL DEF Spec

-----------------------------------------------------------------------------
(* The error on the status line.                                           *)

Failed == source[run] # << >> /\ source[run][Len(source[run])] = "ERROR"

\* The status line shows an error, or will by an event of the queue, and from
\* there on only ends of subscriptions follow.
Marked(queue, line) ==
  \E k \in 0..Len(queue) :
    /\ k = 0 => line = "error"
    /\ k > 0 => queue[k].kind = "failure"
    /\ \A j \in (k + 1)..Len(queue) : queue[j].kind = "finished"

\* The thread of a failed call that nobody cancelled reports the failure
\* before the end.
ErrorInv ==
  context = "live" /\ Failed =>
    /\ thread # "ended"
    /\ thread \in {"reportEnd", "exited"} => Marked(posted, status)

\* The mark survives the end of a subscription, posted or handled.
LEMMA MarkedChanges ==
  ASSUME NEW q \in Seq(EventType), NEW line
  PROVE  /\ \A e \in EventType : e.kind = "failure" => Marked(Append(q, e), line)
         /\ \A e \in EventType :
              Marked(q, line) /\ e.kind = "finished" => Marked(Append(q, e), line)
         /\ q = << >> /\ Marked(q, line) => line = "error"
         /\ \A new :
              /\ q # << >> /\ Marked(q, line)
              /\ Head(q).kind = "failure" => new = "error"
              /\ Head(q).kind = "finished" /\ line = "error" => new = "error"
              => Marked(Tail(q), new)
<1>1. ASSUME NEW e \in EventType,
             e.kind = "failure" \/ (Marked(q, line) /\ e.kind = "finished")
      PROVE  Marked(Append(q, e), line)
  <2> DEFINE a == Append(q, e)
  <2>1. /\ Len(a) = Len(q) + 1 /\ a[Len(q) + 1] = e /\ Len(q) \in Nat
        /\ \A k \in 1..Len(q) : a[k] = q[k]
    OBVIOUS
  <2> HIDE DEF a
  <2>2. CASE e.kind = "failure"
    <3> DEFINE k == Len(q) + 1
    <3>1. k \in 0..Len(a) /\ k # 0 /\ a[k].kind = "failure" /\ (k + 1)..Len(a) = {}
      BY <2>1, <2>2
    <3> HIDE DEF k
    <3> QED
      BY <3>1 DEF Marked, a
  <2>3. CASE Marked(q, line) /\ e.kind = "finished"
    <3>1. PICK k \in 0..Len(q) :
            /\ k = 0 => line = "error"
            /\ k > 0 => q[k].kind = "failure"
            /\ \A j \in (k + 1)..Len(q) : q[j].kind = "finished"
      BY <2>3 DEF Marked
    <3>2. /\ k \in 0..Len(a)
          /\ k > 0 => a[k].kind = "failure"
          /\ \A j \in (k + 1)..Len(a) : a[j].kind = "finished"
      BY <2>1, <2>3, <3>1
    <3>3. Marked(a, line)
      BY <3>1, <3>2 DEF Marked
    <3> QED
      BY <3>3 DEF a
  <2> QED
    BY <1>1, <2>2, <2>3
<1>2. ASSUME q = << >>, Marked(q, line)
      PROVE  line = "error"
  BY <1>2 DEF Marked
<1>3. ASSUME NEW new, q # << >>, Marked(q, line),
             Head(q).kind = "failure" => new = "error",
             Head(q).kind = "finished" /\ line = "error" => new = "error"
      PROVE  Marked(Tail(q), new)
  <2> DEFINE t == Tail(q)
  <2>1. /\ Len(q) = Len(t) + 1 /\ Head(q) = q[1] /\ Len(t) \in Nat
        /\ \A k \in 1..Len(t) : t[k] = q[k + 1]
    BY <1>3
  <2> HIDE DEF t
  <2>2. PICK k \in 0..Len(q) :
          /\ k = 0 => line = "error"
          /\ k > 0 => q[k].kind = "failure"
          /\ \A j \in (k + 1)..Len(q) : q[j].kind = "finished"
    BY <1>3 DEF Marked
  <2>3. \A j \in (k + 1)..Len(t) : t[j].kind = "finished"
    <3>1. SUFFICES ASSUME NEW j \in (k + 1)..Len(t) PROVE t[j].kind = "finished"
      OBVIOUS
    <3>2. j \in 1..Len(t) /\ j + 1 \in (k + 1)..Len(q)
      BY <2>1, <2>2, <3>1
    <3> QED
      BY <2>1, <2>2, <3>2
  <2>4. CASE k > 1
    <3> DEFINE m == k - 1
    <3>1. m \in 0..Len(t) /\ m > 0 /\ m # 0 /\ t[m].kind = "failure"
      BY <2>1, <2>2, <2>4
    <3>2. \A j \in (m + 1)..Len(t) : t[j].kind = "finished"
      <4>1. SUFFICES ASSUME NEW j \in (m + 1)..Len(t) PROVE t[j].kind = "finished"
        OBVIOUS
      <4>2. j \in 1..Len(t) /\ j + 1 \in (k + 1)..Len(q)
        BY <2>1, <2>2, <2>4, <4>1
      <4> QED
        BY <2>1, <2>2, <4>2
    <3> HIDE DEF m
    <3> QED
      BY <3>1, <3>2 DEF Marked, t
  <2>5. CASE k \in {0, 1}
    <3>1. new = "error"
      <4>1. CASE k = 1
        BY <1>3, <2>1, <2>2, <4>1
      <4>2. CASE k = 0
        <5>1. 1 \in (k + 1)..Len(q)
          BY <2>1, <4>2
        <5> QED
          BY <1>3, <2>1, <2>2, <4>2, <5>1
      <4> QED
        BY <2>5, <4>1, <4>2
    <3>2. \A j \in (0 + 1)..Len(t) : t[j].kind = "finished"
      <4>1. SUFFICES ASSUME NEW j \in (0 + 1)..Len(t) PROVE t[j].kind = "finished"
        OBVIOUS
      <4>2. j \in 1..Len(t) /\ j + 1 \in (k + 1)..Len(q)
        BY <2>1, <2>5, <4>1
      <4> QED
        BY <2>1, <2>2, <4>2
    <3>3. 0 \in 0..Len(t)
      BY <2>1
    <3> QED
      BY <3>1, <3>2, <3>3 DEF Marked, t
  <2> QED
    BY <2>2, <2>4, <2>5
<1> QED
  BY <1>1, <1>2, <1>3

LEMMA NextError ==
  ASSUME TypeInv, OwnedInv, Subscribing, ErrorInv, [Next]_vars
  PROVE  ErrorInv'
<1> USE DEF ErrorInv, view, client, stream, events
<1>1. posted \in Seq(EventType)
  BY DEF TypeInv, TypeOK
\* Where there is no thread, or none near its end, nothing is to be shown.
<1>2. CASE thread' \notin {"ended", "reportEnd", "exited"} \/ context' # "live"
  BY <1>2
<1>3. CASE UNCHANGED <<context, thread, run, source, posted, status>>
  BY <1>3 DEF Failed, Marked
<1>4. CASE HandleEvent
  <2> DEFINE q == posted
  <2>1. /\ UNCHANGED <<context, thread, run, source>> /\ q # << >> /\ posted' = Tail(q)
        /\ Head(q).kind = "failure" => status' = "error"
        /\ Head(q).kind = "finished" /\ status = "error" => status' = "error"
    BY <1>4 DEF HandleEvent
  <2>2. Marked(q, status) => Marked(Tail(q), status')
    <3>1. ASSUME NEW s, Marked(q, status), Head(q).kind = "failure" => s = "error",
                 Head(q).kind = "finished" /\ status = "error" => s = "error"
          PROVE  Marked(Tail(q), s)
      BY <1>1, <2>1, <3>1, MarkedChanges
    <3> HIDE DEF ErrorInv
    <3> QED
      BY <2>1, <3>1
  <2>3. Marked(posted, status)' <=> Marked(Tail(q), status')
    BY <2>1 DEF Marked
  <2> QED
    BY <2>1, <2>2, <2>3 DEF Failed
<1>5. CASE ThreadFinish
  BY <1>5 DEF ThreadFinish, Failed, Ended
<1>6. CASE ThreadUnsubscribes
  BY <1>6 DEF ThreadUnsubscribes, Failed
<1>7. CASE ThreadReportsFailure
  <2>1. run \in Runs /\ Len(source[run]) \in Nat
    BY <1>7 DEF TypeInv, TypeOK, ThreadReportsFailure
  <2> DEFINE e == Event("failure", Len(source[run]))
  <2>2. e \in EventType /\ e.kind = "failure"
    BY <2>1 DEF Event, EventType
  <2>3. posted' = Append(posted, e) /\ status' = status
    BY <1>7 DEF ThreadReportsFailure, Post
  <2> HIDE DEF e
  <2>4. Marked(Append(posted, e), status)
    BY <1>1, <2>2, MarkedChanges
  <2> QED
    BY <1>7, <2>3, <2>4 DEF ThreadReportsFailure, Marked
<1>8. CASE ThreadReportsEnd
  <2>1. run \in Runs
    BY <1>8 DEF TypeInv, TypeOK, ThreadReportsEnd
  <2> DEFINE e == Event("finished", 0)
  <2>2. e \in EventType /\ e.kind = "finished"
    BY <2>1 DEF Event, EventType
  <2>3. /\ UNCHANGED <<context, run, source, status>> /\ thread = "reportEnd" /\ thread' = "exited"
        /\ posted' = IF stopRequested THEN posted ELSE Append(posted, e)
    BY <1>8 DEF ThreadReportsEnd
  <2> HIDE DEF e
  <2>4. Marked(posted, status) => Marked(Append(posted, e), status)
    BY <1>1, <2>2, MarkedChanges
  <2>5. CASE stopRequested
    BY <2>3, <2>5 DEF Failed, Marked
  <2>6. CASE ~stopRequested
    <3>1. posted' = Append(posted, e)
      BY <2>3, <2>6
    <3>2. Marked(posted, status)' <=> Marked(Append(posted, e), status)
      BY <2>3, <3>1 DEF Marked
    <3> QED
      BY <2>3, <2>4, <3>2 DEF Failed
  <2> QED
    BY <2>5, <2>6
\* Every other step of this thread leaves it alive in its loop, and of the GUI
\* thread ends it, lacks it or leaves the line as it is.
<1>9. CASE ThreadLock \/ ThreadOpen \/ ThreadLoop \/ ThreadRead \/ ThreadReadFails \/ ThreadPost
  BY <1>2, <1>9 DEF ThreadLock, ThreadOpen, ThreadLoop, ThreadRead, ThreadReadFails, ThreadPost
<1>10. CASE StartJoined \/ StartArm \/ StartSpawn \/ StartSpawnFails \/ StopJoin \/ StopClear
  BY <1>2, <1>10 DEF StartJoined, StartArm, StartSpawn, StartSpawnFails, StopJoin, StopClear,
                     OwnedInv
<1>11. CASE StopCancel
  BY <1>2, <1>3, <1>11 DEF StopCancel
<1>12. CASE StopRequest \/ StopUnsubscribe \/ Start \/ Stop \/ CloseView \/ Closed \/ UNCHANGED vars
  BY <1>3, <1>12 DEF StopRequest, StopUnsubscribe, Start, Stop, CloseView, Closed, Click, vars
<1>13. CASE StartIgnored
  <2>1. /\ subscribed /\ gui = "idle" /\ thread' = thread
    BY <1>13 DEF StartIgnored, Click
  <2>2. thread \notin {"reportEnd", "exited"}
    BY <2>1 DEF Subscribing, Alive
  <2> QED
    BY <1>13, <2>2 DEF StartIgnored, Failed
<1>14. CASE Service
  BY <1>2, <1>14 DEF Service, ServiceSends, ServiceEnds, StreamOpen
<1> QED
  BY <1>4, <1>5, <1>6, <1>7, <1>8, <1>9, <1>10, <1>11, <1>12, <1>13, <1>14
  DEF Next, GuiStep, ThreadStep, Operator

\* When a failed call is over and its events are handled, the error is on the
\* status line.
THEOREM ErrorNeverMasked == Spec => []ErrorNotMasked
<1>1. Init => TypeInv /\ OwnedInv /\ Subscribing /\ ErrorInv
  BY InitTypeInv DEF Init, OwnedInv, Alive, Subscribing, ErrorInv
<1>2. TypeInv /\ OwnedInv /\ Subscribing /\ ErrorInv /\ [Next]_vars
        => (TypeInv /\ OwnedInv /\ Subscribing /\ ErrorInv)'
  BY NextTypeInv, NextOwned, NextSubscribing, NextError
<1>3. TypeInv /\ ErrorInv => ErrorNotMasked
  <2> SUFFICES ASSUME TypeInv, ErrorInv, posted = << >>, Marked(posted, status)
               PROVE  status = "error"
    BY DEF ErrorInv, ErrorNotMasked, Failed
  <2> QED
    BY MarkedChanges DEF TypeInv, TypeOK
<1> QED
  BY <1>1, <1>2, <1>3, PTL DEF Spec

-----------------------------------------------------------------------------
(* The refinement of the pipe.  What is shown of a subscription, what is   *)
(* posted of it and what its thread holds are consecutive results of its   *)
(* stream.  The parts of the invariant are stated about any streams src,   *)
(* logs and queue q, with top the number of the last subscription and cur  *)
(* the one whose thread may still read (0 if none).                        *)

Res(src, e) == e.kind # "finished" /\ src[e.run][e.n] \in Results

\* An event names a subscription that was started and an element of its stream.
Sound(src, top, e) ==
  /\ e.run <= top
  /\ e.kind # "finished" => e.n \in 1..Len(src[e.run])
  /\ Res(src, e) => e.kind = src[e.run][e.n]

\* The log of a subscription: results in their order, then failures and ends.
LogOK(src, top, cur, log, q) ==
  \A r \in Runs : \A k \in 1..Len(log[r]) :
    /\ log[r][k].run = r /\ Sound(src, top, log[r][k])
    /\ Res(src, log[r][k]) =>
         log[r][k].n = k /\ \A j \in 1..Len(log[r]) : j < k => Res(src, log[r][j])
    /\ ~Res(src, log[r][k]) =>
         r # cur /\ \A i \in 1..Len(q) : q[i].run = r => ~Res(src, q[i])

\* The queue: one subscription after the other, each continued from its log.
QueueOK(src, top, cur, log, q) ==
  \A j \in 1..Len(q) :
    /\ Sound(src, top, q[j])
    /\ ~Res(src, q[j]) => q[j].run # cur
    /\ \A i \in 1..Len(q) : i < j =>
         /\ q[i].run <= q[j].run
         /\ q[i].run = q[j].run /\ Res(src, q[j]) => Res(src, q[i]) /\ q[j].n = q[i].n + (j - i)
    /\ Res(src, q[j]) /\ (\A i \in 1..Len(q) : i < j => q[i].run # q[j].run) =>
         q[j].n = Len(log[q[j].run]) + 1

\* The thread, hand results into its stream, continues the queue or the log.
HandOK(cur, hand, log, q) ==
  cur # 0 =>
    /\ \A i \in 1..Len(q) : q[i].run = cur => q[i].n = hand - (Len(q) - i)
    /\ (\A i \in 1..Len(q) : q[i].run # cur) => Len(log[cur]) = hand

Carried(src, top, cur, hand, log, q) ==
  LogOK(src, top, cur, log, q) /\ QueueOK(src, top, cur, log, q) /\ HandOK(cur, hand, log, q)

\* Handling the first event of the queue.
LEMMA CarriedHandled ==
  ASSUME NEW src, NEW top \in Nat, NEW cur \in {0, top}, NEW hand \in Int,
         NEW log \in [Runs -> Seq(EventType)], NEW q \in Seq(EventType), q # << >>,
         Carried(src, top, cur, hand, log, q)
  PROVE  Carried(src, top, cur, hand, [log EXCEPT ![Head(q).run] = Append(@, Head(q))], Tail(q))
<1> DEFINE e == Head(q)  r0 == e.run  t == Tail(q)
           new == [log EXCEPT ![r0] = Append(@, e)]
<1>1. /\ Len(q) \in Nat /\ Len(q) >= 1 /\ Len(t) = Len(q) - 1 /\ e = q[1]
      /\ \A i \in 1..Len(t) : i + 1 \in 1..Len(q) /\ t[i] = q[i + 1]
      /\ \A i \in 1..Len(q) : q[i] \in EventType
  OBVIOUS
<1>2. \A i \in 1..Len(q) : q[i].run \in Runs /\ q[i].n \in Nat
  BY <1>1 DEF EventType
<1>3. r0 \in Runs /\ e \in EventType /\ 1 \in 1..Len(q)
  BY <1>1, <1>2
<1>4. /\ new \in [Runs -> Seq(EventType)]
      /\ \A r \in Runs : r # r0 => new[r] = log[r]
      /\ new[r0] = Append(log[r0], e)
  BY <1>3
<1>5. /\ Len(log[r0]) \in Nat /\ Len(new[r0]) = Len(log[r0]) + 1
      /\ \A k \in 1..Len(log[r0]) : new[r0][k] = log[r0][k]
      /\ new[r0][Len(log[r0]) + 1] = e
  BY <1>3, <1>4
<1>6. LogOK(src, top, cur, log, q) /\ QueueOK(src, top, cur, log, q) /\ HandOK(cur, hand, log, q)
  BY DEF Carried
<1>7. /\ Sound(src, top, e)
      /\ Res(src, e) => e.n = Len(log[r0]) + 1
      /\ ~Res(src, e) => r0 # cur
  BY <1>1, <1>3, <1>6 DEF QueueOK
<1>8. Runs \subseteq Nat \ {0}
  BY DEF Runs
<1> HIDE DEF e, r0, t, new
<1>9. LogOK(src, top, cur, new, t)
  <2> SUFFICES ASSUME NEW r \in Runs, NEW k \in 1..Len(new[r])
               PROVE  /\ new[r][k].run = r /\ Sound(src, top, new[r][k])
                      /\ Res(src, new[r][k]) =>
                           /\ new[r][k].n = k
                           /\ \A j \in 1..Len(new[r]) : j < k => Res(src, new[r][j])
                      /\ ~Res(src, new[r][k]) =>
                           r # cur /\ \A i \in 1..Len(t) : t[i].run = r => ~Res(src, t[i])
    BY DEF LogOK
  <2>1. CASE r # r0
    <3>1. new[r] = log[r]
      BY <1>4, <2>1
    <3>2. ~Res(src, log[r][k]) => \A i \in 1..Len(q) : q[i].run = r => ~Res(src, q[i])
      BY <1>6, <3>1 DEF LogOK
    <3>3. ~Res(src, log[r][k]) => \A i \in 1..Len(t) : t[i].run = r => ~Res(src, t[i])
      BY <1>1, <3>2
    <3> QED
      BY <1>6, <3>1, <3>3 DEF LogOK
  <2>2. CASE r = r0 /\ k <= Len(log[r0])
    <3>1. k \in 1..Len(log[r0]) /\ new[r][k] = log[r0][k]
      BY <1>5, <2>2
    <3>2. \A j \in 1..Len(new[r]) : j < k => j \in 1..Len(log[r0]) /\ new[r][j] = log[r0][j]
      BY <1>5, <2>2
    <3>3. ~Res(src, log[r0][k]) => \A i \in 1..Len(q) : q[i].run = r0 => ~Res(src, q[i])
      BY <1>3, <1>6, <3>1 DEF LogOK
    <3>4. ~Res(src, log[r0][k]) => \A i \in 1..Len(t) : t[i].run = r0 => ~Res(src, t[i])
      BY <1>1, <3>3
    <3>5. /\ log[r0][k].run = r0 /\ Sound(src, top, log[r0][k])
          /\ ~Res(src, log[r0][k]) => r0 # cur
          /\ Res(src, log[r0][k]) => log[r0][k].n = k
      BY <1>3, <1>6, <3>1 DEF LogOK
    <3>6. Res(src, log[r0][k]) => \A j \in 1..Len(log[r0]) : j < k => Res(src, log[r0][j])
      BY <1>3, <1>6, <3>1 DEF LogOK
    <3>7. Res(src, log[r0][k]) => \A j \in 1..Len(new[r]) : j < k => Res(src, new[r][j])
      BY <3>2, <3>6
    <3> QED
      BY <2>2, <3>1, <3>4, <3>5, <3>7
  <2>3. CASE r = r0 /\ k = Len(log[r0]) + 1
    <3>1. new[r][k] = e /\ e.run = r
      BY <1>5, <2>3 DEF r0
    <3>2. \A j \in 1..Len(new[r]) : j < k => j \in 1..Len(log[r0]) /\ new[r][j] = log[r0][j]
      BY <1>5, <2>3
    <3>3. Res(src, e) => \A j \in 1..Len(new[r]) : j < k => Res(src, new[r][j])
      <4> SUFFICES ASSUME NEW j \in 1..Len(log[r0]), ~Res(src, log[r0][j]) PROVE ~Res(src, e)
        BY <3>2
      <4> QED
        BY <1>1, <1>3, <1>6 DEF LogOK, r0
    <3>4. ~Res(src, e) => \A i \in 1..Len(t) : t[i].run = r => ~Res(src, t[i])
      <4> SUFFICES ASSUME NEW i \in 1..Len(t), t[i].run = r, Res(src, t[i]) PROVE Res(src, e)
        OBVIOUS
      <4>1. i + 1 \in 1..Len(q) /\ t[i] = q[i + 1] /\ 1 < i + 1
        BY <1>1
      <4> QED
        BY <1>1, <1>3, <1>6, <3>1, <4>1 DEF QueueOK
    <3> QED
      BY <1>7, <2>3, <3>1, <3>3, <3>4
  <2> QED
    BY <1>5, <2>1, <2>2, <2>3
<1>10. QueueOK(src, top, cur, new, t)
  <2> SUFFICES ASSUME NEW j \in 1..Len(t)
               PROVE  /\ Sound(src, top, t[j])
                      /\ ~Res(src, t[j]) => t[j].run # cur
                      /\ \A i \in 1..Len(t) : i < j =>
                           /\ t[i].run <= t[j].run
                           /\ t[i].run = t[j].run /\ Res(src, t[j]) =>
                                Res(src, t[i]) /\ t[j].n = t[i].n + (j - i)
                      /\ Res(src, t[j]) /\ (\A i \in 1..Len(t) : i < j => t[i].run # t[j].run) =>
                           t[j].n = Len(new[t[j].run]) + 1
    BY DEF QueueOK
  <2>1. j + 1 \in 1..Len(q) /\ t[j] = q[j + 1] /\ j \in Nat
    BY <1>1
  <2>2. Sound(src, top, t[j]) /\ (~Res(src, t[j]) => t[j].run # cur)
    BY <1>6, <2>1 DEF QueueOK
  <2>3. ASSUME NEW i \in 1..Len(t), i < j
        PROVE  /\ t[i].run <= t[j].run
               /\ t[i].run = t[j].run /\ Res(src, t[j]) =>
                    Res(src, t[i]) /\ t[j].n = t[i].n + (j - i)
    <3>1. i + 1 \in 1..Len(q) /\ t[i] = q[i + 1] /\ i + 1 < j + 1 /\ (j + 1) - (i + 1) = j - i
      BY <1>1, <2>3
    <3> QED
      BY <1>6, <2>1, <3>1 DEF QueueOK
  <2>4. ASSUME Res(src, t[j]), \A i \in 1..Len(t) : i < j => t[i].run # t[j].run
        PROVE  t[j].n = Len(new[t[j].run]) + 1
    <3>1. CASE t[j].run = r0
      <4>1. j = 1
        <5> SUFFICES ASSUME j > 1 PROVE FALSE
          BY <1>1
        <5>1. 1 \in 1..Len(t) /\ t[1] = q[2] /\ 2 \in 1..Len(q) /\ 2 < j + 1
          BY <1>1, <2>1
        <5>2. q[1].run <= q[2].run /\ q[2].run <= q[j + 1].run
          BY <1>3, <1>6, <2>1, <5>1 DEF QueueOK
        <5>3. q[2].run \in Nat /\ q[1].run = r0 /\ q[j + 1].run = r0 /\ r0 \in Nat
          BY <1>1, <1>2, <1>3, <1>8, <2>1, <3>1, <5>1 DEF r0
        <5>4. q[2].run = r0
          BY <5>2, <5>3
        <5> QED
          BY <2>4, <3>1, <5>1, <5>4
      <4>2. Res(src, q[1]) /\ q[2].n = q[1].n + 1
        BY <1>1, <1>3, <1>6, <2>1, <2>4, <3>1, <4>1 DEF QueueOK, r0
      <4> QED
        BY <1>1, <1>5, <1>7, <2>1, <3>1, <4>1, <4>2
    <3>2. CASE t[j].run # r0
      <4>1. \A i \in 1..Len(q) : i < j + 1 => q[i].run # q[j + 1].run
        <5> SUFFICES ASSUME NEW i \in 1..Len(q), i < j + 1 PROVE q[i].run # q[j + 1].run
          OBVIOUS
        <5>1. CASE i = 1
          BY <1>1, <2>1, <3>2, <5>1 DEF r0
        <5>2. CASE i # 1
          <6>1. i - 1 \in 1..Len(t) /\ t[i - 1] = q[i] /\ i - 1 < j
            BY <1>1, <2>1, <5>2
          <6> QED
            BY <2>1, <2>4, <6>1
        <5> QED
          BY <5>1, <5>2
      <4> QED
        <5>1. q[j + 1].n = Len(log[q[j + 1].run]) + 1
          BY <1>6, <2>1, <2>4, <4>1 DEF QueueOK
        <5>2. new[q[j + 1].run] = log[q[j + 1].run]
          BY <1>2, <1>4, <2>1, <3>2
        <5> QED
          BY <2>1, <5>1, <5>2
    <3> QED
      BY <3>1, <3>2
  <2> QED
    BY <2>2, <2>3, <2>4
<1>11. HandOK(cur, hand, new, t)
  <2> SUFFICES ASSUME cur # 0
               PROVE  /\ \A i \in 1..Len(t) : t[i].run = cur => t[i].n = hand - (Len(t) - i)
                      /\ (\A i \in 1..Len(t) : t[i].run # cur) => Len(new[cur]) = hand
    BY DEF HandOK
  <2>1. ASSUME NEW i \in 1..Len(t), t[i].run = cur
        PROVE  t[i].n = hand - (Len(t) - i)
    <3>1. i + 1 \in 1..Len(q) /\ t[i] = q[i + 1] /\ Len(q) - (i + 1) = Len(t) - i
      BY <1>1
    <3> QED
      BY <1>6, <2>1, <3>1 DEF HandOK
  <2>2. ASSUME \A i \in 1..Len(t) : t[i].run # cur
        PROVE  Len(new[cur]) = hand
    <3>1. CASE r0 = cur
      <4>1. Len(q) = 1
        <5> SUFFICES ASSUME Len(q) # 1 PROVE FALSE
          OBVIOUS
        <5>1. 1 \in 1..Len(t) /\ t[1] = q[2] /\ 2 \in 1..Len(q)
          BY <1>1
        <5>2. q[1].run <= q[2].run /\ q[2].run <= top
          BY <1>3, <1>6, <5>1 DEF QueueOK, Sound
        <5>3. q[2].run \in Nat /\ q[1].run = cur /\ cur = top
          BY <1>1, <1>2, <1>8, <3>1, <5>1 DEF r0
        <5>4. q[2].run = cur
          BY <5>2, <5>3
        <5> QED
          BY <2>2, <5>1, <5>4
      <4>2. Res(src, e) /\ e.n = Len(log[r0]) + 1
        BY <1>7, <3>1
      <4>3. e.n = hand - (Len(q) - 1)
        BY <1>1, <1>3, <1>6, <3>1 DEF HandOK, r0
      <4> QED
        BY <1>5, <3>1, <4>1, <4>2, <4>3
    <3>2. CASE r0 # cur
      <4>1. \A i \in 1..Len(q) : q[i].run # cur
        <5> SUFFICES ASSUME NEW i \in 1..Len(q) PROVE q[i].run # cur
          OBVIOUS
        <5>1. CASE i = 1
          BY <1>1, <3>2, <5>1 DEF r0
        <5>2. CASE i # 1
          <6>1. i - 1 \in 1..Len(t) /\ t[i - 1] = q[i]
            BY <1>1, <5>2
          <6> QED
            BY <2>2, <6>1
        <5> QED
          BY <5>1, <5>2
      <4>2. Len(log[cur]) = hand
        BY <1>6, <4>1 DEF HandOK
      <4>3. new[cur] = log[cur]
        BY <3>2 DEF new
      <4> QED
        BY <4>2, <4>3
    <3> QED
      BY <3>1, <3>2
  <2> QED
    BY <2>1, <2>2
<1> QED
  BY <1>9, <1>10, <1>11 DEF Carried, new, t, e, r0

\* Posting: the next result of the thread, or, once it left its loop, something
\* that is not a result.
LEMMA CarriedPosted ==
  ASSUME NEW src, NEW top \in Nat, NEW cur \in {0, top}, NEW hand \in Int, NEW next \in Int,
         NEW log \in [Runs -> Seq(EventType)], NEW q \in Seq(EventType), NEW e \in EventType,
         Sound(src, top, e), e.run = top,
         \/ cur = top /\ Res(src, e) /\ e.n = hand + 1 /\ next = hand + 1
         \/ cur = 0 /\ ~Res(src, e),
         Carried(src, top, cur, hand, log, q)
  PROVE  Carried(src, top, cur, next, log, Append(q, e))
<1> DEFINE a == Append(q, e)
<1>1. /\ Len(q) \in Nat /\ Len(a) = Len(q) + 1 /\ a[Len(q) + 1] = e
      /\ \A i \in 1..Len(q) : a[i] = q[i] /\ q[i] \in EventType
  OBVIOUS
<1>2. top \in Runs /\ top # 0 /\ \A i \in 1..Len(q) : q[i].run \in Nat /\ q[i].n \in Nat
  <2>1. e.run \in Runs /\ \A i \in 1..Len(q) : q[i].run \in Runs /\ q[i].n \in Nat
    BY <1>1 DEF EventType
  <2> QED
    BY <2>1 DEF Runs
<1>3. LogOK(src, top, cur, log, q) /\ QueueOK(src, top, cur, log, q) /\ HandOK(cur, hand, log, q)
  BY DEF Carried
<1>4. cur = top <=> Res(src, e)
  BY <1>2
<1> HIDE DEF a
<1>5. LogOK(src, top, cur, log, a)
  <2>1. ASSUME NEW r \in Runs, NEW k \in 1..Len(log[r]), ~Res(src, log[r][k])
        PROVE  \A i \in 1..Len(a) : a[i].run = r => ~Res(src, a[i])
    <3>1. r # cur /\ \A i \in 1..Len(q) : q[i].run = r => ~Res(src, q[i])
      BY <1>3, <2>1 DEF LogOK
    <3> SUFFICES ASSUME NEW i \in 1..Len(a), a[i].run = r PROVE ~Res(src, a[i])
      OBVIOUS
    <3>2. CASE i <= Len(q)
      BY <1>1, <3>1, <3>2
    <3>3. CASE i = Len(q) + 1
      BY <1>1, <1>4, <3>1, <3>3
    <3> QED
      BY <1>1, <3>2, <3>3
  <2> QED
    BY <1>3, <2>1 DEF LogOK
<1>6. QueueOK(src, top, cur, log, a)
  <2> SUFFICES ASSUME NEW j \in 1..Len(a)
               PROVE  /\ Sound(src, top, a[j])
                      /\ ~Res(src, a[j]) => a[j].run # cur
                      /\ \A i \in 1..Len(a) : i < j =>
                           /\ a[i].run <= a[j].run
                           /\ a[i].run = a[j].run /\ Res(src, a[j]) =>
                                Res(src, a[i]) /\ a[j].n = a[i].n + (j - i)
                      /\ Res(src, a[j]) /\ (\A i \in 1..Len(a) : i < j => a[i].run # a[j].run) =>
                           a[j].n = Len(log[a[j].run]) + 1
    BY DEF QueueOK
  <2>1. CASE j <= Len(q)
    <3>1. \A i \in 1..Len(a) : i < j => i \in 1..Len(q) /\ a[i] = q[i]
      BY <1>1, <2>1
    <3>2. \A i \in 1..Len(q) : i < j => i \in 1..Len(a) /\ a[i] = q[i]
      BY <1>1, <2>1
    <3>3. j \in 1..Len(q) /\ a[j] = q[j]
      BY <1>1, <2>1
    <3> HIDE DEF QueueOK
    <3>4. /\ Sound(src, top, q[j])
          /\ ~Res(src, q[j]) => q[j].run # cur
          /\ \A i \in 1..Len(q) : i < j =>
               /\ q[i].run <= q[j].run
               /\ q[i].run = q[j].run /\ Res(src, q[j]) =>
                    Res(src, q[i]) /\ q[j].n = q[i].n + (j - i)
          /\ Res(src, q[j]) /\ (\A i \in 1..Len(q) : i < j => q[i].run # q[j].run) =>
               q[j].n = Len(log[q[j].run]) + 1
      BY <1>3, <3>3 DEF QueueOK
    <3> QED
      BY <3>1, <3>2, <3>3, <3>4
  <2>2. CASE j = Len(q) + 1
    <3>1. a[j] = e
      BY <1>1, <2>2
    <3>2. ASSUME NEW i \in 1..Len(a), i < j
          PROVE  /\ a[i].run <= e.run
                 /\ a[i].run = e.run /\ Res(src, e) =>
                      Res(src, a[i]) /\ e.n = a[i].n + (j - i)
      <4>1. i \in 1..Len(q) /\ a[i] = q[i]
        BY <1>1, <2>2, <3>2
      <4>2. q[i].run <= top /\ (~Res(src, q[i]) => q[i].run # cur)
        BY <1>3, <4>1 DEF QueueOK, Sound
      <4>3. ASSUME q[i].run = top, Res(src, e)
            PROVE  Res(src, q[i]) /\ e.n = q[i].n + (j - i)
        <5>1. cur = top /\ e.n = hand + 1
          BY <1>4, <4>3
        <5>2. q[i].n = hand - (Len(q) - i)
          BY <1>2, <1>3, <4>1, <4>3, <5>1 DEF HandOK
        <5> QED
          BY <1>1, <1>2, <2>2, <4>1, <4>2, <4>3, <5>1, <5>2
      <4> QED
        BY <4>1, <4>2, <4>3
    <3>3. ASSUME Res(src, e), \A i \in 1..Len(a) : i < j => a[i].run # e.run
          PROVE  e.n = Len(log[e.run]) + 1
      <4>1. \A i \in 1..Len(q) : q[i].run # cur
        BY <1>1, <1>4, <2>2, <3>3
      <4> QED
        BY <1>2, <1>3, <1>4, <3>3, <4>1 DEF HandOK
    <3> QED
      BY <1>2, <1>4, <3>1, <3>2, <3>3
  <2> QED
    BY <1>1, <2>1, <2>2
<1>7. HandOK(cur, next, log, a)
  <2> SUFFICES ASSUME cur # 0
               PROVE  /\ \A i \in 1..Len(a) : a[i].run = cur => a[i].n = next - (Len(a) - i)
                      /\ (\A i \in 1..Len(a) : a[i].run # cur) => Len(log[cur]) = next
    BY DEF HandOK
  <2>1. cur = top /\ e.n = hand + 1 /\ next = hand + 1
    OBVIOUS
  <2>2. ASSUME NEW i \in 1..Len(a), a[i].run = cur
        PROVE  a[i].n = next - (Len(a) - i)
    <3>1. CASE i <= Len(q)
      <4>1. q[i].n = hand - (Len(q) - i)
        BY <1>1, <1>3, <2>2, <3>1 DEF HandOK
      <4> QED
        BY <1>1, <2>1, <3>1, <4>1
    <3>2. CASE i = Len(q) + 1
      BY <1>1, <2>1, <3>2
    <3> QED
      BY <1>1, <3>1, <3>2
  <2>3. \E i \in 1..Len(a) : a[i].run = cur
    BY <1>1, <2>1
  <2> QED
    BY <2>2, <2>3
<1> QED
  BY <1>5, <1>6, <1>7 DEF Carried, a

\* A stream that grows leaves what was made of it.
LEMMA CarriedGrows ==
  ASSUME NEW src \in [Runs -> Seq(Results \union Ends)], NEW top \in Runs, NEW cur, NEW hand,
         NEW log \in [Runs -> Seq(EventType)], NEW q \in Seq(EventType),
         NEW x \in Results \union Ends,
         Carried(src, top, cur, hand, log, q)
  PROVE  /\ Carried([src EXCEPT ![top] = Append(@, x)], top, cur, hand, log, q)
         /\ \A r \in Runs : \A k \in 1..Len(log[r]) :
              Res([src EXCEPT ![top] = Append(@, x)], log[r][k]) <=> Res(src, log[r][k])
<1> DEFINE new == [src EXCEPT ![top] = Append(@, x)]
<1>1. ASSUME NEW e \in EventType, Sound(src, top, e)
      PROVE  Sound(new, top, e) /\ (Res(new, e) <=> Res(src, e))
  <2>1. CASE e.kind = "finished"
    BY <1>1, <2>1 DEF Sound, Res
  <2>2. CASE e.kind # "finished"
    <3>1. e.run \in Runs /\ e.n \in 1..Len(src[e.run])
      BY <1>1, <2>2 DEF Sound, EventType
    <3>2. new[e.run][e.n] = src[e.run][e.n] /\ e.n \in 1..Len(new[e.run])
      <4>1. CASE e.run = top
        <5>1. new[e.run] = Append(src[e.run], x) /\ src[e.run] \in Seq(Results \union Ends)
          BY <3>1, <4>1
        <5> HIDE DEF new
        <5> QED
          BY <3>1, <5>1
      <4>2. CASE e.run # top
        <5>1. new[e.run] = src[e.run]
          BY <3>1, <4>2
        <5> QED
          BY <3>1, <5>1
      <4> QED
        BY <4>1, <4>2
    <3> HIDE DEF new
    <3> QED
      BY <1>1, <3>1, <3>2 DEF Sound, Res
  <2> QED
    BY <2>1, <2>2
<1> HIDE DEF new
<1>2. LogOK(src, top, cur, log, q) /\ QueueOK(src, top, cur, log, q) /\ HandOK(cur, hand, log, q)
  BY DEF Carried
<1>3. \A i \in 1..Len(q) :
        q[i] \in EventType /\ Sound(src, top, q[i]) /\ Sound(new, top, q[i])
        /\ (Res(new, q[i]) <=> Res(src, q[i]))
  <2> SUFFICES ASSUME NEW i \in 1..Len(q)
               PROVE  q[i] \in EventType /\ Sound(src, top, q[i]) /\ Sound(new, top, q[i])
                      /\ (Res(new, q[i]) <=> Res(src, q[i]))
    OBVIOUS
  <2>1. q[i] \in EventType
    OBVIOUS
  <2>2. Sound(src, top, q[i])
    BY <1>2 DEF QueueOK
  <2> QED
    BY <1>1, <2>1, <2>2
<1>4. \A r \in Runs : \A k \in 1..Len(log[r]) :
        Sound(new, top, log[r][k]) /\ (Res(new, log[r][k]) <=> Res(src, log[r][k]))
  <2> SUFFICES ASSUME NEW r \in Runs, NEW k \in 1..Len(log[r])
               PROVE  Sound(new, top, log[r][k]) /\ (Res(new, log[r][k]) <=> Res(src, log[r][k]))
    OBVIOUS
  <2>1. log[r][k] \in EventType
    OBVIOUS
  <2>2. Sound(src, top, log[r][k])
    BY <1>2 DEF LogOK
  <2> QED
    BY <1>1, <2>1, <2>2
<1>5. LogOK(new, top, cur, log, q)
  BY <1>2, <1>3, <1>4 DEF LogOK
<1>6. QueueOK(new, top, cur, log, q)
  BY <1>2, <1>3 DEF QueueOK
<1> QED
  BY <1>2, <1>4, <1>5, <1>6 DEF Carried, new

\* The next subscription begins with an empty log and nothing read.
LEMMA CarriedStarts ==
  ASSUME NEW src, NEW top \in Nat, NEW hand, NEW log \in [Runs -> Seq(EventType)],
         NEW q \in Seq(EventType), top + 1 \in Runs, log[top + 1] = << >>,
         Carried(src, top, 0, hand, log, q)
  PROVE  Carried(src, top + 1, top + 1, 0, log, q)
<1>1. LogOK(src, top, 0, log, q) /\ QueueOK(src, top, 0, log, q)
  BY DEF Carried
<1>2. \A i \in 1..Len(q) : q[i].run \in Nat /\ q[i].run <= top /\ q[i].run # top + 1
                           /\ Sound(src, top + 1, q[i])
  <2> SUFFICES ASSUME NEW i \in 1..Len(q)
               PROVE  q[i].run \in Nat /\ q[i].run <= top /\ q[i].run # top + 1
                      /\ Sound(src, top + 1, q[i])
    OBVIOUS
  <2> q[i] \in EventType
    OBVIOUS
  <2>1. q[i].run \in Nat
    BY DEF EventType, Runs
  <2>2. Sound(src, top, q[i])
    BY <1>1 DEF QueueOK
  <2> QED
    BY <2>1, <2>2 DEF Sound
<1>3. \A r \in Runs : \A k \in 1..Len(log[r]) : r # top + 1 /\ Sound(src, top + 1, log[r][k])
  <2> SUFFICES ASSUME NEW r \in Runs, NEW k \in 1..Len(log[r])
               PROVE  r # top + 1 /\ Sound(src, top + 1, log[r][k])
    OBVIOUS
  <2>1. Sound(src, top, log[r][k]) /\ log[r][k].run = r /\ r \in Nat
    BY <1>1 DEF LogOK, Runs
  <2> QED
    BY <2>1 DEF Sound
<1>4. LogOK(src, top + 1, top + 1, log, q)
  BY <1>1, <1>3 DEF LogOK
<1>5. QueueOK(src, top + 1, top + 1, log, q)
  BY <1>1, <1>2 DEF QueueOK
<1>6. HandOK(top + 1, 0, log, q)
  BY <1>2 DEF HandOK
<1> QED
  BY <1>4, <1>5, <1>6 DEF Carried

\* A thread that leaves its loop leaves the queue and the logs as they are.
LEMMA CarriedStops ==
  ASSUME NEW src, NEW top, NEW cur, NEW hand, NEW last, NEW log, NEW q \in Seq(EventType),
         Carried(src, top, cur, hand, log, q)
  PROVE  Carried(src, top, 0, last, log, q)
<1>1. \A i \in 1..Len(q) : q[i] \in EventType
  OBVIOUS
<1>2. 0 \notin Runs /\ \A i \in 1..Len(q) : q[i].run # 0
  BY <1>1 DEF EventType, Runs
<1> QED
  BY <1>2 DEF Carried, LogOK, QueueOK, HandOK

-----------------------------------------------------------------------------
\* While the thread is in its loop it may still post results of its stream.
Reading == thread \in {"spawned", "opening", "loop", "reading", "posting"}
Current == IF Reading THEN run ELSE 0
Hand == IF thread = "posting" THEN read - 1 ELSE read

\* A stream ends once, and a failure is reported of one that has ended.
StreamInv ==
  /\ \A r \in Runs : r > run => source[r] = << >> /\ shown[r] = << >>
  /\ \A r \in Runs : \A k \in 1..Len(source[r]) : k < Len(source[r]) => source[r][k] \in Results
  /\ thread \in {"failed", "reportFailure"} => Ended

OutInv == StreamInv /\ Carried(source, run, Current, Hand, shown, posted)

LEMMA InitOut == Init => OutInv
<1> SUFFICES ASSUME Init PROVE OutInv
  OBVIOUS
<1>1. \A r \in Runs : Len(source[r]) = 0 /\ Len(shown[r]) = 0
  BY DEF Init
<1>2. Len(posted) = 0
  BY DEF Init
<1>3. Current = 0 /\ thread = "none"
  BY DEF Init, Current, Reading
<1>4. Carried(source, run, Current, Hand, shown, posted)
  BY <1>1, <1>2, <1>3 DEF Carried, LogOK, QueueOK, HandOK
<1>5. StreamInv
  BY <1>1, <1>3 DEF StreamInv, Init
<1> QED
  BY <1>4, <1>5 DEF OutInv

\* What the type invariant says of the numbers.
LEMMA Ranges ==
  ASSUME TypeInv
  PROVE  /\ run \in Nat /\ Current \in {0, run} /\ read \in Nat /\ Hand \in Int
         /\ source \in [Runs -> Seq(Results \union Ends)]
         /\ shown \in [Runs -> Seq(EventType)] /\ posted \in Seq(EventType)
         /\ thread # "none" => run \in Runs
         /\ Results \intersect Ends = {} /\ "finished" \notin Results
BY ConstantsAssumption DEF ConstantsAssumption, TypeInv, TypeOK, Current, Hand

\* The step of the GUI thread that handles an event.
LEMMA HandleEventOut ==
  ASSUME TypeInv, OutInv, HandleEvent
  PROVE  OutInv'
<1> DEFINE e == Head(posted)
<1>1. /\ posted # << >> /\ posted' = Tail(posted)
      /\ shown' = [shown EXCEPT ![e.run] = Append(@, e)]
      /\ UNCHANGED <<thread, run, source, read>>
  BY DEF HandleEvent, client, stream
<1>2. Current' = Current /\ Hand' = Hand
  BY <1>1 DEF Current, Reading, Hand
<1>3. e \in EventType /\ e.run \in Runs /\ e.run <= run
  <2>1. 1 \in 1..Len(posted) /\ e = posted[1] /\ e \in EventType
    BY <1>1, Ranges
  <2> QED
    BY <2>1 DEF OutInv, Carried, QueueOK, Sound, EventType
<1>4. Carried(source, run, Current, Hand, shown', posted')
  BY <1>1, Ranges, CarriedHandled DEF OutInv
<1>5. Carried(source, run, Current, Hand, shown, posted)'
  BY <1>1, <1>2, <1>4
<1>6. StreamInv'
  <2>1. \A r \in Runs : r > run => shown'[r] = shown[r]
    BY <1>1, <1>3, Ranges DEF Runs
  <2> QED
    BY <1>1, <2>1 DEF OutInv, StreamInv, Ended
<1> QED
  BY <1>5, <1>6 DEF OutInv

\* The steps of the thread that post something.
LEMMA ThreadPostsOut ==
  ASSUME TypeInv, OutInv, ThreadPost \/ ThreadReportsFailure \/ ThreadReportsEnd
  PROVE  OutInv'
<1>1. /\ UNCHANGED <<run, source, read, shown>> /\ run \in Runs
      /\ thread' \notin {"failed", "reportFailure"}
  BY Ranges DEF ThreadPost, ThreadReportsFailure, ThreadReportsEnd, stream
<1>2. StreamInv'
  BY <1>1 DEF OutInv, StreamInv
<1>3. CASE ThreadPost
  <2> DEFINE e == Event(source[run][read], read)
  <2>1. thread = "posting" /\ thread' = "loop" /\ posted' = Append(posted, e)
    BY <1>3 DEF ThreadPost, Post
  <2>2. Current = run /\ Current' = run /\ Hand = read - 1 /\ Hand' = read
    BY <1>1, <2>1 DEF Current, Reading, Hand
  <2>3. read \in 1..Len(source[run]) /\ source[run][read] \in Results
    BY <1>1, <2>1, Ranges DEF TypeInv, TypeOK, Numbered
  <2>4. e \in EventType /\ e.run = run /\ e.n = Hand + 1 /\ read = Hand + 1
    <3>1. source[run][read] \in {"data", "failure"} /\ read \in Nat
      BY <2>3, Ranges, ConstantsAssumption DEF ConstantsAssumption
    <3>2. e = [run |-> run, n |-> read, kind |-> source[run][read]]
      BY DEF Event
    <3> HIDE DEF e
    <3>3. e \in EventType
      BY <1>1, <3>1, <3>2 DEF EventType
    <3>4. read = Hand + 1
      BY <2>2, <3>1
    <3> QED
      BY <3>2, <3>3, <3>4
  <2>5. Res(source, e) /\ Sound(source, run, e)
    BY <2>3, Ranges DEF Event, Res, Sound
  <2> HIDE DEF e
  <2>6. Carried(source, run, run, read, shown, Append(posted, e))
    <3>1. Carried(source, run, run, Hand, shown, posted)
      BY <2>2 DEF OutInv
    <3>2. /\ run \in Nat /\ Hand \in Int /\ read \in Int
          /\ shown \in [Runs -> Seq(EventType)] /\ posted \in Seq(EventType)
      BY Ranges
    <3> QED
      BY ONLY <2>4, <2>5, <3>1, <3>2, CarriedPosted
  <2> QED
    BY <1>1, <1>2, <2>1, <2>2, <2>6 DEF OutInv
<1>4. ASSUME NEW e \in EventType, posted' = Append(posted, e), e.run = run,
             Sound(source, run, e), ~Res(source, e), ~Reading, ~Reading'
      PROVE  OutInv'
  <2>1. Current = 0 /\ Current' = 0
    BY <1>4 DEF Current
  <2>2. Hand' \in Int
    BY <1>1, Ranges DEF Hand
  <2>3. Carried(source, run, Current, Hand', shown, Append(posted, e))
    BY <1>4, <2>1, <2>2, Ranges, CarriedPosted DEF OutInv
  <2>4. Carried(source, run, Current, Hand, shown, posted)'
    BY <1>1, <1>4, <2>1, <2>3
  <2> QED
    BY <1>2, <2>4 DEF OutInv
<1>5. CASE ThreadReportsFailure
  <2> DEFINE e == Event("failure", Len(source[run]))
  <2>1. thread = "reportFailure" /\ thread' = "reportEnd" /\ posted' = Append(posted, e)
    BY <1>5 DEF ThreadReportsFailure, Post
  <2>2. Len(source[run]) \in 1..Len(source[run]) /\ source[run][Len(source[run])] \in Ends
    BY <1>1, <2>1, Ranges DEF OutInv, StreamInv, Ended
  <2>3. e \in EventType /\ e.run = run
    BY <1>1, <2>2, Ranges DEF Event, EventType
  <2>4. ~Res(source, e)
    BY <2>2, Ranges DEF Event, Res
  <2>5. Sound(source, run, e)
    BY <2>2, <2>4, Ranges DEF Event, Sound
  <2> HIDE DEF e
  <2> QED
    BY <1>4, <2>1, <2>3, <2>4, <2>5 DEF Reading
<1>6. CASE ThreadReportsEnd
  <2> DEFINE e == Event("finished", 0)
  <2>1. /\ thread = "reportEnd" /\ thread' = "exited"
        /\ posted' = IF stopRequested THEN posted ELSE Append(posted, e)
    BY <1>6 DEF ThreadReportsEnd
  <2>2. e \in EventType /\ e.run = run /\ ~Res(source, e) /\ Sound(source, run, e)
    BY <1>1, Ranges DEF Event, EventType, Res, Sound
  <2> HIDE DEF e
  <2>3. CASE stopRequested
    <3>1. posted' = posted /\ Current = 0 /\ Current' = 0 /\ Hand' = Hand
      BY <1>1, <2>1, <2>3 DEF Current, Reading, Hand
    <3> QED
      BY <1>1, <1>2, <3>1 DEF OutInv
  <2>4. CASE ~stopRequested
    BY <1>4, <2>1, <2>2, <2>4 DEF Reading
  <2> QED
    BY <2>3, <2>4
<1> QED
  BY <1>3, <1>5, <1>6

\* The service.
LEMMA ServiceOut ==
  ASSUME TypeInv, OutInv, NEW x \in Results \union Ends, StreamOpen,
         source' = [source EXCEPT ![run] = Append(@, x)],
         UNCHANGED <<client, read, events>>
  PROVE  OutInv'
<1>1. UNCHANGED <<thread, run, read, posted, shown>>
  BY DEF client, events
<1>2. /\ run \in Runs /\ source[run] \in Seq(Results \union Ends) /\ Reading /\ ~Ended
      /\ thread \notin {"failed", "reportFailure"}
  BY Ranges DEF StreamOpen, Reading
<1>3. Current' = Current /\ Hand' = Hand
  BY <1>1 DEF Current, Reading, Hand
<1>4. Carried(source', run, Current, Hand, shown, posted)
  BY <1>2, Ranges, CarriedGrows DEF OutInv
<1>5. Carried(source, run, Current, Hand, shown, posted)'
  BY <1>1, <1>3, <1>4
<1>6. /\ \A r \in Runs : r # run => source'[r] = source[r]
      /\ source'[run] = Append(source[run], x)
  BY <1>2, Ranges
<1>7. \A r \in Runs : r > run => source'[r] = << >> /\ shown'[r] = << >>
  BY <1>1, <1>6, Ranges DEF OutInv, StreamInv, Runs
<1>8. ASSUME NEW r \in Runs, NEW k \in 1..Len(source'[r]), k < Len(source'[r])
      PROVE  source'[r][k] \in Results
  <2>1. CASE r # run
    BY <1>6, <1>8, <2>1 DEF OutInv, StreamInv
  <2>2. CASE r = run
    <3>1. /\ k \in 1..Len(source[run]) /\ source'[r][k] = source[run][k]
          /\ source[run] # << >> /\ Len(source[run]) \in Nat
      BY <1>2, <1>6, <1>8, <2>2
    <3>2. source[run][Len(source[run])] \in Results
      BY <1>2, <3>1 DEF Ended
    <3>3. CASE k = Len(source[run])
      BY <3>1, <3>2, <3>3
    <3>4. CASE k < Len(source[run])
      BY <1>2, <3>1, <3>4 DEF OutInv, StreamInv
    <3> QED
      BY <3>1, <3>3, <3>4
  <2> QED
    BY <2>1, <2>2
<1>9. StreamInv'
  BY <1>1, <1>2, <1>7, <1>8 DEF StreamInv
<1> QED
  BY <1>5, <1>9 DEF OutInv

LEMMA NextOut ==
  ASSUME TypeInv, OwnedInv, OutInv, [Next]_vars
  PROVE  OutInv'
<1>1. CASE HandleEvent
  BY <1>1, HandleEventOut
<1>2. CASE ThreadPost \/ ThreadReportsFailure \/ ThreadReportsEnd
  BY <1>2, ThreadPostsOut
<1>3. CASE Service
  BY <1>3, ServiceOut DEF Service, ServiceSends, ServiceEnds
<1>4. CASE StartSpawn
  <2>1. /\ thread = "none" /\ thread' = "spawned" /\ run' = run + 1 /\ read' = 0
        /\ UNCHANGED <<source, posted, shown>>
    BY <1>4 DEF StartSpawn, OwnedInv, events
  <2>2. run + 1 \in Runs
    BY <1>4, Ranges, ConstantsAssumption
    DEF StartSpawn, TypeInv, Numbered, Runs, ConstantsAssumption
  <2>3. Current = 0 /\ Current' = run + 1 /\ Hand' = 0
    BY <2>1 DEF Current, Reading, Hand
  <2>4. shown[run + 1] = << >>
    BY <2>2, Ranges DEF OutInv, StreamInv
  <2>5. Carried(source, run + 1, run + 1, 0, shown, posted)
    BY <2>2, <2>3, <2>4, Ranges, CarriedStarts DEF OutInv
  <2>6. StreamInv'
    BY <2>1, Ranges DEF OutInv, StreamInv, Runs
  <2> QED
    BY <2>1, <2>3, <2>5, <2>6 DEF OutInv
<1>5. CASE ThreadRead
  <2>1. /\ thread = "reading" /\ thread' = "posting" /\ read' = read + 1
        /\ UNCHANGED <<run, source, posted, shown>>
    BY <1>5 DEF ThreadRead, events
  <2>2. Current' = Current /\ Hand' = Hand
    BY <2>1, Ranges DEF Current, Reading, Hand
  <2> QED
    BY <2>1, <2>2 DEF OutInv, StreamInv
\* The other steps leave what is carried as it is, or end the loop.
<1>6. ASSUME UNCHANGED <<run, source, read, posted, shown>>,
             \/ ~Reading'
             \/ Reading /\ Reading' /\ thread # "posting" /\ thread' # "posting"
             \/ thread' = thread,
             thread' \in {"failed", "reportFailure"} => Ended
      PROVE  OutInv'
  <2>1. StreamInv'
    BY <1>6 DEF OutInv, StreamInv, Ended
  <2>2. CASE Current' = Current /\ Hand' = Hand
    BY <1>6, <2>1, <2>2 DEF OutInv
  <2>3. CASE ~Reading'
    <3>1. Current' = 0
      BY <2>3 DEF Current
    <3>2. Carried(source, run, 0, Hand', shown, posted)
      BY Ranges, CarriedStops DEF OutInv
    <3>3. Carried(source, run, Current, Hand, shown, posted)'
      BY <1>6, <3>1, <3>2
    <3> QED
      BY <2>1, <3>3 DEF OutInv
  <2> QED
    BY <1>6, <2>2, <2>3 DEF Current, Hand, Reading
<1>7. CASE ThreadLock \/ ThreadOpen \/ ThreadLoop \/ ThreadReadFails \/ ThreadFinish
           \/ ThreadUnsubscribes
  BY <1>6, <1>7
  DEF ThreadLock, ThreadOpen, ThreadLoop, ThreadReadFails, ThreadFinish, ThreadUnsubscribes,
      Reading, stream, events, OutInv, StreamInv, Ended
<1>8. CASE StartJoined \/ StopJoin
  BY <1>6, <1>8 DEF StartJoined, StopJoin, Reading, stream, events
<1>9. ASSUME UNCHANGED <<thread, run, source, read, posted, shown>>
      PROVE  OutInv'
  BY <1>6, <1>9 DEF OutInv, StreamInv
<1>10. CASE StartArm \/ StartSpawnFails \/ StopRequest \/ StopUnsubscribe \/ StopCancel \/ StopClear
            \/ Operator \/ Closed \/ UNCHANGED vars
  BY <1>9, <1>10
  DEF StartArm, StartSpawnFails, StopRequest, StopUnsubscribe, StopCancel, StopClear,
      Operator, StartIgnored, Start, Stop, CloseView, Closed, vars, client, stream, events
<1> QED
  BY <1>1, <1>2, <1>3, <1>4, <1>5, <1>7, <1>8, <1>10 DEF Next, GuiStep, ThreadStep

\* Of the log the results are shown, and they are a beginning of the log.
LEMMA ShownIsLog ==
  ASSUME TypeInv, OutInv, NEW r \in Runs,
         \A k \in 1..Len(shown[r]) : Res(source, shown[r][k])
  PROVE  Shown[r] = shown[r]
<1>1. shown[r] \in Seq(EventType)
  BY Ranges
<1>2. ShownOf(r) = 1..Len(shown[r])
  BY DEF ShownOf, IsResult, Res
<1>3. Shown[r] = [n \in 1..Len(shown[r]) |-> shown[r][n]]
  BY <1>2 DEF Shown
<1> QED
  BY <1>1, <1>3

\* The results of a stream are all its elements, or all but the last.
LEMMA ResultsAreFirst ==
  ASSUME TypeInv, OutInv, NEW r \in Runs
  PROVE  \E m \in Nat :
           /\ ResultsOf(r) = 1..m /\ Len(Sent[r]) = m
           /\ \A n \in 1..m : Sent[r][n] = [run |-> r, n |-> n, kind |-> source[r][n]]
           /\ m <= Len(source[r])
           /\ m = Len(source[r]) \/ source[r][Len(source[r])] \in Ends
<1> DEFINE len == Len(source[r])
           m == IF len # 0 /\ source[r][len] \in Ends THEN len - 1 ELSE len
<1>1. /\ len \in Nat /\ \A k \in 1..len : source[r][k] \in Results \union Ends
      /\ \A k \in 1..len : k < len => source[r][k] \in Results
      /\ Results \intersect Ends = {}
  BY Ranges DEF OutInv, StreamInv
<1> HIDE DEF len
<1>2. m \in Nat /\ m <= len /\ (m = len \/ source[r][len] \in Ends)
  BY <1>1
<1>3. {n \in 1..len : source[r][n] \in Results} = 1..m
  BY <1>1
<1> HIDE DEF m
<1>4. ResultsOf(r) = 1..m
  BY <1>3 DEF ResultsOf, len
<1>5. Sent[r] = [n \in 1..m |-> [run |-> r, n |-> n, kind |-> source[r][n]]]
  BY <1>4 DEF Sent
<1> QED
  BY <1>2, <1>4, <1>5 DEF len

LEMMA PipeInit == Init => Pipe!Init
<1> SUFFICES ASSUME Init PROVE Pipe!Init
  OBVIOUS
<1>1. \A r \in Runs : ResultsOf(r) = {} /\ ShownOf(r) = {}
  BY DEF Init, ResultsOf, ShownOf
<1>2. Sent = [r \in Runs |-> << >>] /\ Shown = [r \in Runs |-> << >>]
  BY <1>1 DEF Sent, Shown
<1> QED
  BY <1>2 DEF Pipe!Init

\* A handled result is given, anything else that is handled is not.
LEMMA PipeHandle ==
  ASSUME TypeInv, OutInv, HandleEvent, NEW e, e = Head(posted), NEW r, r = e.run
  PROVE  Pipe!Next \/ UNCHANGED <<Sent, Shown>>
<1>1. /\ posted # << >> /\ source' = source
      /\ shown' = [shown EXCEPT ![r] = Append(@, e)]
  BY DEF HandleEvent, stream
<1>2. 1 \in 1..Len(posted) /\ e = posted[1] /\ e \in EventType
  BY <1>1, Ranges
<1> DEFINE len == Len(shown[r])
<1>3. r \in Runs /\ shown[r] \in Seq(EventType) /\ len \in Nat
  <2>1. r \in Runs
    BY <1>2 DEF EventType
  <2> QED
    BY <2>1, Ranges
<1>4. /\ shown'[r] = Append(shown[r], e)
      /\ \A s \in Runs : s # r => shown'[s] = shown[s]
      /\ shown'[r] \in Seq(EventType)
  BY <1>1, <1>2, <1>3, Ranges
<1>5. /\ Len(shown'[r]) = len + 1 /\ shown'[r][len + 1] = e
      /\ \A k \in 1..len : shown'[r][k] = shown[r][k]
  BY <1>3, <1>4
<1>6. /\ Sound(source, run, e)
      /\ Res(source, e) => e.n = len + 1
      /\ Res(source, e) => \A k \in 1..len : Res(source, shown[r][k])
  <2>1. Sound(source, run, e) /\ (Res(source, e) => e.n = len + 1)
    BY <1>2 DEF OutInv, Carried, QueueOK
  <2>2. ASSUME NEW k \in 1..len, ~Res(source, shown[r][k]) PROVE ~Res(source, e)
    BY <1>2, <1>3, <2>2 DEF OutInv, Carried, LogOK
  <2> QED
    BY <2>1, <2>2
<1>7. Sent' = Sent
  BY <1>1 DEF Sent, ResultsOf
<1>8. \A s \in Runs : s # r => Shown'[s] = Shown[s]
  <2> SUFFICES ASSUME NEW s \in Runs, s # r PROVE Shown'[s] = Shown[s]
    OBVIOUS
  <2>1. shown'[s] = shown[s]
    BY <1>4
  <2>2. ShownOf(s)' = ShownOf(s)
    BY <1>1, <2>1 DEF ShownOf, IsResult
  <2> QED
    BY <2>1, <2>2 DEF Shown
<1>9. /\ ShownOf(r) = {k \in 1..len : Res(source, shown[r][k])}
      /\ ShownOf(r)' = {k \in 1..(len + 1) : Res(source, shown'[r][k])}
      /\ Shown[r] = [n \in ShownOf(r) |-> shown[r][n]]
      /\ Shown'[r] = [n \in ShownOf(r)' |-> shown'[r][n]]
      /\ Shown = [s \in Runs |-> Shown[s]] /\ Shown' = [s \in Runs |-> Shown'[s]]
  <2>1. ShownOf(r) = {k \in 1..len : Res(source, shown[r][k])}
    BY DEF ShownOf, IsResult, Res
  <2>2. ShownOf(r)' = {k \in 1..(len + 1) : Res(source, shown'[r][k])}
    <3>1. ShownOf(r)' = {k \in 1..Len(shown'[r]) : Res(source', shown'[r][k])}
      BY DEF ShownOf, IsResult, Res
    <3> QED
      BY <1>1, <1>5, <3>1
  <2>3. /\ Shown[r] = [n \in ShownOf(r) |-> shown[r][n]]
        /\ Shown'[r] = [n \in ShownOf(r)' |-> shown'[r][n]]
        /\ Shown = [s \in Runs |-> Shown[s]] /\ Shown' = [s \in Runs |-> Shown'[s]]
    BY <1>3 DEF Shown
  <2> QED
    BY <2>1, <2>2, <2>3
<1> HIDE DEF len
<1>10. CASE ~Res(source, e)
  <2>1. ShownOf(r)' = ShownOf(r)
    BY <1>3, <1>5, <1>9, <1>10
  <2>2. \A k \in ShownOf(r) : shown'[r][k] = shown[r][k]
    BY <1>5, <1>9
  <2>3. Shown'[r] = Shown[r]
    BY <1>9, <2>1, <2>2
  <2>4. Shown' = Shown
    BY <1>8, <1>9, <2>3
  <2> QED
    BY <1>7, <2>4
<1>11. CASE Res(source, e)
  <2>1. Shown[r] = shown[r]
    BY <1>3, <1>6, <1>11, ShownIsLog DEF len
  <2>2. Shown'[r] = Append(shown[r], e)
    <3>1. ShownOf(r)' = 1..(len + 1)
      <4>1. \A k \in 1..(len + 1) : Res(source, shown'[r][k])
        <5> SUFFICES ASSUME NEW k \in 1..(len + 1) PROVE Res(source, shown'[r][k])
          OBVIOUS
        <5>1. k \in 1..len \/ k = len + 1
          BY <1>3
        <5>2. (shown'[r][k] = shown[r][k] /\ k \in 1..len) \/ shown'[r][k] = e
          BY <1>5, <5>1
        <5> QED
          BY <1>6, <1>11, <5>2
      <4> QED
        BY <1>9, <4>1
    <3>2. Shown'[r] = [n \in 1..(len + 1) |-> shown'[r][n]]
      BY <1>9, <3>1
    <3>3. shown'[r] = [n \in 1..(len + 1) |-> shown'[r][n]]
      <4>1. shown'[r] \in Seq(EventType) /\ Len(shown'[r]) = len + 1
        BY <1>4, <1>5
      <4> QED
        BY ONLY <4>1
    <3> QED
      BY <1>4, <3>2, <3>3
  <2>3. Shown' = [Shown EXCEPT ![r] = Append(@, e)]
    BY <1>3, <1>8, <1>9, <2>1, <2>2
  <2>4. PICK m \in Nat :
          /\ ResultsOf(r) = 1..m /\ Len(Sent[r]) = m
          /\ \A n \in 1..m : Sent[r][n] = [run |-> r, n |-> n, kind |-> source[r][n]]
    BY <1>3, ResultsAreFirst
  <2>5. len + 1 \in 1..m
    <3>1. e.n \in ResultsOf(r)
      BY <1>3, <1>6, <1>11 DEF Res, Sound, ResultsOf
    <3> QED
      BY <1>6, <1>11, <2>4, <3>1
  <2>6. Sent[r][len + 1] = e
    <3>1. e.n = len + 1 /\ e.kind = source[r][e.n]
      BY <1>6, <1>11 DEF Sound
    <3>2. e = [run |-> e.run, n |-> e.n, kind |-> e.kind]
      BY <1>2 DEF EventType
    <3>3. Sent[r][len + 1] = [run |-> r, n |-> len + 1, kind |-> source[r][len + 1]]
      BY <2>4, <2>5
    <3> QED
      BY <3>1, <3>2, <3>3
  <2>7. Len(Shown[r]) < Len(Sent[r]) /\ Len(Shown[r]) = len
    BY <1>3, <2>1, <2>4, <2>5 DEF len
  <2>8. Pipe!Give(r)
    BY <1>7, <2>3, <2>6, <2>7 DEF Pipe!Give
  <2> QED
    BY <1>3, <2>8 DEF Pipe!Next
<1> QED
  BY <1>10, <1>11

\* What the service sends is produced, its end is not.
LEMMA PipeService ==
  ASSUME TypeInv, OutInv, NEW x \in Results \union Ends, StreamOpen, NEW r, r = run,
         x \in Results => Len(source[r]) < MaxResults,
         source' = [source EXCEPT ![r] = Append(@, x)], shown' = shown
  PROVE  Pipe!Next \/ UNCHANGED <<Sent, Shown>>
<1> DEFINE len == Len(source[r])
<1>1. r \in Runs /\ source[r] \in Seq(Results \union Ends) /\ len \in Nat /\ ~Ended
  BY Ranges DEF StreamOpen
<1>2. /\ \A s \in Runs : s # r => source'[s] = source[s]
      /\ source'[r] = Append(source[r], x)
  BY <1>1, Ranges
<1>3. /\ Len(source'[r]) = len + 1 /\ source'[r][len + 1] = x
      /\ \A k \in 1..len : source'[r][k] = source[r][k]
  BY <1>1, <1>2
<1>4. \A k \in 1..len : source[r][k] \in Results
  <2> SUFFICES ASSUME NEW k \in 1..len PROVE source[r][k] \in Results
    OBVIOUS
  <2>1. CASE k < len
    BY <1>1, <2>1 DEF OutInv, StreamInv
  <2>2. CASE k = len
    BY <1>1, <2>2 DEF Ended
  <2> QED
    BY <1>1, <2>1, <2>2
<1>5. Shown' = Shown
  <2>1. \A s \in Runs : \A k \in 1..Len(shown[s]) :
          Res(source', shown[s][k]) <=> Res(source, shown[s][k])
    BY <1>1, Ranges, CarriedGrows DEF OutInv
  <2>2. \A s \in Runs : ShownOf(s)' = ShownOf(s)
    BY <2>1 DEF ShownOf, IsResult, Res
  <2> QED
    BY <2>2 DEF Shown
<1>6. /\ ResultsOf(r) = 1..len
      /\ ResultsOf(r)' = {n \in 1..(len + 1) : source'[r][n] \in Results}
      /\ Sent[r] = [n \in ResultsOf(r) |-> [run |-> r, n |-> n, kind |-> source[r][n]]]
      /\ Sent'[r] = [n \in ResultsOf(r)' |-> [run |-> r, n |-> n, kind |-> source'[r][n]]]
      /\ Sent = [s \in Runs |-> Sent[s]] /\ Sent' = [s \in Runs |-> Sent'[s]]
  BY <1>1, <1>3, <1>4 DEF Sent, ResultsOf
<1>7. \A s \in Runs : s # r => Sent'[s] = Sent[s]
  BY <1>2 DEF Sent, ResultsOf
<1> HIDE DEF len
<1>8. CASE x \notin Results
  <2>1. ResultsOf(r)' = 1..len
    BY <1>1, <1>3, <1>4, <1>6, <1>8
  <2>2. Sent'[r] = Sent[r]
    BY <1>3, <1>6, <2>1
  <2>3. Sent' = Sent
    BY <1>6, <1>7, <2>2
  <2> QED
    BY <1>5, <2>3
<1>9. CASE x \in Results
  <2> DEFINE item == [run |-> r, n |-> len + 1, kind |-> x]
             number(n) == [run |-> r, n |-> n, kind |-> source'[r][n]]
  <2>1. ResultsOf(r)' = 1..(len + 1)
    BY <1>1, <1>3, <1>4, <1>6, <1>9
  <2>2. Sent'[r] = [n \in 1..(len + 1) |-> number(n)] /\ Sent[r] = [n \in 1..len |-> number(n)]
    <3>1. Sent'[r] = [n \in 1..(len + 1) |-> number(n)]
      BY <1>6, <2>1
    <3>2. \A n \in 1..len : number(n) = [run |-> r, n |-> n, kind |-> source[r][n]]
      BY <1>3
    <3> HIDE DEF number
    <3>3. Sent[r] = [n \in 1..len |-> number(n)]
      BY <1>6, <3>2
    <3> QED
      BY <3>1, <3>3
  <2>3. number(len + 1) = item
    BY <1>3
  <2> HIDE DEF number
  <2>4. Sent'[r] = Append(Sent[r], number(len + 1))
    BY <1>1, <2>2
  <2>5. Sent' = [Sent EXCEPT ![r] = Append(@, item)]
    BY <1>1, <1>6, <1>7, <2>3, <2>4
  <2>6. item \in [run : Runs, n : 1..MaxResults, kind : Results]
    BY <1>1, <1>9, ConstantsAssumption DEF ConstantsAssumption, len
  <2>7. Pipe!Produce(r)
    BY <1>5, <2>5, <2>6 DEF Pipe!Produce
  <2> QED
    BY <1>1, <2>7 DEF Pipe!Next
<1> QED
  BY <1>8, <1>9

LEMMA PipeStep ==
  ASSUME TypeInv, OutInv, [Next]_vars
  PROVE  Pipe!Next \/ UNCHANGED <<Sent, Shown>>
<1>1. CASE HandleEvent
  BY <1>1, PipeHandle
<1>2. ASSUME NEW x \in Results, ServiceSends(x)
      PROVE  Pipe!Next \/ UNCHANGED <<Sent, Shown>>
  BY <1>2, PipeService DEF ServiceSends, events
<1>3. ASSUME NEW x \in Ends, ServiceEnds(x)
      PROVE  Pipe!Next \/ UNCHANGED <<Sent, Shown>>
  BY <1>3, PipeService, Ranges DEF ServiceEnds, events
<1>4. ASSUME source' = source, shown' = shown
      PROVE  UNCHANGED <<Sent, Shown>>
  BY <1>4 DEF Sent, Shown, ResultsOf, ShownOf, IsResult
<1>5. CASE ThreadStep
  BY <1>4, <1>5
  DEF ThreadStep, ThreadLock, ThreadOpen, ThreadLoop, ThreadRead, ThreadReadFails, ThreadPost,
      ThreadFinish, ThreadUnsubscribes, ThreadReportsFailure, ThreadReportsEnd, stream, events
<1>6. CASE GuiStep /\ ~HandleEvent
  BY <1>4, <1>6
  DEF GuiStep, StartJoined, StartArm, StartSpawn, StartSpawnFails, StopRequest,
      StopUnsubscribe, StopCancel, StopJoin, StopClear, stream, events
<1>7. CASE Operator \/ Closed \/ UNCHANGED vars
  BY <1>4, <1>7 DEF Operator, StartIgnored, Start, Stop, CloseView, Closed, vars, stream, events
<1> QED
  BY <1>1, <1>2, <1>3, <1>5, <1>6, <1>7 DEF Next, Service

\* The RS-485 tab implements the pipe, for any number of subscriptions and
\* results and any order of the events: the log shows the results of each
\* subscription in order, each once, none skipped.
THEOREM TabImplementsPipe == Spec => PipeSpec
<1> DEFINE Inv == TypeInv /\ OwnedInv /\ OutInv
<1>1. Init => Inv /\ Pipe!Init
  BY InitTypeInv, InitOut, PipeInit DEF Init, OwnedInv, Alive
<1>2. Inv /\ [Next]_vars => Inv'
  BY NextTypeInv, NextOwned, NextOut
<1>3. Inv /\ [Next]_vars => [Pipe!Next]_(Pipe!pipe)
  BY PipeStep DEF Pipe!pipe
<1> QED
  BY <1>1, <1>2, <1>3, PTL DEF Spec, PipeSpec, Pipe!Spec

-----------------------------------------------------------------------------
(* How long the GUI thread can wait for the subscribe thread: not for the  *)
(* service, and not for more than a few steps.  That both threads get      *)
(* their turn is what GuiNeverFreezes adds, and TLC checks.                *)

\* The steps of the thread, at most, until it has exited, once subscribed_ is
\* false.
StepsLeft ==
  [none |-> 0, exited |-> 0, reportEnd |-> 1, reportFailure |-> 2, ended |-> 2, failed |-> 3,
   finishing |-> 4, loop |-> 5, opening |-> 6, posting |-> 6, reading |-> 7, spawned |-> 7][thread]

\* The GUI thread waits for the mutex or for the end of the thread.
Waiting == gui \in {"startJoin", "cancel", "join"}

\* A thread that is joined never waits for the service: its call is cancelled,
\* or it has only its report left.
NotForService ==
  /\ gui = "join" /\ Alive => context = "cancelled"
  /\ gui = "startJoin" => thread \in {"reportFailure", "reportEnd", "exited"}

WaitCountsDown == [][Waiting /\ Waiting' /\ thread' # thread => StepsLeft' < StepsLeft]_vars

\* While the GUI thread waits the client is not subscribed; otherwise it is, from
\* the start until its thread is at its report or a stop has begun.
WaitInv ==
  /\ Waiting => ~subscribed
  /\ gui = "spawn" => subscribed
  /\ Alive /\ thread \notin {"reportFailure", "reportEnd"} /\ gui \notin {"cancel", "join"} =>
       subscribed \/ gui = "unsubscribe"
  /\ NotForService

LEMMA NextWait ==
  ASSUME OwnedInv, WaitInv, [Next]_vars
  PROVE  WaitInv'
<1> USE DEF WaitInv, Waiting, NotForService, OwnedInv, Alive, view, client, stream, events
<1>1. CASE GuiStep
  <2>1. CASE StartJoined
    BY <2>1 DEF StartJoined
  <2>2. CASE StartArm
    BY <2>2 DEF StartArm
  <2>3. CASE StartSpawn
    BY <2>3 DEF StartSpawn
  <2>4. CASE StartSpawnFails \/ HandleEvent
    BY <2>4 DEF StartSpawnFails, HandleEvent
  <2>5. CASE StopRequest \/ StopUnsubscribe \/ StopCancel
    BY <2>5 DEF StopRequest, StopUnsubscribe, StopCancel
  <2>6. CASE StopJoin \/ StopClear
    BY <2>6 DEF StopJoin, StopClear
  <2> QED
    BY <1>1, <2>1, <2>2, <2>3, <2>4, <2>5, <2>6 DEF GuiStep
<1>2. CASE ThreadStep
  BY <1>2 DEF ThreadStep, ThreadLock, ThreadOpen, ThreadLoop, ThreadRead,
              ThreadReadFails, ThreadPost, ThreadFinish, ThreadUnsubscribes,
              ThreadReportsFailure, ThreadReportsEnd
<1>3. CASE Operator
  BY <1>3 DEF Operator, StartIgnored, Start, Stop, CloseView, Click
<1>4. CASE Service \/ Closed \/ UNCHANGED vars
  BY <1>4 DEF Service, ServiceSends, ServiceEnds, Closed, vars
<1> QED
  BY <1>1, <1>2, <1>3, <1>4 DEF Next

LEMMA StepCountsDown ==
  ASSUME WaitInv, Next, Waiting, Waiting', thread' # thread
  PROVE  StepsLeft' < StepsLeft
<1>1. ~subscribed
  BY DEF WaitInv
<1>2. ThreadStep
  BY DEF Next, Waiting, GuiStep, StartJoined, StartArm, StartSpawn, StartSpawnFails,
         StopRequest, StopUnsubscribe, StopCancel, StopJoin, StopClear, HandleEvent,
         Operator, StartIgnored, Start, Stop, CloseView, Click, Service, ServiceSends,
         ServiceEnds, Closed, vars, view, client, stream, events
<1>3. CASE ThreadLock \/ ThreadOpen \/ ThreadLoop \/ ThreadRead \/ ThreadReadFails
  BY <1>1, <1>3 DEF ThreadLock, ThreadOpen, ThreadLoop, ThreadRead, ThreadReadFails, StepsLeft
<1>4. CASE ThreadPost \/ ThreadFinish \/ ThreadUnsubscribes
  BY <1>4 DEF ThreadPost, ThreadFinish, ThreadUnsubscribes, StepsLeft
<1>5. CASE ThreadReportsFailure \/ ThreadReportsEnd
  BY <1>5 DEF ThreadReportsFailure, ThreadReportsEnd, StepsLeft
<1> QED
  BY <1>2, <1>3, <1>4, <1>5 DEF ThreadStep

\* Stopping, starting again and closing the tab wait for at most seven steps of
\* the subscribe thread, and in none of them for the service: stopSubscribe()
\* clears subscribed_ and cancels the call before it joins, and a start joins
\* only a thread that has its report left.
THEOREM WaitIsBounded == Spec => []NotForService /\ WaitCountsDown
<1>1. Init => OwnedInv /\ WaitInv
  BY DEF Init, OwnedInv, WaitInv, Waiting, NotForService, Alive
<1>2. OwnedInv /\ WaitInv /\ [Next]_vars => (OwnedInv /\ WaitInv)'
  BY NextOwned, NextWait
<1>3. WaitInv => NotForService
  BY DEF WaitInv
<1>4. WaitInv /\ [Next]_vars =>
        [Waiting /\ Waiting' /\ thread' # thread => StepsLeft' < StepsLeft]_vars
  BY StepCountsDown
<1> QED
  BY <1>1, <1>2, <1>3, <1>4, PTL DEF Spec, WaitCountsDown
=============================================================================
