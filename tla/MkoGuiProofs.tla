----------------------------- MODULE MkoGuiProofs -----------------------------
(***************************************************************************)
(* Theorems about the OU subscription of the MKO tab, for any number of    *)
(* subscriptions, clicks and commands, and any interleaving of the GUI     *)
(* thread, the subscribe thread and the service.                           *)
(***************************************************************************)
EXTENDS MkoGuiProps, Integers, TLAPS

\* Only a start creates a thread, and it leaves room for one more subscription.
Numbered ==
  /\ gui = "spawn" => purpose = "start"
  /\ (gui # "idle" /\ purpose = "start") => run < MaxRuns

TypeInv == TypeOK /\ Numbered

LEMMA InitTypeInv == Init => TypeInv
<1> SUFFICES ASSUME Init PROVE TypeInv
  OBVIOUS
<1>1. 0 \notin Runs /\ 0 \in 0..MaxRuns /\ 0 \in 0..MaxClicks
  BY ConstantsAssumption DEF ConstantsAssumption, Runs
<1>2. posted \in Seq(EventType) /\ shown \in [Runs -> Seq(EventType)]
  BY DEF Init
<1>3. produced \in [Runs -> Nat] /\ ended \in [Runs -> {"open", "OK", "ERROR"}]
  BY DEF Init
<1> QED
  BY <1>1, <1>2, <1>3 DEF Init, TypeInv, TypeOK, Numbered, GuiPlaces, ThreadPlaces

\* The clicks and the destructor.
LEMMA OperatorType ==
  ASSUME TypeInv, Operator
  PROVE  TypeInv'
<1> USE ConstantsAssumption
        DEF ConstantsAssumption, TypeInv, TypeOK, Numbered, GuiPlaces, ThreadPlaces,
            client, stream, events
<1>1. CASE ClickStop
  BY <1>1 DEF ClickStop, Click, Unsubscribe
<1>2. CASE ClickStart
  BY <1>2 DEF ClickStart, Click, Unsubscribe
<1>3. CASE Close
  BY <1>3 DEF Close, Unsubscribe
<1> QED
  BY <1>1, <1>2, <1>3 DEF Operator

\* The steps of the GUI thread.
LEMMA GuiType ==
  ASSUME TypeInv, GuiStep
  PROVE  TypeInv'
<1> USE ConstantsAssumption
        DEF ConstantsAssumption, TypeInv, TypeOK, Numbered, GuiPlaces, ThreadPlaces,
            view, client, stream, events, Runs
<1>1. CASE NothingToStop
  BY <1>1 DEF NothingToStop
<1>2. CASE Deactivate
  <2>1. active' \in BOOLEAN
    BY <1>2 DEF Deactivate
  <2>2. /\ gui = "unsubscribe" /\ gui' = "cancel"
        /\ UNCHANGED <<prompt, purpose, viewSubscribed, clicks, context, thread,
                       stopped, run, stream, events>>
    BY <1>2 DEF Deactivate
  <2> QED
    BY <2>1, <2>2
<1>3. CASE Cancel
  BY <1>3 DEF Cancel
<1>4. CASE Join
  BY <1>4 DEF Join
<1>5. CASE ShowStopped
  BY <1>5 DEF ShowStopped
<1>6. CASE Closed
  BY <1>6 DEF Closed
<1>7. CASE Arm
  BY <1>7 DEF Arm
<1>8. CASE Spawn
  <2>1. run < MaxRuns /\ run' = run + 1
    BY <1>8 DEF Spawn
  <2>2. run' \in Runs /\ run' \in 0..MaxRuns
    BY <2>1
  <2>3. /\ gui' = "idle" /\ thread' = "opening" /\ read' = 0 /\ viewSubscribed' = TRUE
        /\ UNCHANGED <<prompt, purpose, clicks, active, context, stopped, produced,
                       ended, events>>
    BY <1>8 DEF Spawn
  <2>4. produced[run'] \in Nat
    BY <2>2
  <2> QED
    BY <2>2, <2>3, <2>4
<1>9. CASE SpawnFails
  BY <1>9 DEF SpawnFails
<1>10. CASE HandleEvent
  <2>1. Head(posted) \in EventType /\ Tail(posted) \in Seq(EventType)
    BY <1>10 DEF HandleEvent
  <2>2. Head(posted).run \in Runs
    BY <2>1 DEF EventType
  <2>3. shown' = [shown EXCEPT ![Head(posted).run] = Append(@, Head(posted))]
    BY <1>10 DEF HandleEvent
  <2>4. shown' \in [Runs -> Seq(EventType)]
    BY <2>1, <2>2, <2>3
  <2>5. viewSubscribed' \in BOOLEAN
    BY <1>10 DEF HandleEvent
  <2>6. /\ posted' = Tail(posted)
        /\ UNCHANGED <<prompt, gui, purpose, clicks, client, stream>>
    BY <1>10 DEF HandleEvent
  <2> HIDE DEF GuiPlaces, ThreadPlaces
  <2> QED
    BY <2>1, <2>4, <2>5, <2>6
<1> QED
  BY <1>1, <1>2, <1>3, <1>4, <1>5, <1>6, <1>7, <1>8, <1>9, <1>10 DEF GuiStep

\* The steps of the subscribe thread.
LEMMA ThreadType ==
  ASSUME TypeInv, ThreadStep
  PROVE  TypeInv'
<1> USE ConstantsAssumption
        DEF ConstantsAssumption, TypeInv, TypeOK, Numbered, GuiPlaces, ThreadPlaces,
            view, client, stream, events
<1>1. CASE ThreadOpens
  BY <1>1 DEF ThreadOpens
<1>2. CASE ThreadLoops
  BY <1>2 DEF ThreadLoops
<1>3. CASE ThreadReads
  BY <1>3 DEF ThreadReads
<1>4. CASE ThreadReadFails
  BY <1>4 DEF ThreadReadFails
<1>5. CASE ThreadPosts
  <2>1. Event("command", read) \in EventType
    BY <1>5 DEF ThreadPosts, Event, EventType
  <2>2. posted' \in Seq(EventType)
    BY <1>5, <2>1 DEF ThreadPosts, Post
  <2> QED
    BY <1>5, <2>2 DEF ThreadPosts
<1>6. CASE ThreadChecks
  <2>1. stopped' \in BOOLEAN
    BY <1>6 DEF ThreadChecks
  <2> QED
    BY <1>6, <2>1 DEF ThreadChecks
<1>7. CASE ThreadFinishes
  BY <1>7 DEF ThreadFinishes
<1>8. CASE ThreadEnds
  <2>1. active' \in BOOLEAN
    BY <1>8 DEF ThreadEnds
  <2>2. /\ thread = "done" /\ thread' = "exited"
        /\ UNCHANGED <<prompt, view, context, stopped, run, stream, events>>
    BY <1>8 DEF ThreadEnds
  <2> QED
    BY <2>1, <2>2
<1>9. CASE ThreadFails
  <2>1. Event("error", 0) \in EventType
    BY <1>9 DEF ThreadFails, Event, EventType
  <2>2. posted' = posted \/ posted' = Append(posted, Event("error", 0))
    BY <1>9 DEF ThreadFails, Post
  <2>3. posted' \in Seq(EventType)
    <3>1. posted \in Seq(EventType)
      OBVIOUS
    <3> QED
      BY ONLY <2>1, <2>2, <3>1
  <2>4. active' \in BOOLEAN
    BY <1>9 DEF ThreadFails
  <2>5. /\ thread = "failed" /\ thread' = "exited"
        /\ UNCHANGED <<prompt, view, context, stopped, run, stream, shown>>
    BY <1>9 DEF ThreadFails
  <2> QED
    BY <2>3, <2>4, <2>5
<1> QED
  BY <1>1, <1>2, <1>3, <1>4, <1>5, <1>6, <1>7, <1>8, <1>9 DEF ThreadStep

LEMMA NextTypeInv == TypeInv /\ [Next]_vars => TypeInv'
<1> SUFFICES ASSUME TypeInv, [Next]_vars PROVE TypeInv'
  OBVIOUS
<1>1. CASE ServiceSends
  BY <1>1 DEF TypeInv, TypeOK, Numbered, ServiceSends, StreamOpen, view, client, events
<1>2. CASE ServiceEnds
  BY <1>2 DEF TypeInv, TypeOK, Numbered, ServiceEnds, StreamOpen, view, client, events
<1>3. CASE Gone \/ UNCHANGED vars
  BY <1>3 DEF TypeInv, TypeOK, Numbered, Gone, vars, view, client, stream, events
<1> QED
  BY <1>1, <1>2, <1>3, OperatorType, GuiType, ThreadType DEF Next, Service

\* Whatever the operator, the service and the two threads do, every variable of
\* the tab keeps its type; the thread never reads past what the service sent.
THEOREM TypeCorrect == Spec => []TypeOK
<1>1. TypeInv => TypeOK
  BY DEF TypeInv
<1> QED
  BY <1>1, InitTypeInv, NextTypeInv, PTL DEF Spec

-----------------------------------------------------------------------------
(* Who owns the thread and its context.                                    *)

\* The place of the GUI thread decides whether there is a thread, and a live
\* thread keeps the context it was given.
Owned ==
  /\ gui \in {"cancel", "join"} => thread # "none"
  /\ gui \in {"unsubscribed", "spawn", "closed"} => thread = "none"
  /\ gui = "spawn" => context = "live"
  /\ Alive => context # "none"

LEMMA NextOwned == TypeOK /\ Owned /\ [Next]_vars => Owned'
<1> SUFFICES ASSUME TypeOK, Owned, [Next]_vars PROVE Owned'
  OBVIOUS
<1> USE DEF Owned, Alive, view, client, stream, events
<1>1. CASE ClickStop \/ ClickStart \/ Close
  BY <1>1 DEF ClickStop, ClickStart, Close, Click, Unsubscribe
<1>2. CASE NothingToStop \/ Deactivate \/ Cancel
  BY <1>2 DEF NothingToStop, Deactivate, Cancel
<1>3. CASE Join \/ ShowStopped \/ Closed
  BY <1>3 DEF Join, ShowStopped, Closed
<1>4. CASE Arm \/ Spawn \/ SpawnFails \/ HandleEvent
  BY <1>4 DEF Arm, Spawn, SpawnFails, HandleEvent
<1>5. CASE ThreadOpens \/ ThreadLoops \/ ThreadReads \/ ThreadReadFails
  BY <1>5 DEF ThreadOpens, ThreadLoops, ThreadReads, ThreadReadFails
<1>6. CASE ThreadPosts \/ ThreadChecks \/ ThreadFinishes
  BY <1>6 DEF ThreadPosts, ThreadChecks, ThreadFinishes
<1>7. CASE ThreadEnds \/ ThreadFails
  BY <1>7 DEF ThreadEnds, ThreadFails
<1>8. CASE Service \/ Gone \/ UNCHANGED vars
  BY <1>8 DEF Service, ServiceSends, ServiceEnds, Gone, vars
<1> QED
  BY <1>1, <1>2, <1>3, <1>4, <1>5, <1>6, <1>7, <1>8 DEF Next, Operator, GuiStep, ThreadStep

\* GrpcMkoClient never assigns to a joinable std::thread, never resets the
\* context of a call its thread is in, and leaves no thread when it is destroyed.
THEOREM ThreadAlwaysOwned == Spec => []ThreadIsOwned
<1>1. Init => Owned
  BY DEF Init, Owned, Alive
<1>2. Owned => ThreadIsOwned
  BY DEF Owned, ThreadIsOwned
<1> QED
  BY <1>1, <1>2, TypeCorrect, NextOwned, PTL DEF Spec

-----------------------------------------------------------------------------
(* A stop is not an error.                                                 *)

\* Whoever cancels has cleared the flag before, so a thread that leaves its
\* loop and finds the flag set was left by the service.
Blamed ==
  /\ gui \in {"cancel", "join"} => ~active
  /\ context = "cancelled" => ~active
  /\ (thread = "check" /\ active) => ended[run] # "open"
  /\ (thread \in {"finishing", "failed"} /\ ~stopped) => ended[run] # "open"

LEMMA NextBlamed == TypeOK /\ Owned /\ Blamed /\ [Next]_vars => Blamed'
<1> SUFFICES ASSUME TypeOK, Owned, Blamed, [Next]_vars PROVE Blamed'
  OBVIOUS
<1> USE DEF Blamed, view, client, stream, events
<1>1. CASE ClickStop \/ ClickStart \/ Close
  BY <1>1 DEF ClickStop, ClickStart, Close, Click, Unsubscribe
<1>2. CASE NothingToStop \/ Deactivate \/ Cancel
  BY <1>2 DEF NothingToStop, Deactivate, Cancel
<1>3. CASE Join \/ ShowStopped \/ Closed
  BY <1>3 DEF Join, ShowStopped, Closed
<1>4. CASE Arm \/ Spawn \/ SpawnFails \/ HandleEvent
  BY <1>4 DEF Arm, Spawn, SpawnFails, HandleEvent, Owned
<1>5. CASE ThreadOpens \/ ThreadLoops \/ ThreadReads \/ ThreadReadFails
  BY <1>5 DEF ThreadOpens, ThreadLoops, ThreadReads, ThreadReadFails
<1>6. CASE ThreadPosts \/ ThreadFinishes
  BY <1>6 DEF ThreadPosts, ThreadFinishes
<1>10. CASE ThreadChecks
  <2>1. (active /\ ~stopped') \/ (~active /\ stopped')
    BY <1>10 DEF ThreadChecks
  <2>2. /\ thread = "check" /\ thread' = "finishing"
        /\ UNCHANGED <<gui, active, context, run, ended>>
    BY <1>10 DEF ThreadChecks
  <2> QED
    BY <2>1, <2>2
<1>7. CASE ThreadEnds \/ ThreadFails
  BY <1>7 DEF ThreadEnds, ThreadFails
<1>8. CASE ServiceSends \/ Gone \/ UNCHANGED vars
  BY <1>8 DEF ServiceSends, Gone, vars
<1>9. CASE ServiceEnds
  BY <1>9 DEF ServiceEnds, StreamOpen
<1> QED
  BY <1>1, <1>2, <1>3, <1>4, <1>5, <1>6, <1>7, <1>8, <1>9, <1>10
     DEF Next, Operator, GuiStep, ThreadStep, Service

\* What the service has ended stays ended.
LEMMA EndedStays ==
  ASSUME TypeOK, [Next]_vars, NEW r \in Runs, ended[r] # "open"
  PROVE  ended'[r] # "open"
<1>1. CASE ServiceEnds
  <2>1. PICK end \in {"OK", "ERROR"} : ended' = [ended EXCEPT ![run] = end]
    BY <1>1 DEF ServiceEnds
  <2> QED
    BY <2>1 DEF TypeOK
<1>2. CASE ~ServiceEnds
  <2>1. ended' = ended
    BY <1>2 DEF Next, Operator, ClickStop, ClickStart, Close, GuiStep, NothingToStop,
          Deactivate, Cancel, Join, ShowStopped, Closed, Arm, Spawn, SpawnFails,
          HandleEvent, ThreadStep, ThreadOpens, ThreadLoops, ThreadReads,
          ThreadReadFails, ThreadPosts, ThreadChecks, ThreadFinishes, ThreadEnds,
          ThreadFails, Service, ServiceSends, Gone, vars, stream
  <2> QED
    BY <2>1
<1> QED
  BY <1>1, <1>2

\* What a step may do to the events that wait: take the first one, or append one.
LEMMA PostedMoves ==
  ASSUME TypeOK, Owned, Blamed, [Next]_vars
  PROVE  \/ posted' = posted
         \/ posted # <<>> /\ posted' = Tail(posted)
         \/ posted' = Append(posted, Event("command", read))
         \/ \E r \in Runs : /\ ended[r] # "open"
                          /\ posted' = Append(posted, [run |-> r, n |-> 0, kind |-> "error"])
<1>1. CASE HandleEvent
  BY <1>1 DEF HandleEvent
<1>2. CASE ThreadPosts
  BY <1>2 DEF ThreadPosts, Post
<1>3. CASE ThreadFails
  <2>1. thread = "failed" /\ run \in Runs
    BY <1>3 DEF ThreadFails, TypeOK
  <2>2. \/ posted' = posted
        \/ ~stopped /\ posted' = Append(posted, [run |-> run, n |-> 0, kind |-> "error"])
    BY <1>3 DEF ThreadFails, Post, Event
  <2>3. ~stopped => ended[run] # "open"
    BY <2>1 DEF Blamed
  <2> QED
    BY <2>1, <2>2, <2>3
<1>4. CASE ~HandleEvent /\ ~ThreadPosts /\ ~ThreadFails
  BY <1>4 DEF Next, Operator, ClickStop, ClickStart, Close, GuiStep, NothingToStop,
        Deactivate, Cancel, Join, ShowStopped, Closed, Arm, Spawn, SpawnFails,
        ThreadStep, ThreadOpens, ThreadLoops, ThreadReads, ThreadReadFails,
        ThreadChecks, ThreadFinishes, ThreadEnds, Service, ServiceSends, ServiceEnds,
        Gone, vars, events
<1> QED
  BY <1>1, <1>2, <1>3, <1>4

LEMMA NextStopIsNoError ==
  ASSUME TypeOK, Owned, Blamed, StopIsNoError, [Next]_vars
  PROVE  StopIsNoError'
<1>1. \A i \in 1..Len(posted) :
         posted[i].kind = "error" => ended'[posted[i].run] # "open"
  <2> SUFFICES ASSUME NEW i \in 1..Len(posted), posted[i].kind = "error"
               PROVE  ended'[posted[i].run] # "open"
    OBVIOUS
  <2>1. posted[i] \in EventType
    BY DEF TypeOK
  <2>2. posted[i].run \in Runs
    BY <2>1 DEF EventType
  <2>3. ended[posted[i].run] # "open"
    BY DEF StopIsNoError
  <2> QED
    BY <2>2, <2>3, EndedStays
<1>2. posted \in Seq(EventType)
  BY DEF TypeOK
<1>3. CASE posted' = posted
  BY <1>1, <1>3 DEF StopIsNoError
<1>4. CASE posted # <<>> /\ posted' = Tail(posted)
  <2>1. \A i \in 1..Len(posted') : i + 1 \in 1..Len(posted) /\ posted'[i] = posted[i + 1]
    BY <1>2, <1>4
  <2> QED
    BY <1>1, <2>1 DEF StopIsNoError
<1>5. CASE posted' = Append(posted, Event("command", read))
  <2>1. \A i \in 1..Len(posted') :
          (i \in 1..Len(posted) /\ posted'[i] = posted[i]) \/ posted'[i].kind = "command"
    BY <1>2, <1>5 DEF Event
  <2> QED
    BY <1>1, <2>1 DEF StopIsNoError
<1>6. ASSUME NEW r \in Runs, ended[r] # "open",
             posted' = Append(posted, [run |-> r, n |-> 0, kind |-> "error"])
      PROVE  StopIsNoError'
  <2>1. \A i \in 1..Len(posted') :
          (i \in 1..Len(posted) /\ posted'[i] = posted[i]) \/ posted'[i].run = r
    BY <1>2, <1>6
  <2>2. ended'[r] # "open"
    BY <1>6, EndedStays
  <2> QED
    BY <1>1, <2>1, <2>2 DEF StopIsNoError
<1> QED
  BY <1>3, <1>4, <1>5, <1>6, PostedMoves

\* Whatever the interleaving of unsubscribe_ou_commands() with the ending
\* thread, on_error is called only for a stream that had ended by itself.
THEOREM StopNeverAnError == Spec => []StopIsNoError
<1>1. Init => Owned /\ Blamed /\ StopIsNoError
  BY DEF Init, Owned, Alive, Blamed, StopIsNoError
<1>2. TypeOK /\ Owned /\ Blamed /\ StopIsNoError /\ [Next]_vars => StopIsNoError'
  BY NextStopIsNoError
<1> QED
  BY <1>1, <1>2, TypeCorrect, NextOwned, NextBlamed, PTL DEF Spec

-----------------------------------------------------------------------------
(* The button.                                                             *)

\* While the GUI thread does not end the subscription, a thread that lives is
\* an active one, and one that fails or is done was left by its service.
Served ==
  /\ context = "cancelled" => gui = "join"
  /\ gui = "spawn" => active
  /\ Alive /\ ~active => gui \in {"cancel", "join"}
  /\ thread \in {"finishing", "failed"} /\ stopped => gui \in {"cancel", "join"}
  /\ thread = "failed" => ended[run] = "ERROR" \/ gui = "join"
  /\ thread = "done" => ended[run] = "OK"

ErrorPosted(queue) == \E k \in 1..Len(queue) : queue[k].kind = "error"

\* When no click overtakes an event: a start finds everything handled and
\* nobody alive, a posted error is the end of the stream, and without one the
\* button is right.
ButtonInv ==
  prompt =>
    /\ gui # "idle" /\ purpose = "start" => posted = << >> /\ ~viewSubscribed /\ ~Alive
    /\ gui = "idle" /\ ErrorPosted(posted) => ~Alive /\ ~EndedUnnoticed
    /\ gui = "idle" /\ ~ErrorPosted(posted) => (viewSubscribed <=> (Alive \/ EndedUnnoticed))

\* An error is posted or not after one more event, and after one less.
LEMMA ErrorPostedChanges ==
  ASSUME NEW q \in Seq(EventType)
  PROVE  /\ \A e \in EventType : ErrorPosted(Append(q, e)) <=> ErrorPosted(q) \/ e.kind = "error"
         /\ q # << >> => (ErrorPosted(q) <=> Head(q).kind = "error" \/ ErrorPosted(Tail(q)))
         /\ ~ErrorPosted(<< >>)
<1>1. ASSUME NEW e \in EventType
      PROVE  ErrorPosted(Append(q, e)) <=> ErrorPosted(q) \/ e.kind = "error"
  <2> DEFINE a == Append(q, e)
  <2>1. /\ Len(a) = Len(q) + 1 /\ a[Len(q) + 1] = e /\ Len(q) \in Nat
        /\ \A k \in 1..Len(q) : a[k] = q[k]
    OBVIOUS
  <2> HIDE DEF a
  <2>2. ErrorPosted(a) <=> ErrorPosted(q) \/ e.kind = "error"
    BY <2>1 DEF ErrorPosted
  <2> QED
    BY <2>2 DEF a
<1>2. ASSUME q # << >>
      PROVE  ErrorPosted(q) <=> Head(q).kind = "error" \/ ErrorPosted(Tail(q))
  <2> DEFINE t == Tail(q)
  <2>1. /\ Len(q) = Len(t) + 1 /\ Head(q) = q[1] /\ Len(t) \in Nat
        /\ \A k \in 1..Len(t) : t[k] = q[k + 1]
    BY <1>2
  <2> HIDE DEF t
  <2>2. ASSUME ErrorPosted(q) PROVE Head(q).kind = "error" \/ ErrorPosted(t)
    <3>1. PICK k \in 1..Len(q) : q[k].kind = "error"
      BY <2>2 DEF ErrorPosted
    <3>2. CASE k = 1
      BY <2>1, <3>1, <3>2
    <3>3. CASE k # 1
      <4>1. k - 1 \in 1..Len(t) /\ t[k - 1] = q[k]
        BY <2>1, <3>3
      <4> QED
        BY <3>1, <4>1 DEF ErrorPosted
    <3> QED
      BY <3>2, <3>3
  <2>3. ASSUME Head(q).kind = "error" \/ ErrorPosted(t) PROVE ErrorPosted(q)
    <3>1. CASE Head(q).kind = "error"
      <4>1. 1 \in 1..Len(q) /\ q[1].kind = "error"
        BY <2>1, <3>1
      <4> QED
        BY <4>1 DEF ErrorPosted
    <3>2. CASE ErrorPosted(t)
      <4>1. PICK k \in 1..Len(t) : t[k].kind = "error"
        BY <3>2 DEF ErrorPosted
      <4>2. k + 1 \in 1..Len(q) /\ q[k + 1].kind = "error"
        BY <2>1, <4>1
      <4> QED
        BY <4>2 DEF ErrorPosted
    <3> QED
      BY <2>3, <3>1, <3>2
  <2> QED
    BY <2>2, <2>3 DEF t
<1>3. ~ErrorPosted(<< >>)
  BY DEF ErrorPosted
<1> QED
  BY <1>1, <1>2, <1>3

LEMMA NextServed ==
  ASSUME TypeOK, Owned, Served, [Next]_vars
  PROVE  Served'
<1> USE DEF Served, Alive, view, client, stream, events
<1>1. CASE ClickStop \/ ClickStart \/ Close
  BY <1>1 DEF ClickStop, ClickStart, Close, Click, Unsubscribe
<1>2. CASE NothingToStop \/ Deactivate \/ Cancel
  BY <1>2 DEF NothingToStop, Deactivate, Cancel
<1>3. CASE Join \/ ShowStopped \/ Closed
  BY <1>3 DEF Join, ShowStopped, Closed
<1>4. CASE Arm \/ SpawnFails \/ HandleEvent
  BY <1>4 DEF Arm, SpawnFails, HandleEvent, Owned
<1>5. CASE Spawn
  BY <1>5 DEF Spawn, Owned
<1>6. CASE ThreadOpens \/ ThreadLoops \/ ThreadReads \/ ThreadReadFails \/ ThreadPosts
  BY <1>6 DEF ThreadOpens, ThreadLoops, ThreadReads, ThreadReadFails, ThreadPosts
<1>7. CASE ThreadChecks
  <2>1. (active /\ ~stopped') \/ (~active /\ stopped')
    BY <1>7 DEF ThreadChecks
  <2>2. /\ thread = "check" /\ thread' = "finishing"
        /\ UNCHANGED <<gui, active, context, run, ended>>
    BY <1>7 DEF ThreadChecks
  <2> QED
    BY <2>1, <2>2
<1>8. CASE ThreadFinishes
  BY <1>8 DEF ThreadFinishes
<1>9. CASE ThreadEnds \/ ThreadFails
  BY <1>9 DEF ThreadEnds, ThreadFails, Owned
<1>10. CASE ServiceSends \/ Gone \/ UNCHANGED vars
  BY <1>10 DEF ServiceSends, Gone, vars
<1>11. CASE ServiceEnds
  BY <1>11 DEF ServiceEnds, StreamOpen
<1> QED
  BY <1>1, <1>2, <1>3, <1>4, <1>5, <1>6, <1>7, <1>8, <1>9, <1>10, <1>11
     DEF Next, Operator, GuiStep, ThreadStep, Service

LEMMA NextButton ==
  ASSUME TypeInv, Owned, Served, ButtonInv, [Next]_vars
  PROVE  ButtonInv'
<1> USE DEF ButtonInv, EndedUnnoticed, view, client, stream, events
<1>1. posted \in Seq(EventType) /\ ~ErrorPosted(<< >>)
  BY ErrorPostedChanges DEF TypeInv, TypeOK
\* The operator, and what the GUI thread does in its start and its stop.
<1>2. CASE ClickStop \/ ClickStart \/ Close
  BY <1>1, <1>2 DEF ClickStop, ClickStart, Close, Click, Unsubscribe, Alive
<1>3. CASE NothingToStop \/ Deactivate \/ Cancel \/ Join \/ Closed \/ Arm
  BY <1>3 DEF NothingToStop, Deactivate, Cancel, Join, Closed, Arm, Alive
<1>4. CASE ShowStopped
  BY <1>4 DEF ShowStopped, Owned, Alive
<1>5. CASE Spawn \/ SpawnFails
  BY <1>1, <1>5 DEF Spawn, SpawnFails, Owned, Alive, TypeInv, Numbered
<1>6. CASE HandleEvent
  <2> DEFINE q == posted
  <2>1. /\ gui = "idle" /\ gui' = "idle" /\ q # << >>
        /\ UNCHANGED <<prompt, thread, run, ended>>
        /\ posted' = Tail(q)
        /\ viewSubscribed' = (viewSubscribed /\ Head(q).kind # "error")
    BY <1>6 DEF HandleEvent
  <2>2. ErrorPosted(q) <=> Head(q).kind = "error" \/ ErrorPosted(Tail(q))
    BY <1>1, <2>1, ErrorPostedChanges
  <2>3. ErrorPosted(posted)' <=> ErrorPosted(Tail(q))
    BY <2>1 DEF ErrorPosted
  <2>4. CASE Head(q).kind = "error"
    <3>1. viewSubscribed' = FALSE
      BY <2>1, <2>4
    <3> QED
      BY <2>1, <2>2, <2>3, <2>4, <3>1 DEF Alive
  <2>5. CASE Head(q).kind # "error"
    <3>1. viewSubscribed' <=> viewSubscribed
      BY <2>1, <2>5
    <3> QED
      BY <2>1, <2>2, <2>3, <2>5, <3>1 DEF Alive
  <2> QED
    BY <2>4, <2>5
\* The subscribe thread.
<1>7. CASE ThreadOpens \/ ThreadLoops \/ ThreadReads \/ ThreadReadFails \/ ThreadChecks
           \/ ThreadFinishes
  <2>1. Alive /\ Alive' /\ UNCHANGED <<prompt, gui, purpose, viewSubscribed, posted>>
    BY <1>7 DEF Alive, ThreadOpens, ThreadLoops, ThreadReads, ThreadReadFails, ThreadChecks,
                ThreadFinishes
  <2>2. EndedUnnoticed' = FALSE /\ ~EndedUnnoticed
    BY <2>1 DEF Alive
  <2> HIDE DEF EndedUnnoticed
  <2> QED
    BY <2>1, <2>2
<1>8. CASE ThreadPosts
  <2>1. Alive /\ Alive' /\ UNCHANGED <<prompt, gui, purpose, viewSubscribed>>
    BY <1>8 DEF Alive, ThreadPosts
  <2>2. Event("command", read) \in EventType /\ Event("command", read).kind # "error"
    BY <1>8 DEF TypeInv, TypeOK, ThreadPosts, Event, EventType
  <2>3. ErrorPosted(posted)' <=> ErrorPosted(posted)
    BY <1>1, <1>8, <2>2, ErrorPostedChanges DEF ErrorPosted, ThreadPosts, Post
  <2> QED
    BY <2>1, <2>3 DEF Alive
<1>9. CASE ThreadEnds
  BY <1>9 DEF ThreadEnds, Served, Alive
<1>10. CASE ThreadFails
  <2>1. /\ UNCHANGED <<prompt, gui, purpose, viewSubscribed, run, ended>> /\ Alive /\ ~Alive'
        /\ thread = "failed" /\ thread' = "exited"
    BY <1>10 DEF ThreadFails, Alive
  <2>2. CASE gui # "idle"
    BY <2>1, <2>2
  <2>3. CASE gui = "idle"
    <3>1. ~stopped /\ ended[run] = "ERROR"
      BY <2>1, <2>3 DEF Served
    <3>2. run \in Runs
      BY <2>1 DEF TypeInv, TypeOK
    <3>3. Event("error", 0) \in EventType /\ Event("error", 0).kind = "error"
      BY <3>2 DEF Event, EventType
    <3>4. posted' = Append(posted, Event("error", 0))
      BY <1>10, <3>1 DEF ThreadFails, Post
    <3>5. ErrorPosted(posted)'
      BY <1>1, <3>3, <3>4, ErrorPostedChanges DEF ErrorPosted
    <3> QED
      BY <2>1, <2>3, <3>1, <3>5
  <2> QED
    BY <2>2, <2>3
<1>11. CASE ServiceEnds
  <2>1. Alive /\ Alive' /\ thread' = thread
        /\ UNCHANGED <<prompt, gui, purpose, viewSubscribed, posted>>
    BY <1>11 DEF ServiceEnds, StreamOpen, Alive
  <2> QED
    BY <2>1 DEF Alive
<1>12. CASE ServiceSends \/ Gone \/ UNCHANGED vars
  BY <1>12 DEF ServiceSends, Gone, vars, Alive
<1> QED
  BY <1>2, <1>3, <1>4, <1>5, <1>6, <1>7, <1>8, <1>9, <1>10, <1>11, <1>12
     DEF Next, Operator, GuiStep, ThreadStep, Service

\* When Qt lets no click overtake an event and every event was handled, the
\* button offers to stop exactly when a subscribe thread is alive, or the
\* service ended the stream with OK, which nobody tells the tab.
THEOREM ButtonAlwaysTellsTruth == Spec => []ButtonTellsTruth
<1>1. Init => TypeInv /\ Owned /\ Served /\ ButtonInv
  BY InitTypeInv DEF Init, Owned, Alive, Served, ButtonInv, ErrorPosted, EndedUnnoticed
<1>2. TypeInv /\ Owned /\ Served /\ ButtonInv /\ [Next]_vars
        => (TypeInv /\ Owned /\ Served /\ ButtonInv)'
  BY NextTypeInv, NextOwned, NextServed, NextButton DEF TypeInv
<1>3. ButtonInv => ButtonTellsTruth
  BY DEF ButtonInv, ButtonTellsTruth, ErrorPosted
<1> QED
  BY <1>1, <1>2, <1>3, PTL DEF Spec
-----------------------------------------------------------------------------
(* The refinement of the pipe.  What is shown of a subscription, what is   *)
(* posted of it and what its thread holds are consecutive commands of its  *)
(* stream.  The parts of the invariant are stated about any counts sent,   *)
(* logs and queue q, with top the number of the last subscription and cur  *)
(* the one whose thread may still read (0 if none).                        *)

Command(e) == e.kind = "command"

\* An event names a subscription that was started and a command of its stream.
Sound(sent, top, e) ==
  /\ e.run <= top
  /\ Command(e) => e.n \in 1..sent[e.run]

\* The log of a subscription: commands in their order, then its error.
LogOK(sent, top, cur, log, q) ==
  \A r \in Runs : \A k \in 1..Len(log[r]) :
    /\ log[r][k].run = r /\ Sound(sent, top, log[r][k])
    /\ Command(log[r][k]) =>
         log[r][k].n = k /\ \A j \in 1..Len(log[r]) : j < k => Command(log[r][j])
    /\ ~Command(log[r][k]) =>
         r # cur /\ \A i \in 1..Len(q) : q[i].run = r => ~Command(q[i])

\* The queue: one subscription after the other, each continued from its log.
QueueOK(sent, top, cur, log, q) ==
  \A j \in 1..Len(q) :
    /\ Sound(sent, top, q[j])
    /\ ~Command(q[j]) => q[j].run # cur
    /\ \A i \in 1..Len(q) : i < j =>
         /\ q[i].run <= q[j].run
         /\ q[i].run = q[j].run /\ Command(q[j]) => Command(q[i]) /\ q[j].n = q[i].n + (j - i)
    /\ Command(q[j]) /\ (\A i \in 1..Len(q) : i < j => q[i].run # q[j].run) =>
         q[j].n = Len(log[q[j].run]) + 1

\* The thread, hand commands into its stream, continues the queue or the log.
HandOK(cur, hand, log, q) ==
  cur # 0 =>
    /\ \A i \in 1..Len(q) : q[i].run = cur => q[i].n = hand - (Len(q) - i)
    /\ (\A i \in 1..Len(q) : q[i].run # cur) => Len(log[cur]) = hand

Carried(sent, top, cur, hand, log, q) ==
  LogOK(sent, top, cur, log, q) /\ QueueOK(sent, top, cur, log, q) /\ HandOK(cur, hand, log, q)

\* Handling the first event of the queue.
LEMMA CarriedHandled ==
  ASSUME NEW sent, NEW top \in Nat, NEW cur \in {0, top}, NEW hand \in Int,
         NEW log \in [Runs -> Seq(EventType)], NEW q \in Seq(EventType), q # << >>,
         Carried(sent, top, cur, hand, log, q)
  PROVE  Carried(sent, top, cur, hand, [log EXCEPT ![Head(q).run] = Append(@, Head(q))], Tail(q))
<1> DEFINE e == Head(q)  r0 == e.run  t == Tail(q)
           new == [log EXCEPT ![r0] = Append(@, e)]
<1>1. /\ Len(q) \in Nat /\ Len(q) >= 1 /\ Len(t) = Len(q) - 1 /\ e = q[1]
      /\ \A i \in 1..Len(t) : i + 1 \in 1..Len(q) /\ t[i] = q[i + 1]
      /\ \A i \in 1..Len(q) : q[i] \in EventType
  OBVIOUS
<1>2. \A i \in 1..Len(q) : q[i].run \in Runs /\ q[i].n \in Nat
  BY <1>1 DEF EventType
<1>3. r0 \in Runs /\ e \in EventType /\ 1 \in 1..Len(q)
  BY <1>1, <1>2
<1>4. /\ new \in [Runs -> Seq(EventType)]
      /\ \A r \in Runs : r # r0 => new[r] = log[r]
      /\ new[r0] = Append(log[r0], e)
  BY <1>3
<1>5. /\ Len(log[r0]) \in Nat /\ Len(new[r0]) = Len(log[r0]) + 1
      /\ \A k \in 1..Len(log[r0]) : new[r0][k] = log[r0][k]
      /\ new[r0][Len(log[r0]) + 1] = e
  BY <1>3, <1>4
<1>6. LogOK(sent, top, cur, log, q) /\ QueueOK(sent, top, cur, log, q) /\ HandOK(cur, hand, log, q)
  BY DEF Carried
<1>7. /\ Sound(sent, top, e)
      /\ Command(e) => e.n = Len(log[r0]) + 1
      /\ ~Command(e) => r0 # cur
  BY <1>1, <1>3, <1>6 DEF QueueOK
<1>8. Runs \subseteq Nat \ {0}
  BY DEF Runs
<1> HIDE DEF e, r0, t, new
<1>9. LogOK(sent, top, cur, new, t)
  <2> SUFFICES ASSUME NEW r \in Runs, NEW k \in 1..Len(new[r])
               PROVE  /\ new[r][k].run = r /\ Sound(sent, top, new[r][k])
                      /\ Command(new[r][k]) =>
                           /\ new[r][k].n = k
                           /\ \A j \in 1..Len(new[r]) : j < k => Command(new[r][j])
                      /\ ~Command(new[r][k]) =>
                           r # cur /\ \A i \in 1..Len(t) : t[i].run = r => ~Command(t[i])
    BY DEF LogOK
  <2>1. CASE r # r0
    <3>1. new[r] = log[r]
      BY <1>4, <2>1
    <3>2. ~Command(log[r][k]) => \A i \in 1..Len(q) : q[i].run = r => ~Command(q[i])
      BY <1>6, <3>1 DEF LogOK
    <3>3. ~Command(log[r][k]) => \A i \in 1..Len(t) : t[i].run = r => ~Command(t[i])
      BY <1>1, <3>2
    <3> QED
      BY <1>6, <3>1, <3>3 DEF LogOK
  <2>2. CASE r = r0 /\ k <= Len(log[r0])
    <3>1. k \in 1..Len(log[r0]) /\ new[r][k] = log[r0][k]
      BY <1>5, <2>2
    <3>2. \A j \in 1..Len(new[r]) : j < k => j \in 1..Len(log[r0]) /\ new[r][j] = log[r0][j]
      BY <1>5, <2>2
    <3>3. ~Command(log[r0][k]) => \A i \in 1..Len(q) : q[i].run = r0 => ~Command(q[i])
      BY <1>3, <1>6, <3>1 DEF LogOK
    <3>4. ~Command(log[r0][k]) => \A i \in 1..Len(t) : t[i].run = r0 => ~Command(t[i])
      BY <1>1, <3>3
    <3>5. /\ log[r0][k].run = r0 /\ Sound(sent, top, log[r0][k])
          /\ ~Command(log[r0][k]) => r0 # cur
          /\ Command(log[r0][k]) => log[r0][k].n = k
      BY <1>3, <1>6, <3>1 DEF LogOK
    <3>6. Command(log[r0][k]) => \A j \in 1..Len(log[r0]) : j < k => Command(log[r0][j])
      BY <1>3, <1>6, <3>1 DEF LogOK
    <3>7. Command(log[r0][k]) => \A j \in 1..Len(new[r]) : j < k => Command(new[r][j])
      BY <3>2, <3>6
    <3> QED
      BY <2>2, <3>1, <3>4, <3>5, <3>7
  <2>3. CASE r = r0 /\ k = Len(log[r0]) + 1
    <3>1. new[r][k] = e /\ e.run = r
      BY <1>5, <2>3 DEF r0
    <3>2. \A j \in 1..Len(new[r]) : j < k => j \in 1..Len(log[r0]) /\ new[r][j] = log[r0][j]
      BY <1>5, <2>3
    <3>3. Command(e) => \A j \in 1..Len(new[r]) : j < k => Command(new[r][j])
      <4> SUFFICES ASSUME NEW j \in 1..Len(log[r0]), ~Command(log[r0][j]) PROVE ~Command(e)
        BY <3>2
      <4> QED
        BY <1>1, <1>3, <1>6 DEF LogOK, r0
    <3>4. ~Command(e) => \A i \in 1..Len(t) : t[i].run = r => ~Command(t[i])
      <4> SUFFICES ASSUME NEW i \in 1..Len(t), t[i].run = r, Command(t[i]) PROVE Command(e)
        OBVIOUS
      <4>1. i + 1 \in 1..Len(q) /\ t[i] = q[i + 1] /\ 1 < i + 1
        BY <1>1
      <4> QED
        BY <1>1, <1>3, <1>6, <3>1, <4>1 DEF QueueOK
    <3> QED
      BY <1>7, <2>3, <3>1, <3>3, <3>4
  <2> QED
    BY <1>5, <2>1, <2>2, <2>3
<1>10. QueueOK(sent, top, cur, new, t)
  <2> SUFFICES ASSUME NEW j \in 1..Len(t)
               PROVE  /\ Sound(sent, top, t[j])
                      /\ ~Command(t[j]) => t[j].run # cur
                      /\ \A i \in 1..Len(t) : i < j =>
                           /\ t[i].run <= t[j].run
                           /\ t[i].run = t[j].run /\ Command(t[j]) =>
                                Command(t[i]) /\ t[j].n = t[i].n + (j - i)
                      /\ Command(t[j]) /\ (\A i \in 1..Len(t) : i < j => t[i].run # t[j].run) =>
                           t[j].n = Len(new[t[j].run]) + 1
    BY DEF QueueOK
  <2>1. j + 1 \in 1..Len(q) /\ t[j] = q[j + 1] /\ j \in Nat
    BY <1>1
  <2>2. Sound(sent, top, t[j]) /\ (~Command(t[j]) => t[j].run # cur)
    BY <1>6, <2>1 DEF QueueOK
  <2>3. ASSUME NEW i \in 1..Len(t), i < j
        PROVE  /\ t[i].run <= t[j].run
               /\ t[i].run = t[j].run /\ Command(t[j]) =>
                    Command(t[i]) /\ t[j].n = t[i].n + (j - i)
    <3>1. i + 1 \in 1..Len(q) /\ t[i] = q[i + 1] /\ i + 1 < j + 1 /\ (j + 1) - (i + 1) = j - i
      BY <1>1, <2>3
    <3> QED
      BY <1>6, <2>1, <3>1 DEF QueueOK
  <2>4. ASSUME Command(t[j]), \A i \in 1..Len(t) : i < j => t[i].run # t[j].run
        PROVE  t[j].n = Len(new[t[j].run]) + 1
    <3>1. CASE t[j].run = r0
      <4>1. j = 1
        <5> SUFFICES ASSUME j > 1 PROVE FALSE
          BY <1>1
        <5>1. 1 \in 1..Len(t) /\ t[1] = q[2] /\ 2 \in 1..Len(q) /\ 2 < j + 1
          BY <1>1, <2>1
        <5>2. q[1].run <= q[2].run /\ q[2].run <= q[j + 1].run
          BY <1>3, <1>6, <2>1, <5>1 DEF QueueOK
        <5>3. q[2].run \in Nat /\ q[1].run = r0 /\ q[j + 1].run = r0 /\ r0 \in Nat
          BY <1>1, <1>2, <1>3, <1>8, <2>1, <3>1, <5>1 DEF r0
        <5>4. q[2].run = r0
          BY <5>2, <5>3
        <5> QED
          BY <2>4, <3>1, <5>1, <5>4
      <4>2. Command(q[1]) /\ q[2].n = q[1].n + 1
        BY <1>1, <1>3, <1>6, <2>1, <2>4, <3>1, <4>1 DEF QueueOK, r0
      <4> QED
        BY <1>1, <1>5, <1>7, <2>1, <3>1, <4>1, <4>2
    <3>2. CASE t[j].run # r0
      <4>1. \A i \in 1..Len(q) : i < j + 1 => q[i].run # q[j + 1].run
        <5> SUFFICES ASSUME NEW i \in 1..Len(q), i < j + 1 PROVE q[i].run # q[j + 1].run
          OBVIOUS
        <5>1. CASE i = 1
          BY <1>1, <2>1, <3>2, <5>1 DEF r0
        <5>2. CASE i # 1
          <6>1. i - 1 \in 1..Len(t) /\ t[i - 1] = q[i] /\ i - 1 < j
            BY <1>1, <2>1, <5>2
          <6> QED
            BY <2>1, <2>4, <6>1
        <5> QED
          BY <5>1, <5>2
      <4> QED
        <5>1. q[j + 1].n = Len(log[q[j + 1].run]) + 1
          BY <1>6, <2>1, <2>4, <4>1 DEF QueueOK
        <5>2. new[q[j + 1].run] = log[q[j + 1].run]
          BY <1>2, <1>4, <2>1, <3>2
        <5> QED
          BY <2>1, <5>1, <5>2
    <3> QED
      BY <3>1, <3>2
  <2> QED
    BY <2>2, <2>3, <2>4
<1>11. HandOK(cur, hand, new, t)
  <2> SUFFICES ASSUME cur # 0
               PROVE  /\ \A i \in 1..Len(t) : t[i].run = cur => t[i].n = hand - (Len(t) - i)
                      /\ (\A i \in 1..Len(t) : t[i].run # cur) => Len(new[cur]) = hand
    BY DEF HandOK
  <2>1. ASSUME NEW i \in 1..Len(t), t[i].run = cur
        PROVE  t[i].n = hand - (Len(t) - i)
    <3>1. i + 1 \in 1..Len(q) /\ t[i] = q[i + 1] /\ Len(q) - (i + 1) = Len(t) - i
      BY <1>1
    <3> QED
      BY <1>6, <2>1, <3>1 DEF HandOK
  <2>2. ASSUME \A i \in 1..Len(t) : t[i].run # cur
        PROVE  Len(new[cur]) = hand
    <3>1. CASE r0 = cur
      <4>1. Len(q) = 1
        <5> SUFFICES ASSUME Len(q) # 1 PROVE FALSE
          OBVIOUS
        <5>1. 1 \in 1..Len(t) /\ t[1] = q[2] /\ 2 \in 1..Len(q)
          BY <1>1
        <5>2. q[1].run <= q[2].run /\ q[2].run <= top
          BY <1>3, <1>6, <5>1 DEF QueueOK, Sound
        <5>3. q[2].run \in Nat /\ q[1].run = cur /\ cur = top
          BY <1>1, <1>2, <1>8, <3>1, <5>1 DEF r0
        <5>4. q[2].run = cur
          BY <5>2, <5>3
        <5> QED
          BY <2>2, <5>1, <5>4
      <4>2. Command(e) /\ e.n = Len(log[r0]) + 1
        BY <1>7, <3>1
      <4>3. e.n = hand - (Len(q) - 1)
        BY <1>1, <1>3, <1>6, <3>1 DEF HandOK, r0
      <4> QED
        BY <1>5, <3>1, <4>1, <4>2, <4>3
    <3>2. CASE r0 # cur
      <4>1. \A i \in 1..Len(q) : q[i].run # cur
        <5> SUFFICES ASSUME NEW i \in 1..Len(q) PROVE q[i].run # cur
          OBVIOUS
        <5>1. CASE i = 1
          BY <1>1, <3>2, <5>1 DEF r0
        <5>2. CASE i # 1
          <6>1. i - 1 \in 1..Len(t) /\ t[i - 1] = q[i]
            BY <1>1, <5>2
          <6> QED
            BY <2>2, <6>1
        <5> QED
          BY <5>1, <5>2
      <4>2. Len(log[cur]) = hand
        BY <1>6, <4>1 DEF HandOK
      <4>3. new[cur] = log[cur]
        BY <3>2 DEF new
      <4> QED
        BY <4>2, <4>3
    <3> QED
      BY <3>1, <3>2
  <2> QED
    BY <2>1, <2>2
<1> QED
  BY <1>9, <1>10, <1>11 DEF Carried, new, t, e, r0

\* Posting: the next command of the thread, or, once it left its loop, something
\* else.
LEMMA CarriedPosted ==
  ASSUME NEW sent, NEW top \in Nat, NEW cur \in {0, top}, NEW hand \in Int, NEW next \in Int,
         NEW log \in [Runs -> Seq(EventType)], NEW q \in Seq(EventType), NEW e \in EventType,
         Sound(sent, top, e), e.run = top,
         \/ cur = top /\ Command(e) /\ e.n = hand + 1 /\ next = hand + 1
         \/ cur = 0 /\ ~Command(e),
         Carried(sent, top, cur, hand, log, q)
  PROVE  Carried(sent, top, cur, next, log, Append(q, e))
<1> DEFINE a == Append(q, e)
<1>1. /\ Len(q) \in Nat /\ Len(a) = Len(q) + 1 /\ a[Len(q) + 1] = e
      /\ \A i \in 1..Len(q) : a[i] = q[i] /\ q[i] \in EventType
  OBVIOUS
<1>2. top \in Runs /\ top # 0 /\ \A i \in 1..Len(q) : q[i].run \in Nat /\ q[i].n \in Nat
  <2>1. e.run \in Runs /\ \A i \in 1..Len(q) : q[i].run \in Runs /\ q[i].n \in Nat
    BY <1>1 DEF EventType
  <2> QED
    BY <2>1 DEF Runs
<1>3. LogOK(sent, top, cur, log, q) /\ QueueOK(sent, top, cur, log, q) /\ HandOK(cur, hand, log, q)
  BY DEF Carried
<1>4. cur = top <=> Command(e)
  BY <1>2
<1> HIDE DEF a
<1>5. LogOK(sent, top, cur, log, a)
  <2>1. ASSUME NEW r \in Runs, NEW k \in 1..Len(log[r]), ~Command(log[r][k])
        PROVE  \A i \in 1..Len(a) : a[i].run = r => ~Command(a[i])
    <3>1. r # cur /\ \A i \in 1..Len(q) : q[i].run = r => ~Command(q[i])
      BY <1>3, <2>1 DEF LogOK
    <3> SUFFICES ASSUME NEW i \in 1..Len(a), a[i].run = r PROVE ~Command(a[i])
      OBVIOUS
    <3>2. CASE i <= Len(q)
      BY <1>1, <3>1, <3>2
    <3>3. CASE i = Len(q) + 1
      BY <1>1, <1>4, <3>1, <3>3
    <3> QED
      BY <1>1, <3>2, <3>3
  <2> QED
    BY <1>3, <2>1 DEF LogOK
<1>6. QueueOK(sent, top, cur, log, a)
  <2> SUFFICES ASSUME NEW j \in 1..Len(a)
               PROVE  /\ Sound(sent, top, a[j])
                      /\ ~Command(a[j]) => a[j].run # cur
                      /\ \A i \in 1..Len(a) : i < j =>
                           /\ a[i].run <= a[j].run
                           /\ a[i].run = a[j].run /\ Command(a[j]) =>
                                Command(a[i]) /\ a[j].n = a[i].n + (j - i)
                      /\ Command(a[j]) /\ (\A i \in 1..Len(a) : i < j => a[i].run # a[j].run) =>
                           a[j].n = Len(log[a[j].run]) + 1
    BY DEF QueueOK
  <2>1. CASE j <= Len(q)
    <3>1. \A i \in 1..Len(a) : i < j => i \in 1..Len(q) /\ a[i] = q[i]
      BY <1>1, <2>1
    <3>2. \A i \in 1..Len(q) : i < j => i \in 1..Len(a) /\ a[i] = q[i]
      BY <1>1, <2>1
    <3>3. j \in 1..Len(q) /\ a[j] = q[j]
      BY <1>1, <2>1
    <3> HIDE DEF QueueOK
    <3>4. /\ Sound(sent, top, q[j])
          /\ ~Command(q[j]) => q[j].run # cur
          /\ \A i \in 1..Len(q) : i < j =>
               /\ q[i].run <= q[j].run
               /\ q[i].run = q[j].run /\ Command(q[j]) =>
                    Command(q[i]) /\ q[j].n = q[i].n + (j - i)
          /\ Command(q[j]) /\ (\A i \in 1..Len(q) : i < j => q[i].run # q[j].run) =>
               q[j].n = Len(log[q[j].run]) + 1
      BY <1>3, <3>3 DEF QueueOK
    <3> QED
      BY <3>1, <3>2, <3>3, <3>4
  <2>2. CASE j = Len(q) + 1
    <3>1. a[j] = e
      BY <1>1, <2>2
    <3>2. ASSUME NEW i \in 1..Len(a), i < j
          PROVE  /\ a[i].run <= e.run
                 /\ a[i].run = e.run /\ Command(e) =>
                      Command(a[i]) /\ e.n = a[i].n + (j - i)
      <4>1. i \in 1..Len(q) /\ a[i] = q[i]
        BY <1>1, <2>2, <3>2
      <4>2. q[i].run <= top /\ (~Command(q[i]) => q[i].run # cur)
        BY <1>3, <4>1 DEF QueueOK, Sound
      <4>3. ASSUME q[i].run = top, Command(e)
            PROVE  Command(q[i]) /\ e.n = q[i].n + (j - i)
        <5>1. cur = top /\ e.n = hand + 1
          BY <1>4, <4>3
        <5>2. q[i].n = hand - (Len(q) - i)
          BY <1>2, <1>3, <4>1, <4>3, <5>1 DEF HandOK
        <5> QED
          BY <1>1, <1>2, <2>2, <4>1, <4>2, <4>3, <5>1, <5>2
      <4> QED
        BY <4>1, <4>2, <4>3
    <3>3. ASSUME Command(e), \A i \in 1..Len(a) : i < j => a[i].run # e.run
          PROVE  e.n = Len(log[e.run]) + 1
      <4>1. \A i \in 1..Len(q) : q[i].run # cur
        BY <1>1, <1>4, <2>2, <3>3
      <4> QED
        BY <1>2, <1>3, <1>4, <3>3, <4>1 DEF HandOK
    <3> QED
      BY <1>2, <1>4, <3>1, <3>2, <3>3
  <2> QED
    BY <1>1, <2>1, <2>2
<1>7. HandOK(cur, next, log, a)
  <2> SUFFICES ASSUME cur # 0
               PROVE  /\ \A i \in 1..Len(a) : a[i].run = cur => a[i].n = next - (Len(a) - i)
                      /\ (\A i \in 1..Len(a) : a[i].run # cur) => Len(log[cur]) = next
    BY DEF HandOK
  <2>1. cur = top /\ e.n = hand + 1 /\ next = hand + 1
    OBVIOUS
  <2>2. ASSUME NEW i \in 1..Len(a), a[i].run = cur
        PROVE  a[i].n = next - (Len(a) - i)
    <3>1. CASE i <= Len(q)
      <4>1. q[i].n = hand - (Len(q) - i)
        BY <1>1, <1>3, <2>2, <3>1 DEF HandOK
      <4> QED
        BY <1>1, <2>1, <3>1, <4>1
    <3>2. CASE i = Len(q) + 1
      BY <1>1, <2>1, <3>2
    <3> QED
      BY <1>1, <3>1, <3>2
  <2>3. \E i \in 1..Len(a) : a[i].run = cur
    BY <1>1, <2>1
  <2> QED
    BY <2>2, <2>3
<1> QED
  BY <1>5, <1>6, <1>7 DEF Carried, a

\* A stream that grows leaves what was made of it.
LEMMA CarriedGrows ==
  ASSUME NEW sent \in [Runs -> Nat], NEW top \in Runs, NEW cur, NEW hand,
         NEW log \in [Runs -> Seq(EventType)], NEW q \in Seq(EventType),
         Carried(sent, top, cur, hand, log, q)
  PROVE  Carried([sent EXCEPT ![top] = @ + 1], top, cur, hand, log, q)
<1> DEFINE new == [sent EXCEPT ![top] = @ + 1]
<1>1. ASSUME NEW e \in EventType, Sound(sent, top, e)
      PROVE  Sound(new, top, e)
  <2>1. e.run \in Runs /\ sent[e.run] \in Nat /\ e.n \in Nat
    BY DEF EventType
  <2>2. new[e.run] \in {sent[e.run], sent[e.run] + 1}
    BY <2>1
  <2> HIDE DEF new
  <2> QED
    BY <1>1, <2>1, <2>2 DEF Sound
<1> HIDE DEF new
<1>2. LogOK(sent, top, cur, log, q) /\ QueueOK(sent, top, cur, log, q) /\ HandOK(cur, hand, log, q)
  BY DEF Carried
<1>3. LogOK(new, top, cur, log, q)
  <2>1. \A r \in Runs : \A k \in 1..Len(log[r]) : log[r][k] \in EventType
    OBVIOUS
  <2> QED
    BY <1>1, <1>2, <2>1 DEF LogOK
<1>4. QueueOK(new, top, cur, log, q)
  <2>1. \A i \in 1..Len(q) : q[i] \in EventType
    OBVIOUS
  <2> QED
    BY <1>1, <1>2, <2>1 DEF QueueOK
<1> QED
  BY <1>2, <1>3, <1>4 DEF Carried, new

\* The next subscription begins with an empty log and nothing read.
LEMMA CarriedStarts ==
  ASSUME NEW sent, NEW top \in Nat, NEW hand, NEW log \in [Runs -> Seq(EventType)],
         NEW q \in Seq(EventType), top + 1 \in Runs, log[top + 1] = << >>,
         Carried(sent, top, 0, hand, log, q)
  PROVE  Carried(sent, top + 1, top + 1, 0, log, q)
<1>1. LogOK(sent, top, 0, log, q) /\ QueueOK(sent, top, 0, log, q)
  BY DEF Carried
<1>2. \A i \in 1..Len(q) : q[i].run \in Nat /\ q[i].run <= top /\ q[i].run # top + 1
                           /\ Sound(sent, top + 1, q[i])
  <2> SUFFICES ASSUME NEW i \in 1..Len(q)
               PROVE  q[i].run \in Nat /\ q[i].run <= top /\ q[i].run # top + 1
                      /\ Sound(sent, top + 1, q[i])
    OBVIOUS
  <2> q[i] \in EventType
    OBVIOUS
  <2>1. q[i].run \in Nat
    BY DEF EventType, Runs
  <2>2. Sound(sent, top, q[i])
    BY <1>1 DEF QueueOK
  <2> QED
    BY <2>1, <2>2 DEF Sound
<1>3. \A r \in Runs : \A k \in 1..Len(log[r]) : r # top + 1 /\ Sound(sent, top + 1, log[r][k])
  <2> SUFFICES ASSUME NEW r \in Runs, NEW k \in 1..Len(log[r])
               PROVE  r # top + 1 /\ Sound(sent, top + 1, log[r][k])
    OBVIOUS
  <2>1. Sound(sent, top, log[r][k]) /\ log[r][k].run = r /\ r \in Nat
    BY <1>1 DEF LogOK, Runs
  <2> QED
    BY <2>1 DEF Sound
<1>4. LogOK(sent, top + 1, top + 1, log, q)
  BY <1>1, <1>3 DEF LogOK
<1>5. QueueOK(sent, top + 1, top + 1, log, q)
  BY <1>1, <1>2 DEF QueueOK
<1>6. HandOK(top + 1, 0, log, q)
  BY <1>2 DEF HandOK
<1> QED
  BY <1>4, <1>5, <1>6 DEF Carried

\* A thread that leaves its loop leaves the queue and the logs as they are.
LEMMA CarriedStops ==
  ASSUME NEW sent, NEW top, NEW cur, NEW hand, NEW last, NEW log, NEW q \in Seq(EventType),
         Carried(sent, top, cur, hand, log, q)
  PROVE  Carried(sent, top, 0, last, log, q)
<1>1. \A i \in 1..Len(q) : q[i] \in EventType
  OBVIOUS
<1>2. 0 \notin Runs /\ \A i \in 1..Len(q) : q[i].run # 0
  BY <1>1 DEF EventType, Runs
<1> QED
  BY <1>2 DEF Carried, LogOK, QueueOK, HandOK

-----------------------------------------------------------------------------
\* While the thread is in its loop it may still post commands of its stream.
Reading == thread \in {"opening", "loop", "reading", "posting"}
Current == IF Reading THEN run ELSE 0
Hand == IF thread = "posting" THEN read - 1 ELSE read

\* A subscription that was not started has no stream and no log; what the
\* thread posts it has read.
StreamInv ==
  /\ \A r \in Runs : r > run => produced[r] = 0 /\ shown[r] = << >>
  /\ \A r \in Runs : produced[r] <= MaxItems
  /\ thread = "posting" => read > 0

OutInv == StreamInv /\ Carried(produced, run, Current, Hand, shown, posted)

LEMMA InitOut == Init => OutInv
<1> SUFFICES ASSUME Init PROVE OutInv
  OBVIOUS
<1>1. \A r \in Runs : Len(shown[r]) = 0
  BY DEF Init
<1>2. Len(posted) = 0
  BY DEF Init
<1>3. Current = 0 /\ thread = "none"
  BY DEF Init, Current, Reading
<1>4. Carried(produced, run, Current, Hand, shown, posted)
  BY <1>1, <1>2, <1>3 DEF Carried, LogOK, QueueOK, HandOK
<1>5. StreamInv
  BY <1>3, ConstantsAssumption DEF StreamInv, Init, ConstantsAssumption
<1> QED
  BY <1>4, <1>5 DEF OutInv

\* What the type invariant says of the numbers.
LEMMA Ranges ==
  ASSUME TypeInv
  PROVE  /\ run \in Nat /\ Current \in {0, run} /\ read \in Nat /\ Hand \in Int
         /\ produced \in [Runs -> Nat]
         /\ shown \in [Runs -> Seq(EventType)] /\ posted \in Seq(EventType)
         /\ thread # "none" => run \in Runs
         /\ run \in Runs => read <= produced[run]
BY DEF TypeInv, TypeOK, Current, Hand

\* The step of the GUI thread that handles an event.
LEMMA HandleEventOut ==
  ASSUME TypeInv, OutInv, HandleEvent
  PROVE  OutInv'
<1> DEFINE e == Head(posted)
<1>1. /\ posted # << >> /\ posted' = Tail(posted)
      /\ shown' = [shown EXCEPT ![e.run] = Append(@, e)]
      /\ UNCHANGED <<thread, run, produced, read>>
  BY DEF HandleEvent, client, stream
<1>2. Current' = Current /\ Hand' = Hand
  BY <1>1 DEF Current, Reading, Hand
<1>3. e \in EventType /\ e.run \in Runs /\ e.run <= run
  <2>1. 1 \in 1..Len(posted) /\ e = posted[1] /\ e \in EventType
    BY <1>1, Ranges
  <2> QED
    BY <2>1 DEF OutInv, Carried, QueueOK, Sound, EventType
<1>4. Carried(produced, run, Current, Hand, shown', posted')
  BY <1>1, Ranges, CarriedHandled DEF OutInv
<1>5. Carried(produced, run, Current, Hand, shown, posted)'
  BY <1>1, <1>2, <1>4
<1>6. StreamInv'
  <2>1. \A r \in Runs : r > run => shown'[r] = shown[r]
    BY <1>1, <1>3, Ranges DEF Runs
  <2> QED
    BY <1>1, <2>1 DEF OutInv, StreamInv
<1> QED
  BY <1>5, <1>6 DEF OutInv

\* The steps of the thread that post something: a command, or the error.
LEMMA ThreadPostsOut ==
  ASSUME TypeInv, OutInv, NEW e, posted' = Append(posted, e),
         \/ ThreadPosts /\ e = Event("command", read)
         \/ ThreadFails /\ e = Event("error", 0)
  PROVE  OutInv'
<1>1. /\ UNCHANGED <<run, produced, read, shown>> /\ run \in Runs /\ thread' # "posting"
  BY Ranges DEF ThreadPosts, ThreadFails, stream
<1>2. StreamInv'
  BY <1>1 DEF OutInv, StreamInv
<1>3. e \in EventType /\ e.run = run
  BY <1>1, Ranges DEF Event, EventType
<1>4. CASE ThreadPosts /\ e = Event("command", read)
  <2>1. thread = "posting" /\ thread' = "loop"
    BY <1>4 DEF ThreadPosts
  <2>2. Current = run /\ Current' = run /\ Hand = read - 1 /\ Hand' = read
    BY <1>1, <2>1 DEF Current, Reading, Hand
  <2>3. read \in 1..produced[run] /\ produced[run] \in Nat
    BY <1>1, <2>1, Ranges DEF OutInv, StreamInv
  <2>4. Command(e) /\ e.n = read
    BY <1>4 DEF Event, Command
  <2>5. Sound(produced, run, e) /\ e.n = Hand + 1 /\ read = Hand + 1
    BY <1>3, <2>2, <2>3, <2>4, Ranges DEF Sound
  <2>6. Carried(produced, run, run, read, shown, Append(posted, e))
    <3>1. Carried(produced, run, run, Hand, shown, posted)
      BY <2>2 DEF OutInv
    <3>2. /\ run \in Nat /\ Hand \in Int /\ read \in Int
          /\ shown \in [Runs -> Seq(EventType)] /\ posted \in Seq(EventType)
      BY Ranges
    <3> QED
      BY ONLY <1>3, <2>4, <2>5, <3>1, <3>2, CarriedPosted
  <2> QED
    BY <1>1, <1>2, <2>2, <2>6 DEF OutInv
<1>5. CASE ThreadFails /\ e = Event("error", 0)
  <2>1. Current = 0 /\ Current' = 0
    BY <1>5 DEF ThreadFails, Current, Reading
  <2>2. ~Command(e) /\ Sound(produced, run, e) /\ Hand' \in Int
    BY <1>1, <1>3, <1>5, Ranges DEF Event, Command, Sound, Hand
  <2>3. Carried(produced, run, Current, Hand', shown, Append(posted, e))
    BY <1>3, <2>1, <2>2, Ranges, CarriedPosted DEF OutInv
  <2>4. Carried(produced, run, Current, Hand, shown, posted)'
    BY <1>1, <2>1, <2>3
  <2> QED
    BY <1>2, <2>4 DEF OutInv
<1> QED
  BY <1>4, <1>5

\* The service.
LEMMA ServiceOut ==
  ASSUME TypeInv, OutInv, ServiceSends
  PROVE  OutInv'
<1>1. UNCHANGED <<thread, run, read, posted, shown>>
  BY DEF ServiceSends, client, events
<1>2. /\ run \in Runs /\ produced[run] \in Nat /\ produced[run] < MaxItems
      /\ produced' = [produced EXCEPT ![run] = @ + 1]
  BY Ranges DEF ServiceSends, StreamOpen
<1>3. Current' = Current /\ Hand' = Hand
  BY <1>1 DEF Current, Reading, Hand
<1>4. Carried(produced', run, Current, Hand, shown, posted)
  BY <1>2, Ranges, CarriedGrows DEF OutInv
<1>5. Carried(produced, run, Current, Hand, shown, posted)'
  BY <1>1, <1>3, <1>4
<1>6. \A r \in Runs : r # run => produced'[r] = produced[r]
  BY <1>2, Ranges
<1>7. produced'[run] = produced[run] + 1
  BY <1>2, Ranges
<1>8. StreamInv'
  <2>1. \A r \in Runs : r > run => produced'[r] = 0 /\ shown'[r] = << >>
    BY <1>1, <1>6, Ranges DEF OutInv, StreamInv, Runs
  <2>2. \A r \in Runs : produced'[r] <= MaxItems
    <3> SUFFICES ASSUME NEW r \in Runs PROVE produced'[r] <= MaxItems
      OBVIOUS
    <3>1. CASE r = run
      BY <1>2, <1>7, <3>1, ConstantsAssumption DEF ConstantsAssumption
    <3>2. CASE r # run
      BY <1>6, <3>2 DEF OutInv, StreamInv
    <3> QED
      BY <3>1, <3>2
  <2> QED
    BY <1>1, <2>1, <2>2 DEF OutInv, StreamInv
<1> QED
  BY <1>5, <1>8 DEF OutInv

LEMMA NextOut ==
  ASSUME TypeInv, Owned, OutInv, [Next]_vars
  PROVE  OutInv'
<1>1. CASE HandleEvent
  BY <1>1, HandleEventOut
<1>2. CASE ThreadPosts
  BY <1>2, ThreadPostsOut DEF ThreadPosts, Post
<1>3. CASE ServiceSends
  BY <1>3, ServiceOut
<1>4. CASE Spawn
  <2>1. /\ thread = "none" /\ thread' = "opening" /\ run' = run + 1 /\ read' = 0
        /\ UNCHANGED <<produced, posted, shown>>
    BY <1>4 DEF Spawn, Owned, events
  <2>2. run + 1 \in Runs
    <3>1. run < MaxRuns
      BY <1>4 DEF Spawn, TypeInv, Numbered
    <3>2. run \in Nat /\ MaxRuns \in Nat
      BY Ranges, ConstantsAssumption DEF ConstantsAssumption
    <3> QED
      BY <3>1, <3>2 DEF Runs
  <2>3. Current = 0 /\ Current' = run + 1 /\ Hand' = 0
    BY <2>1 DEF Current, Reading, Hand
  <2>4. shown[run + 1] = << >>
    BY <2>2, Ranges DEF OutInv, StreamInv
  <2>5. Carried(produced, run + 1, run + 1, 0, shown, posted)
    BY <2>2, <2>3, <2>4, Ranges, CarriedStarts DEF OutInv
  <2>6. StreamInv'
    BY <2>1, Ranges DEF OutInv, StreamInv, Runs
  <2> QED
    BY <2>1, <2>3, <2>5, <2>6 DEF OutInv
<1>5. CASE ThreadReads
  <2>1. /\ thread = "reading" /\ thread' = "posting" /\ read' = read + 1
        /\ UNCHANGED <<run, produced, posted, shown>>
    BY <1>5 DEF ThreadReads, events
  <2>2. Current' = Current /\ Hand' = Hand
    BY <2>1, Ranges DEF Current, Reading, Hand
  <2>3. StreamInv'
    BY <2>1, Ranges DEF OutInv, StreamInv
  <2> QED
    BY <2>1, <2>2, <2>3 DEF OutInv
\* The other steps leave what is carried as it is, or end the loop.
<1>6. ASSUME UNCHANGED <<run, produced, read, posted, shown>>,
             \/ ~Reading'
             \/ Reading /\ Reading' /\ thread # "posting" /\ thread' # "posting"
             \/ thread' = thread
      PROVE  OutInv'
  <2>1. StreamInv'
    BY <1>6 DEF OutInv, StreamInv, Reading
  <2>2. CASE Current' = Current /\ Hand' = Hand
    BY <1>6, <2>1, <2>2 DEF OutInv
  <2>3. CASE ~Reading'
    <3>1. Current' = 0
      BY <2>3 DEF Current
    <3>2. Carried(produced, run, 0, Hand', shown, posted)
      BY Ranges, CarriedStops DEF OutInv
    <3>3. Carried(produced, run, Current, Hand, shown, posted)'
      BY <1>6, <3>1, <3>2
    <3> QED
      BY <2>1, <3>3 DEF OutInv
  <2> QED
    BY <1>6, <2>2, <2>3 DEF Current, Hand, Reading
<1>7. CASE ThreadOpens \/ ThreadLoops \/ ThreadReadFails \/ ThreadChecks \/ ThreadFinishes
           \/ ThreadEnds
  BY <1>6, <1>7
  DEF ThreadOpens, ThreadLoops, ThreadReadFails, ThreadChecks, ThreadFinishes, ThreadEnds,
      Reading, stream, events
<1>8. CASE ThreadFails
  <2>1. CASE stopped
    BY <1>6, <1>8, <2>1 DEF ThreadFails, Reading, stream
  <2>2. CASE ~stopped
    BY <1>8, <2>2, ThreadPostsOut DEF ThreadFails, Post
  <2> QED
    BY <2>1, <2>2
<1>9. CASE Join
  BY <1>6, <1>9 DEF Join, Reading, stream, events
<1>10. ASSUME UNCHANGED <<thread, run, produced, read, posted, shown>>
      PROVE  OutInv'
  BY <1>6, <1>10
<1>11. CASE NothingToStop \/ Deactivate \/ Cancel \/ ShowStopped \/ Closed \/ Arm \/ SpawnFails
            \/ Operator \/ ServiceEnds \/ Gone \/ UNCHANGED vars
  BY <1>10, <1>11
  DEF NothingToStop, Deactivate, Cancel, ShowStopped, Closed, Arm, SpawnFails, Operator,
      ClickStop, ClickStart, Close, ServiceEnds, Gone, vars, client, stream, events
<1> QED
  BY <1>1, <1>2, <1>3, <1>4, <1>5, <1>7, <1>8, <1>9, <1>11 DEF Next, GuiStep, ThreadStep, Service

LEMMA PipeInit == Init => Pipe!Init
<1> SUFFICES ASSUME Init PROVE Pipe!Init
  OBVIOUS
<1>1. \A r \in Runs : produced[r] = 0 /\ CommandsOf(r) = {}
  BY DEF Init, CommandsOf
<1>2. Sent = [r \in Runs |-> << >>] /\ Shown = [r \in Runs |-> << >>]
  BY <1>1 DEF Sent, Shown
<1> QED
  BY <1>2 DEF Pipe!Init

\* A handled command is given, an error that is handled is not.
LEMMA PipeHandle ==
  ASSUME TypeInv, OutInv, HandleEvent, NEW e, e = Head(posted), NEW r, r = e.run
  PROVE  Pipe!Next \/ UNCHANGED <<Sent, Shown>>
<1>1. /\ posted # << >> /\ produced' = produced
      /\ shown' = [shown EXCEPT ![r] = Append(@, e)]
  BY DEF HandleEvent, stream
<1>2. 1 \in 1..Len(posted) /\ e = posted[1] /\ e \in EventType
  BY <1>1, Ranges
<1> DEFINE len == Len(shown[r])
<1>3. r \in Runs /\ shown[r] \in Seq(EventType) /\ len \in Nat
  <2>1. r \in Runs
    BY <1>2 DEF EventType
  <2> QED
    BY <2>1, Ranges
<1>4. /\ shown'[r] = Append(shown[r], e)
      /\ \A s \in Runs : s # r => shown'[s] = shown[s]
  BY <1>1, <1>2, <1>3, Ranges
<1>5. /\ Len(shown'[r]) = len + 1 /\ shown'[r][len + 1] = e
      /\ \A k \in 1..len : shown'[r][k] = shown[r][k]
  BY <1>3, <1>4
<1>6. /\ Sound(produced, run, e)
      /\ Command(e) => e.n = len + 1
      /\ \A k \in 1..len : Command(shown[r][k]) => shown[r][k].n = k
      /\ Command(e) => \A k \in 1..len : Command(shown[r][k])
  <2>1. Sound(produced, run, e) /\ (Command(e) => e.n = len + 1)
    BY <1>2 DEF OutInv, Carried, QueueOK
  <2>2. ASSUME NEW k \in 1..len, ~Command(shown[r][k]) PROVE ~Command(e)
    BY <1>2, <1>3, <2>2 DEF OutInv, Carried, LogOK
  <2>3. \A k \in 1..len : Command(shown[r][k]) => shown[r][k].n = k
    BY <1>3 DEF OutInv, Carried, LogOK
  <2> QED
    BY <2>1, <2>2, <2>3
<1>7. Sent' = Sent
  BY <1>1 DEF Sent
<1>8. /\ CommandsOf(r) = {k \in 1..len : Command(shown[r][k])}
      /\ CommandsOf(r)' = {k \in 1..(len + 1) : Command(shown'[r][k])}
  BY <1>5 DEF CommandsOf, Command
<1>9. /\ \A s \in Runs : s # r => Shown'[s] = Shown[s]
      /\ Shown[r] = [k \in CommandsOf(r) |-> shown[r][k].n]
      /\ Shown'[r] = [k \in CommandsOf(r)' |-> shown'[r][k].n]
      /\ Shown = [s \in Runs |-> Shown[s]] /\ Shown' = [s \in Runs |-> Shown'[s]]
  <2>1. \A s \in Runs : s # r => Shown'[s] = Shown[s]
    <3> SUFFICES ASSUME NEW s \in Runs, s # r PROVE Shown'[s] = Shown[s]
      OBVIOUS
    <3>1. shown'[s] = shown[s]
      BY <1>4
    <3>2. CommandsOf(s)' = CommandsOf(s)
      BY <3>1 DEF CommandsOf
    <3> QED
      BY <3>1, <3>2 DEF Shown
  <2>2. /\ Shown[r] = [k \in CommandsOf(r) |-> shown[r][k].n]
        /\ Shown'[r] = [k \in CommandsOf(r)' |-> shown'[r][k].n]
        /\ Shown = [s \in Runs |-> Shown[s]] /\ Shown' = [s \in Runs |-> Shown'[s]]
    BY <1>3 DEF Shown
  <2> QED
    BY <2>1, <2>2
<1> HIDE DEF len
<1>10. CASE ~Command(e)
  <2>1. CommandsOf(r)' = CommandsOf(r)
    <3>1. \A k \in 1..(len + 1) : Command(shown'[r][k]) => k \in 1..len
      BY <1>3, <1>5, <1>10
    <3>2. \A k \in 1..len : k \in 1..(len + 1) /\ Command(shown'[r][k]) = Command(shown[r][k])
      BY <1>3, <1>5
    <3> QED
      BY <1>8, <3>1, <3>2
  <2>2. \A k \in CommandsOf(r) : shown'[r][k] = shown[r][k]
    BY <1>5, <1>8
  <2>3. Shown'[r] = Shown[r]
    <3>1. [k \in CommandsOf(r)' |-> shown'[r][k].n] = [k \in CommandsOf(r) |-> shown[r][k].n]
      BY <2>1, <2>2
    <3> QED
      BY <1>9, <3>1
  <2>4. Shown' = Shown
    BY <1>9, <2>3
  <2> QED
    BY <1>7, <2>4
<1>11. CASE Command(e)
  <2>1. CommandsOf(r) = 1..len /\ Shown[r] = [k \in 1..len |-> k]
    <3>1. CommandsOf(r) = 1..len
      BY <1>6, <1>8, <1>11
    <3>2. \A k \in 1..len : shown[r][k].n = k
      BY <1>6, <1>11
    <3> QED
      BY <1>9, <3>1, <3>2
  <2>2. CommandsOf(r)' = 1..(len + 1) /\ Shown'[r] = [k \in 1..(len + 1) |-> k]
    <3>1. \A k \in 1..(len + 1) : Command(shown'[r][k]) /\ shown'[r][k].n = k
      <4> SUFFICES ASSUME NEW k \in 1..(len + 1)
                   PROVE  Command(shown'[r][k]) /\ shown'[r][k].n = k
        OBVIOUS
      <4>1. CASE k = len + 1
        BY <1>5, <1>6, <1>11, <4>1
      <4>2. CASE k \in 1..len
        BY <1>5, <1>6, <1>11, <4>2
      <4> QED
        BY <1>3, <4>1, <4>2
    <3>2. CommandsOf(r)' = 1..(len + 1)
      BY <1>8, <3>1
    <3>3. Shown'[r] = [k \in 1..(len + 1) |-> shown'[r][k].n]
      BY <1>9, <3>2
    <3>4. [k \in 1..(len + 1) |-> shown'[r][k].n] = [k \in 1..(len + 1) |-> k]
      BY <3>1
    <3> QED
      BY <3>2, <3>3, <3>4
  <2>3. Len(Shown[r]) = len /\ Shown'[r] = Append(Shown[r], len + 1)
    BY <1>3, <2>1, <2>2
  <2>4. Shown' = [Shown EXCEPT ![r] = Append(@, len + 1)]
    BY <1>3, <1>9, <2>3
  <2>5. Sent[r] = [n \in 1..produced[r] |-> n] /\ produced[r] \in Nat
    BY <1>3, Ranges DEF Sent
  <2>6. len + 1 \in 1..produced[r]
    BY <1>6, <1>11 DEF Sound
  <2>7. Len(Sent[r]) = produced[r] /\ Sent[r][len + 1] = len + 1
    BY <2>5, <2>6
  <2>8. Pipe!Give(r)
    BY <1>3, <1>7, <2>3, <2>4, <2>6, <2>7 DEF Pipe!Give
  <2> QED
    BY <1>3, <2>8 DEF Pipe!Next
<1> QED
  BY <1>10, <1>11

\* What the service sends is produced.
LEMMA PipeService ==
  ASSUME TypeInv, OutInv, ServiceSends
  PROVE  Pipe!Next
<1>1. /\ run \in Runs /\ produced[run] \in Nat /\ produced[run] < MaxItems
      /\ produced' = [produced EXCEPT ![run] = @ + 1]
      /\ shown' = shown
  BY Ranges DEF ServiceSends, StreamOpen, events
<1> DEFINE n == produced[run] + 1
<1>2. n \in 1..MaxItems
  BY <1>1, ConstantsAssumption DEF ConstantsAssumption
<1>3. produced'[run] = n /\ \A s \in Runs : s # run => produced'[s] = produced[s]
  BY <1>1, Ranges
<1>4. Sent[run] = [k \in 1..produced[run] |-> k] /\ Sent'[run] = [k \in 1..n |-> k]
  <2>1. Sent[run] = [k \in 1..produced[run] |-> k] /\ Sent'[run] = [k \in 1..produced'[run] |-> k]
    BY <1>1 DEF Sent
  <2> QED
    BY <1>3, <2>1
<1>5. \A s \in Runs : s # run => Sent'[s] = Sent[s]
  BY <1>3 DEF Sent
<1>6. Sent = [s \in Runs |-> Sent[s]] /\ Sent' = [s \in Runs |-> Sent'[s]]
  BY DEF Sent
<1>7. Sent'[run] = Append(Sent[run], n)
  BY <1>1, <1>4
<1>8. Sent' = [Sent EXCEPT ![run] = Append(@, n)]
  BY <1>1, <1>5, <1>6, <1>7
<1>9. Shown' = Shown
  BY <1>1 DEF Shown, CommandsOf
<1>10. Pipe!Produce(run)
  BY <1>2, <1>8, <1>9 DEF Pipe!Produce
<1> QED
  BY <1>1, <1>10 DEF Pipe!Next

LEMMA PipeStep ==
  ASSUME TypeInv, OutInv, [Next]_vars
  PROVE  Pipe!Next \/ UNCHANGED <<Sent, Shown>>
<1>1. CASE HandleEvent
  BY <1>1, PipeHandle
<1>2. CASE ServiceSends
  BY <1>2, PipeService
<1>3. ASSUME produced' = produced, shown' = shown
      PROVE  UNCHANGED <<Sent, Shown>>
  BY <1>3 DEF Sent, Shown, CommandsOf
<1>4. CASE ThreadStep
  BY <1>3, <1>4
  DEF ThreadStep, ThreadOpens, ThreadLoops, ThreadReads, ThreadReadFails, ThreadPosts,
      ThreadChecks, ThreadFinishes, ThreadEnds, ThreadFails, stream, events
<1>5. CASE GuiStep /\ ~HandleEvent
  BY <1>3, <1>5
  DEF GuiStep, NothingToStop, Deactivate, Cancel, Join, ShowStopped, Closed, Arm, Spawn,
      SpawnFails, stream, events
<1>6. CASE Operator \/ ServiceEnds \/ Gone \/ UNCHANGED vars
  BY <1>3, <1>6
  DEF Operator, ClickStop, ClickStart, Close, ServiceEnds, Gone, vars, stream, events
<1> QED
  BY <1>1, <1>2, <1>4, <1>5, <1>6 DEF Next, Service

\* The MKO tab implements the pipe, for any number of subscriptions and commands
\* and any order of the events: the log shows the commands of each subscription
\* in order, each once, none skipped.
THEOREM TabImplementsPipe == Spec => PipeSpec
<1> DEFINE Inv == TypeInv /\ Owned /\ OutInv
<1>1. Init => Inv /\ Pipe!Init
  BY InitTypeInv, InitOut, PipeInit DEF Init, Owned, Alive
<1>2. Inv /\ [Next]_vars => Inv'
  BY NextTypeInv, NextOwned, NextOut DEF TypeInv
<1>3. Inv /\ [Next]_vars => [Pipe!Next]_(Pipe!pipe)
  BY PipeStep DEF Pipe!pipe
<1> QED
  BY <1>1, <1>2, <1>3, PTL DEF Spec, PipeSpec, Pipe!Spec

-----------------------------------------------------------------------------
(* How long the GUI thread can wait for the subscribe thread: not for the  *)
(* service, and not for more than a few steps.  That both threads get      *)
(* their turn is what GuiNeverFreezes adds, and TLC checks.                *)

\* The steps of the thread, at most, until it has exited, once subscribe_active
\* is false.
StepsLeft ==
  [none |-> 0, exited |-> 0, done |-> 1, failed |-> 1, finishing |-> 2, check |-> 3,
   loop |-> 4, opening |-> 5, posting |-> 5, reading |-> 6][thread]

\* A thread that is joined never waits for the service: its call is cancelled.
NotForService == gui = "join" /\ Alive => context = "cancelled"

WaitCountsDown ==
  [][gui = "join" /\ gui' = "join" /\ thread' # thread => StepsLeft' < StepsLeft]_vars

LEMMA NextNotForService ==
  ASSUME Owned, NotForService, [Next]_vars
  PROVE  NotForService'
<1> USE DEF Owned, NotForService, Alive, view, client, stream, events
<1>1. CASE Operator
  BY <1>1 DEF Operator, ClickStop, ClickStart, Close, Click, Unsubscribe
<1>2. CASE GuiStep
  BY <1>2 DEF GuiStep, NothingToStop, Deactivate, Cancel, Join, ShowStopped, Closed, Arm,
              Spawn, SpawnFails, HandleEvent
<1>3. CASE ThreadStep
  BY <1>3 DEF ThreadStep, ThreadOpens, ThreadLoops, ThreadReads, ThreadReadFails, ThreadPosts,
              ThreadChecks, ThreadFinishes, ThreadEnds, ThreadFails
<1>4. CASE Service \/ Gone \/ UNCHANGED vars
  BY <1>4 DEF Service, ServiceSends, ServiceEnds, Gone, vars
<1> QED
  BY <1>1, <1>2, <1>3, <1>4 DEF Next

LEMMA StepCountsDown ==
  ASSUME Blamed, Next, gui = "join", gui' = "join", thread' # thread
  PROVE  StepsLeft' < StepsLeft
<1>1. ~active
  BY DEF Blamed
<1>2. ThreadStep
  BY DEF Next, GuiStep, NothingToStop, Deactivate, Cancel, Join, ShowStopped, Closed, Arm,
         Spawn, SpawnFails, HandleEvent, Operator, ClickStop, ClickStart, Close, Click,
         Unsubscribe, Service, ServiceSends, ServiceEnds, Gone, vars, view, client, stream, events
<1>3. CASE ThreadOpens \/ ThreadLoops \/ ThreadReads \/ ThreadReadFails \/ ThreadPosts
  BY <1>1, <1>3 DEF ThreadOpens, ThreadLoops, ThreadReads, ThreadReadFails, ThreadPosts, StepsLeft
<1>4. CASE ThreadChecks \/ ThreadFinishes \/ ThreadEnds \/ ThreadFails
  BY <1>4 DEF ThreadChecks, ThreadFinishes, ThreadEnds, ThreadFails, StepsLeft
<1> QED
  BY <1>2, <1>3, <1>4 DEF ThreadStep

\* A click and the destructor wait for at most six steps of the subscribe
\* thread, and in none of them for the service: unsubscribe_ou_commands()
\* clears subscribe_active and cancels the call before it joins.
THEOREM WaitIsBounded == Spec => []NotForService /\ WaitCountsDown
<1>1. Init => TypeInv /\ Owned /\ Blamed /\ NotForService
  BY InitTypeInv DEF Init, Owned, Blamed, NotForService, Alive
<1>2. TypeInv /\ Owned /\ Blamed /\ NotForService /\ [Next]_vars
        => (TypeInv /\ Owned /\ Blamed /\ NotForService)'
  BY NextTypeInv, NextOwned, NextBlamed, NextNotForService DEF TypeInv
<1>3. Blamed /\ [Next]_vars =>
        [gui = "join" /\ gui' = "join" /\ thread' # thread => StepsLeft' < StepsLeft]_vars
  BY StepCountsDown
<1> QED
  BY <1>1, <1>2, <1>3, PTL DEF Spec, WaitCountsDown
=============================================================================
