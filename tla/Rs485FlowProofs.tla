--------------------------- MODULE Rs485FlowProofs ---------------------------
(***************************************************************************)
(* Theorems about what a Subscribe call gives its client, for any number   *)
(* of serial calls, any stream and any interleaving: results go from the   *)
(* driver's stream to the worker's hand, to the queue, to the client, in   *)
(* order, and the path implements ResultPipe.                              *)
(***************************************************************************)
EXTENDS Rs485SubscribeProofs, SequenceTheorems

\* The places of a call that is served: its worker exists, nothing has ended it.
Serving == {"assign", "loop"}

\* Nothing of a stream yet.
Fresh(h) ==
  pc[h] \in Early =>
    /\ source[h] = <<>> /\ read[h] = 0
    /\ queue[h] = <<>> /\ sent[h] = <<>>

Accepts(h) == pc[h] \in (Early \ {"idle"}) \union Serving => accepting[h] = TRUE

\* What the client was given.
SentIs(h) ==
  /\ Len(sent[h]) <= read[h]
  /\ \A i \in 1..Len(sent[h]) : sent[h][i] = ResultOf(h, i)

\* What waits for it while the call is served.
QueueIs(h) ==
  /\ read[h] = Len(sent[h]) + Len(queue[h]) + (IF Notifying(h) THEN 1 ELSE 0)
  /\ \A i \in 1..Len(queue[h]) : queue[h][i] = ResultOf(h, Len(sent[h]) + i)
  /\ Notifying(h) => held[h] = ResultOf(h, read[h])
  /\ worker[h] = "finishing" => read[h] + 1 = Len(source[h])
  /\ sent[h] # <<>> => sent[h][Len(sent[h])].code # "DRIVER_NOT_CONNECTED"

Flow(h) == Fresh(h) /\ Accepts(h) /\ SentIs(h) /\ (pc[h] \in Serving => QueueIs(h))

FlowInv == \A h \in Handlers : Flow(h)

\* What a step leaves of a handler.
Untouched(h) ==
  /\ pc'[h] = pc[h] /\ accepting'[h] = accepting[h]
  /\ source'[h] = source[h] /\ read'[h] = read[h]
  /\ queue'[h] = queue[h] /\ sent'[h] = sent[h]

LEMMA UntouchedFlow ==
  ASSUME NEW h \in Handlers, Flow(h), Untouched(h), pc[h] \notin Serving
  PROVE  Flow(h)'
<1>1. \A i \in Nat : ResultOf(h, i)' = ResultOf(h, i)
  BY DEF Untouched, ResultOf
<1>2. Fresh(h)' /\ Accepts(h)'
  BY DEF Untouched, Flow, Fresh, Accepts
<1>3. SentIs(h)'
  BY <1>1 DEF Untouched, Flow, SentIs, ResultOf
<1> QED
  BY <1>2, <1>3 DEF Untouched, Flow

\* A call past its loop, or its failed start, only keeps what it has given.
LEMMA PastFlow ==
  ASSUME NEW h \in Handlers, Flow(h), pc'[h] \notin Early \union Serving,
         source'[h] = source[h], read'[h] = read[h], sent'[h] = sent[h]
  PROVE  Flow(h)'
  BY DEF Flow, Fresh, Accepts, SentIs, ResultOf

LEMMA StartFlow ==
  ASSUME SafeInv, FlowInv, NEW h \in Handlers, StartStep(h)
  PROVE  Flow(h)'
<1>1. TypeOK /\ Flow(h) /\ fault = "none" /\ InFlight(h)
  BY DEF SafeInv, TypeInv, SerialInv, FlowInv, InFlight, StartStep, StartIgnored, StartTest,
     StartJoinable, StartJoin, StartJoined, StartJoinThrows, StartSetStub, StartSetCallback,
     StartSetContext, StartSetRunning, StartSpawn, StartSpawnFails, StartAssign,
     StartAssignTerminates, Join, Joined, JoinThrows
<1>2. Shape(h)
  BY <1>1 DEF SafeInv, SerialInv
<1>3. ASSUME NEW l, HandlerOnly(h, l)
      PROVE  pc'[h] = l /\ UNCHANGED <<source, read, queue, sent, accepting, worker, held>>
  BY <1>1, <1>3 DEF HandlerOnly, Goto, TypeOK, threads, stream
<1>4. CASE \/ StartTest(h) \/ StartJoinable(h) \/ StartSetStub(h) \/ StartSetCallback(h)
           \/ StartSetContext(h) \/ StartSetRunning(h)
  <2>1. PICK l \in Early \ {"idle"} : HandlerOnly(h, l) /\ pc[h] \in Early \ {"idle"}
    BY <1>4 DEF StartTest, StartJoinable, StartSetStub, StartSetCallback, StartSetContext,
                StartSetRunning, Early
  <2>2. pc'[h] \in Early \ {"idle"} /\ UNCHANGED <<source, read, queue, sent, accepting>>
    BY <1>3, <2>1
  <2>3. pc'[h] \notin Serving
    BY <2>2 DEF Early, Serving
  <2> QED
    BY <1>1, <2>1, <2>2, <2>3 DEF Flow, Fresh, Accepts, SentIs, ResultOf
<1>5. CASE StartSpawn(h)
  <2>1. /\ pc[h] = "spawn" /\ pc'[h] = "assign" /\ worker'[h] = "spawned"
        /\ UNCHANGED <<source, read, queue, sent, accepting>>
    BY <1>1, <1>5 DEF StartSpawn, Goto, TypeOK, stream
  <2>2. read'[h] = 0 /\ queue'[h] = <<>> /\ sent'[h] = <<>> /\ accepting'[h] = TRUE
    BY <1>1, <2>1 DEF Flow, Fresh, Accepts, Early
  <2>3. QueueIs(h)'
    BY <2>1, <2>2 DEF QueueIs, Notifying
  <2> QED
    BY <1>1, <2>1, <2>2, <2>3 DEF Flow, Fresh, Accepts, SentIs, Early
<1>6. CASE StartSpawnFails(h)
  <2>1. pc'[h] = "resetContext" /\ UNCHANGED <<source, read, sent>>
    BY <1>3, <1>6 DEF StartSpawnFails
  <2> QED
    BY <1>1, <2>1, PastFlow DEF Early, Serving
<1>7. CASE StartAssign(h)
  <2>1. /\ pc[h] = "assign" /\ pc'[h] = "loop"
        /\ UNCHANGED <<source, read, queue, sent, accepting, worker, held>>
    BY <1>3, <1>7 DEF StartAssign
  <2>2. QueueIs(h)'
    BY <1>1, <2>1 DEF Flow, Serving, QueueIs, Notifying, ResultOf
  <2> QED
    BY <1>1, <2>1, <2>2 DEF Flow, Fresh, Accepts, SentIs, ResultOf, Early, Serving
<1>8. ~StartIgnored(h) /\ ~StartJoin(h) /\ ~StartJoined(h) /\ ~StartJoinThrows(h)
      /\ ~StartAssignTerminates(h)
  BY <1>2 DEF Shape, Served, StartIgnored, StartJoin, StartJoined, StartJoinThrows, Join, Joined,
              JoinThrows, StartAssignTerminates
<1> QED
  BY <1>4, <1>5, <1>6, <1>7, <1>8 DEF StartStep

\* Where a call leaves its loop, and its stop().
LEMMA StopFlow ==
  ASSUME SafeInv, FlowInv, NEW h \in Handlers,
         WriteFails(h) \/ SeesCancel(h) \/ Close(h) \/ StopStep(h)
  PROVE  Flow(h)'
<1>1. Flow(h) /\ TypeOK
  BY DEF FlowInv, SafeInv, TypeInv
<1>2. /\ pc'[h] \notin Early \union Serving
      /\ UNCHANGED <<source, read, sent>>
  <2> USE <1>1 DEF TypeOK, Goto, HandlerOnly, Return, Dies, Join, Joined, JoinThrows, handler,
                   stream, Early, Serving
  <2>1. CASE WriteFails(h) \/ SeesCancel(h) \/ Close(h)
    BY <2>1 DEF WriteFails, SeesCancel, Close
  <2>2. CASE StopStep(h)
    BY <2>2 DEF StopStep, StopRunning, StopTestContext, StopCancel, StopCancelNull, StopJoinable,
       StopJoin, StopJoined, StopJoinThrows, StopResetContext, StopResetStub, StopResetCallback
  <2> QED
    BY <2>1, <2>2
<1> QED
  BY <1>1, <1>2, PastFlow

LEMMA DeliverFlow ==
  ASSUME SafeInv, FlowInv, NEW h \in Handlers, Deliver(h)
  PROVE  Flow(h)'
<1> DEFINE x == Head(queue[h])
           s == sent[h]    s2 == sent'[h]
           q == queue[h]   q2 == queue'[h]
           r == read[h]    r2 == read'[h]
<1>1. TypeOK /\ Flow(h) /\ pc[h] = "loop" /\ QueueIs(h)
  BY DEF SafeInv, TypeInv, FlowInv, Flow, Deliver, Serving
<1>2. /\ q \in Seq(Result \union {NoResult}) /\ q # <<>>
      /\ s \in Seq(Result \union {NoResult}) /\ r \in Nat
  BY <1>1 DEF TypeOK, Deliver
<1>3. /\ q2 = Tail(q) /\ s2 = Append(s, x) /\ r2 = r
      /\ pc'[h] = IF x.code = "DRIVER_NOT_CONNECTED" THEN "close" ELSE "loop"
      /\ UNCHANGED <<source, read, accepting, worker, held>>
  BY <1>1 DEF TypeOK, Deliver, Goto, threads, stream
<1>4. Notifying(h)' <=> Notifying(h)
  BY <1>3 DEF Notifying
<1>5. /\ \A i \in 1..Len(s) : s[i] = ResultOf(h, i)
      /\ r = Len(s) + Len(q) + (IF Notifying(h) THEN 1 ELSE 0)
      /\ \A i \in 1..Len(q) : q[i] = ResultOf(h, Len(s) + i)
      /\ Notifying(h) => held[h] = ResultOf(h, r)
      /\ worker[h] = "finishing" => r + 1 = Len(source[h])
  BY <1>1 DEF Flow, SentIs, QueueIs
<1>6. x = q[1]
  BY <1>2
<1>7. SentIs(h)' <=> /\ Len(s2) <= r2
                     /\ \A i \in 1..Len(s2) : s2[i] = ResultOf(h, i)
  BY <1>3 DEF SentIs, ResultOf
<1>8. QueueIs(h)' <=>
        /\ r2 = Len(s2) + Len(q2) + (IF Notifying(h)' THEN 1 ELSE 0)
        /\ \A i \in 1..Len(q2) : q2[i] = ResultOf(h, Len(s2) + i)
        /\ Notifying(h)' => held'[h] = ResultOf(h, r2)
        /\ worker'[h] = "finishing" => r2 + 1 = Len(source'[h])
        /\ s2 # <<>> => s2[Len(s2)].code # "DRIVER_NOT_CONNECTED"
  BY <1>3 DEF QueueIs, ResultOf
<1>9. Fresh(h)' /\ Accepts(h)'
  BY <1>1, <1>3 DEF Flow, Fresh, Accepts, Early, Serving
<1>10. pc'[h] \in Serving => x.code # "DRIVER_NOT_CONNECTED"
  BY <1>3 DEF Serving
<1>11. Notifying(h)' => held'[h] = ResultOf(h, r2)
  BY <1>3, <1>4, <1>5
<1>12. worker'[h] = "finishing" => r2 + 1 = Len(source'[h])
  BY <1>3, <1>5
<1> HIDE DEF x, s, s2, q, q2, r, r2
<1>13. /\ Len(s2) = Len(s) + 1 /\ Len(q2) = Len(q) - 1 /\ Len(q) >= 1
       /\ Len(s) \in Nat /\ Len(q) \in Nat /\ s2 # <<>>
  <2>1. s2 = Append(s, x) /\ s \in Seq(Result \union {NoResult})
    BY <1>2, <1>3
  <2>2. q2 = Tail(q) /\ q # <<>> /\ q \in Seq(Result \union {NoResult})
    BY <1>2, <1>3
  <2>3. Len(s2) = Len(s) + 1 /\ Len(s) \in Nat
    BY ONLY <2>1
  <2>4. s2 # <<>>
    BY ONLY <2>1
  <2>5. Len(q) \in Nat /\ Len(q) >= 1
    BY ONLY <2>2
  <2>6. Len(q2) = Len(q) - 1
    BY ONLY <2>2
  <2> QED
    BY ONLY <2>3, <2>4, <2>5, <2>6
<1>14. /\ \A i \in 1..Len(s) : s2[i] = s[i]
       /\ s2[Len(s) + 1] = x
       /\ \A i \in 1..Len(q2) : q2[i] = q[i + 1] /\ i + 1 \in 1..Len(q)
  <2>1. s2 = Append(s, x) /\ s \in Seq(Result \union {NoResult})
    BY <1>2, <1>3
  <2>2. q2 = Tail(q) /\ q # <<>> /\ q \in Seq(Result \union {NoResult})
    BY <1>2, <1>3
  <2>3. \A i \in 1..Len(s) : s2[i] = s[i]
    BY ONLY <2>1
  <2>4. s2[Len(s) + 1] = x
    BY ONLY <2>1
  <2>5. \A i \in 1..Len(q2) : q2[i] = q[i + 1]
    BY ONLY <2>2
  <2>6. \A i \in 1..Len(q2) : i + 1 \in 1..Len(q)
    BY ONLY <1>13
  <2> QED
    BY ONLY <2>3, <2>4, <2>5, <2>6
<1>15. r2 = Len(s2) + Len(q2) + (IF Notifying(h)' THEN 1 ELSE 0)
  <2>1. Len(s2) + Len(q2) = Len(s) + Len(q)
    BY <1>13
  <2>2. r2 = r /\ r = Len(s) + Len(q) + (IF Notifying(h) THEN 1 ELSE 0)
    BY <1>3, <1>5
  <2> QED
    BY <1>4, <2>1, <2>2
<1>16. Len(s2) <= r2
  BY <1>13, <1>15, <1>2, <1>3
<1>17. x = ResultOf(h, Len(s) + 1)
  BY <1>5, <1>6, <1>13
<1>18. ASSUME NEW i \in 1..Len(s2) PROVE s2[i] = ResultOf(h, i)
  <2>1. CASE i \in 1..Len(s)
    BY <1>5, <1>14, <2>1
  <2>2. CASE i = Len(s) + 1
    BY <1>14, <1>17, <2>2
  <2>3. i \in 1..Len(s) \/ i = Len(s) + 1
    BY <1>13
  <2> QED
    BY <2>1, <2>2, <2>3
<1>19. ASSUME NEW i \in 1..Len(q2) PROVE q2[i] = ResultOf(h, Len(s2) + i)
  <2>1. i + 1 \in 1..Len(q) /\ q2[i] = q[i + 1]
    BY <1>14
  <2>2. Len(s) + (i + 1) = Len(s2) + i /\ Len(s2) + i \in Nat
    BY <1>13
  <2> QED
    BY <1>5, <2>1, <2>2
<1>20. pc'[h] \in Serving => s2[Len(s2)].code # "DRIVER_NOT_CONNECTED"
  BY <1>10, <1>13, <1>14
<1>21. SentIs(h)'
  BY <1>7, <1>16, <1>18
<1>22. pc'[h] \in Serving => QueueIs(h)'
  BY <1>8, <1>11, <1>12, <1>15, <1>19, <1>20
<1> QED
  BY <1>9, <1>21, <1>22 DEF Flow

\* What a step of the worker of a serial call comes to.
Quiet(w) ==
  /\ UNCHANGED <<read, queue, held>>
  /\ \/ worker[w] = "spawned" /\ worker'[w] = "subscribing"
     \/ worker[w] = "subscribing" /\ worker'[w] = "loop"
     \/ worker[w] = "exiting" /\ worker'[w] = "exited"
     \/ worker[w] = "loop" /\ running /\ worker'[w] = "reading"
     \/ /\ worker[w] = "finishing" /\ worker'[w] = "exiting"
        /\ tried \/ source[w][Len(source[w])] = "OK"
     \/ worker[w] = "testing" /\ worker'[w] = "calling"
     \/ worker[w] = "calling" /\ worker'[w] = "pushing"

Stops(w) ==
  /\ UNCHANGED <<read, queue, held>>
  /\ worker'[w] = "finishing"
  /\ \/ worker[w] = "reading" /\ HasNext(w) /\ Next_(w) \in Statuses
     \/ worker[w] = "reading" /\ tried
     \/ worker[w] = "loop" /\ ~running

Pushes(w) ==
  /\ worker[w] = "pushing" /\ worker'[w] = AfterNotify(w) /\ read' = read
  /\ queue' = IF accepting[w] THEN [queue EXCEPT ![w] = Append(@, held[w])] ELSE queue

LEMMA SerialWorker ==
  ASSUME SafeInv, NEW w \in Handlers, WorkerStep(w)
  PROVE  \/ Quiet(w) \/ Stops(w) \/ Pushes(w)
         \/ WorkerRead(w) \/ WorkerFinishError(w)
<1> USE DEF members, call, threads, stream, handler
<1>0. TypeInv /\ TypeOK /\ SerialInv /\ worker[w] \notin {"none", "exited"}
  BY WorkerFrame DEF SafeInv, TypeInv
<1>1. /\ pc[w] \in Served \union {"assign"} /\ Shape(w)
      /\ stub /\ callback = w /\ context = w
      /\ uses[w] \in {w, NoHandler} /\ target[w] \in {w, NoHandler}
  BY <1>0, WorkerServes
<1>2. /\ worker \in [Handlers -> WorkerPlaces]
      /\ uses[w] = NoHandler <=> worker[w] \in {"none", "spawned", "subscribing", "exited"}
      /\ target[w] \in Handlers <=> worker[w] = "pushing"
  BY <1>0 DEF TypeOK
<1>3. called => worker[w] \notin {"none", "spawned", "subscribing"}
  BY <1>1 DEF Shape
<1>4. w # NoHandler /\ NoHandler \notin Handlers /\ pc[w] # "returned"
  BY <1>1, ConstantsAssumption DEF ConstantsAssumption, Served
<1>5. /\ ~WorkerNullStub(w) /\ ~WorkerBadContext(w) /\ ~WorkerDrops(w)
      /\ ~WorkerContextFreed(w) /\ ~WorkerPushDangling(w)
  <2>1. ~WorkerNullStub(w) /\ ~WorkerDrops(w)
    BY <1>1, <1>4 DEF WorkerNullStub, WorkerDrops
  <2>2. ~WorkerBadContext(w)
    BY <1>1, <1>3, <1>4 DEF WorkerBadContext
  <2>3. ~WorkerContextFreed(w)
    BY <1>1, <1>2 DEF WorkerContextFreed
  <2>4. ~WorkerPushDangling(w)
    BY <1>1, <1>2, <1>4 DEF WorkerPushDangling
  <2> QED
    BY <2>1, <2>2, <2>3, <2>4
<1>6. CASE WorkerTakesStub(w) \/ WorkerSubscribe(w) \/ WorkerExits(w)
           \/ WorkerTestsCallback(w) \/ WorkerCalls(w)
  BY <1>2, <1>6 DEF WorkerTakesStub, WorkerSubscribe, WorkerExits,
     WorkerTestsCallback, WorkerCalls, WorkerGoes, Quiet
<1>7. CASE WorkerLoop(w)
  BY <1>2, <1>7 DEF WorkerLoop, WorkerGoes, Quiet, Stops
<1>8. CASE WorkerReadFails(w)
  BY <1>1, <1>2, <1>8 DEF WorkerReadFails, WorkerGoes, CallCancelled, Stops
<1>10. CASE WorkerFinishSilently(w)
  <2>1. /\ UNCHANGED <<read, queue, held>> /\ worker[w] = "finishing" /\ worker'[w] = "exiting"
        /\ CallCancelled(w) \/ source[w][Len(source[w])] = "OK"
    BY <1>2, <1>10 DEF WorkerFinishSilently, WorkerGoes
  <2>2. uses[w] = context
    BY <1>1, <1>2, <2>1
  <2> QED
    BY <2>1, <2>2 DEF CallCancelled, Quiet
<1>9. CASE WorkerPush(w)
  <2>1. target[w] = w
    BY <1>1, <1>2, <1>4, <1>9 DEF WorkerPush
  <2> QED
    BY <1>2, <1>9, <2>1 DEF WorkerPush, Pushes
<1> QED
  BY <1>5, <1>6, <1>7, <1>8, <1>9, <1>10 DEF WorkerStep

\* A worker step while the call it serves is in its loop.
LEMMA ServedFlow ==
  ASSUME SafeInv, FlowInv, NEW h \in Handlers, pc[h] \in Serving, WorkerStep(h)
  PROVE  Flow(h)'
<1> DEFINE s == sent[h]
           q == queue[h]   q2 == queue'[h]
           r == read[h]    r2 == read'[h]
<1>1. TypeOK /\ TypeInv /\ SerialInv /\ StreamInv /\ Flow(h) /\ QueueIs(h)
  BY DEF SafeInv, TypeInv, FlowInv, Flow
<1>2. /\ q \in Seq(Result \union {NoResult}) /\ s \in Seq(Result \union {NoResult})
      /\ r \in Nat /\ source[h] \in Seq(Results \union Statuses)
  BY <1>1 DEF TypeOK
<1>3. UNCHANGED <<source, pc, accepting, sent>> /\ worker[h] \notin {"none", "exited"}
  BY <1>1, WorkerFrame
<1>4. ~tried /\ (running \/ worker[h] = "exited") /\ accepting[h] = TRUE
  BY <1>1, <1>3, WorkerServes DEF Shape, GoesOn, Serving, Cancelled, Flow, Accepts
<1>5. /\ Len(s) <= r
      /\ \A i \in 1..Len(s) : s[i] = ResultOf(h, i)
      /\ r = Len(s) + Len(q) + (IF Notifying(h) THEN 1 ELSE 0)
      /\ \A i \in 1..Len(q) : q[i] = ResultOf(h, Len(s) + i)
      /\ Notifying(h) => held[h] = ResultOf(h, r)
      /\ worker[h] = "finishing" => r + 1 = Len(source[h])
      /\ s # <<>> => s[Len(s)].code # "DRIVER_NOT_CONNECTED"
  BY <1>1 DEF Flow, SentIs, QueueIs
<1>6. SentIs(h)' <=> Len(s) <= r2
  BY <1>3, <1>5 DEF SentIs, ResultOf
<1>7. QueueIs(h)' <=>
        /\ r2 = Len(s) + Len(q2) + (IF Notifying(h)' THEN 1 ELSE 0)
        /\ \A i \in 1..Len(q2) : q2[i] = ResultOf(h, Len(s) + i)
        /\ Notifying(h)' => held'[h] = ResultOf(h, r2)
        /\ worker'[h] = "finishing" => r2 + 1 = Len(source[h])
  BY <1>3, <1>5 DEF QueueIs, ResultOf
<1>8. ASSUME SentIs(h)', QueueIs(h)' PROVE Flow(h)'
  BY <1>1, <1>3, <1>8 DEF Flow, Fresh, Accepts, Serving, Early
<1>9. CASE Quiet(h)
  <2>1. /\ q2 = q /\ r2 = r /\ held'[h] = held[h]
        /\ Notifying(h)' <=> Notifying(h)
        /\ worker'[h] # "finishing"
    BY <1>9 DEF Quiet, Notifying
  <2> QED
    BY <1>5, <1>6, <1>7, <1>8, <2>1
<1>10. CASE Stops(h)
  <2>1. /\ q2 = q /\ r2 = r /\ ~Notifying(h) /\ ~Notifying(h)'
        /\ HasNext(h) /\ Next_(h) \in Statuses
    BY <1>3, <1>4, <1>10 DEF Stops, Notifying
  <2>2. read[h] + 1 = Len(source[h])
    BY <1>1, <1>2, <2>1 DEF StreamInv, StatusLast, HasNext, Next_
  <2> QED
    BY <1>5, <1>6, <1>7, <1>8, <2>1, <2>2
<1>11. CASE WorkerRead(h)
  <2>1. /\ q2 = q /\ r2 = r + 1 /\ ~Notifying(h) /\ worker'[h] = "testing"
        /\ held'[h] = ResultOf(h, r + 1)
    BY <1>1, <1>11 DEF WorkerRead, handler, Notifying, TypeOK
  <2>2. Notifying(h)' /\ worker'[h] # "finishing"
    BY <2>1 DEF Notifying
  <2> HIDE DEF s, q, q2, r, r2
  <2>3. Len(s) \in Nat /\ Len(q) \in Nat
    BY <1>2
  <2> QED
    BY <1>2, <1>5, <1>6, <1>7, <1>8, <2>1, <2>2, <2>3
<1>12. CASE WorkerFinishError(h)
  <2>1. /\ q2 = q /\ r2 = Len(source[h]) /\ ~Notifying(h) /\ worker[h] = "finishing"
        /\ worker'[h] = "testing" /\ held'[h] = ResultOf(h, Len(source[h]))
    BY <1>1, <1>12 DEF WorkerFinishError, handler, Notifying, TypeOK
  <2>2. Notifying(h)' /\ worker'[h] # "finishing" /\ r2 = r + 1
    BY <1>5, <2>1 DEF Notifying
  <2> HIDE DEF s, q, q2, r, r2
  <2>3. Len(s) \in Nat /\ Len(q) \in Nat
    BY <1>2
  <2> QED
    BY <1>2, <1>5, <1>6, <1>7, <1>8, <2>1, <2>2, <2>3
<1>13. CASE Pushes(h)
  <2>1. q2 = Append(q, held[h]) /\ r2 = r /\ Notifying(h)
    BY <1>1, <1>4, <1>13 DEF Pushes, Notifying, TypeOK
  <2>2. worker'[h] \in {"loop", "exiting"}
    BY <1>13 DEF Pushes, AfterNotify
  <2>3. ~Notifying(h)' /\ worker'[h] # "finishing"
    BY <2>2 DEF Notifying
  <2> HIDE DEF s, q, q2, r, r2
  <2>4. /\ Len(s) \in Nat /\ Len(q) \in Nat /\ Len(q2) = Len(q) + 1
        /\ q2[Len(q) + 1] = held[h] /\ \A i \in 1..Len(q) : q2[i] = q[i]
    BY <1>2, <2>1
  <2>5. r = Len(s) + (Len(q) + 1) /\ held[h] = ResultOf(h, r)
    BY <1>5, <2>1, <2>4
  <2>6. \A i \in 1..Len(q2) : q2[i] = ResultOf(h, Len(s) + i)
    <3>1. \A i \in 1..Len(q) : q[i] = ResultOf(h, Len(s) + i)
      BY ONLY <1>5
    <3>2. 1..Len(q2) = (1..Len(q)) \union {Len(q) + 1}
      BY ONLY <2>4
    <3>3. q2[Len(q) + 1] = ResultOf(h, Len(s) + (Len(q) + 1))
      BY ONLY <2>4, <2>5
    <3> QED
      BY ONLY <2>4, <3>1, <3>2, <3>3
  <2> QED
    BY <1>2, <1>5, <1>6, <1>7, <1>8, <2>1, <2>3, <2>4, <2>5, <2>6
<1> QED
  BY <1>9, <1>10, <1>11, <1>12, <1>13, SerialWorker

LEMMA WorkerFlow ==
  ASSUME SafeInv, FlowInv, NEW h \in Handlers, WorkerStep(h)
  PROVE  FlowInv'
<1>1. TypeOK /\ TypeInv /\ SerialInv
  BY DEF SafeInv, TypeInv
<1>2. /\ pc[h] \in Served \union {"assign"}
      /\ \A g \in Handlers : g # h => ~InFlight(g)
  BY <1>1, WorkerFrame, WorkerServes
<1>3. /\ UNCHANGED <<source, pc, accepting, sent>>
      /\ \A g \in Handlers : g # h => read'[g] = read[g]
  BY <1>1, WorkerFrame
<1>4. queue' = queue \/ queue' = [queue EXCEPT ![h] = Append(queue[h], held[h])]
  BY SerialWorker DEF Quiet, Stops, Pushes, WorkerRead, WorkerFinishError, handler
<1>5. read[h] <= read'[h] /\ read[h] \in Nat /\ read'[h] \in Nat
  <2>1. read' \in {read, [read EXCEPT ![h] = @ + 1], [read EXCEPT ![h] = Len(source[h])]}
    BY SerialWorker DEF Quiet, Stops, Pushes, WorkerRead, WorkerFinishError
  <2>2. /\ read \in [Handlers -> Nat] /\ read[h] <= Len(source[h])
        /\ Len(source[h]) \in Nat
    BY <1>1 DEF TypeOK
  <2> QED
    BY <2>1, <2>2
<1>6. ASSUME NEW g \in Handlers, g # h PROVE Flow(g)'
  <2>1. Untouched(g)
    BY <1>1, <1>3, <1>4, <1>6 DEF Untouched, TypeOK
  <2>2. pc[g] \notin Serving /\ Flow(g)
    BY <1>2, <1>6 DEF InFlight, FlowInv, Serving
  <2> QED
    BY <2>1, <2>2, UntouchedFlow
<1>7. CASE pc[h] \in Serving
  BY <1>6, <1>7, ServedFlow DEF FlowInv
<1>8. CASE pc[h] \notin Serving
  <2>1. Len(sent[h]) <= read[h] /\ \A i \in 1..Len(sent[h]) : sent[h][i] = ResultOf(h, i)
    BY DEF FlowInv, Flow, SentIs
  <2>2. Len(sent[h]) \in Nat
    BY <1>1 DEF TypeOK
  <2>3. Len(sent[h]) <= read'[h]
    BY <1>5, <2>1, <2>2
  <2>4. SentIs(h)'
    BY <1>3, <2>1, <2>3 DEF SentIs, ResultOf
  <2>5. pc[h] \notin Early
    BY <1>2 DEF Served, Early
  <2>6. Flow(h)'
    BY <1>3, <1>8, <2>4, <2>5 DEF Flow, Fresh, Accepts
  <2> QED
    BY <1>6, <2>6 DEF FlowInv
<1> QED
  BY <1>7, <1>8

\* What the driver appends does not change what was read.
LEMMA EnvironmentFlow ==
  ASSUME SafeInv, FlowInv, Environment
  PROVE  FlowInv'
<1>1. TypeOK /\ TypeInv /\ SerialInv
  BY DEF SafeInv, TypeInv
<1>2. ASSUME NEW h \in Handlers, Arrive(h) PROVE FlowInv'
  <2>1. /\ pc[h] = "idle" /\ pc'[h] = "start" /\ accepting'[h] = TRUE
        /\ UNCHANGED <<source, read, queue, sent, worker, held>>
    BY <1>1, <1>2 DEF Arrive, Goto, TypeOK, threads, stream
  <2>2. Flow(h)'
    <3>1. Flow(h)
      BY DEF FlowInv
    <3> QED
      BY <2>1, <3>1 DEF Flow, Fresh, Accepts, SentIs, ResultOf, Early, Serving
  <2>3. ASSUME NEW g \in Handlers, g # h PROVE Flow(g)'
    <3>1. pc'[g] = pc[g] /\ accepting'[g] = accepting[g] /\ Flow(g)
      BY <1>1, <1>2, <2>3 DEF Arrive, Goto, TypeOK, FlowInv
    <3> QED
      BY <2>1, <3>1 DEF Flow, Fresh, Accepts, SentIs, QueueIs, Notifying, ResultOf
  <2> QED
    BY <2>2, <2>3 DEF FlowInv
<1>3. ASSUME NEW h \in Handlers, ClientCancels(h) PROVE FlowInv'
  <2>1. UNCHANGED <<source, read, queue, sent, worker, held, pc, accepting>>
    BY <1>3 DEF ClientCancels, threads, stream
  <2>2. \A g \in Handlers :
          /\ Fresh(g)' = Fresh(g) /\ Accepts(g)' = Accepts(g)
          /\ SentIs(g)' = SentIs(g)
    BY <2>1 DEF Fresh, Accepts, SentIs, ResultOf
  <2>3. \A g \in Handlers : QueueIs(g)' = QueueIs(g)
    BY <2>1 DEF QueueIs, Notifying, ResultOf
  <2> QED
    BY <2>1, <2>2, <2>3 DEF FlowInv, Flow
<1>4. ASSUME NEW h \in Handlers, NEW m \in Results \union Statuses, StreamOpen(h),
             source' = [source EXCEPT ![h] = Append(@, m)],
             UNCHANGED <<threads, read, handler>>
      PROVE  FlowInv'
  <2>1. /\ pc[h] \in Served \union {"assign"}
        /\ \A g \in Handlers : g # h => ~InFlight(g)
    BY <1>1, <1>4, WorkerServes DEF StreamOpen
  <2>2. /\ worker[h] # "finishing"
        /\ UNCHANGED <<read, queue, sent, worker, held, pc, accepting>>
    BY <1>4 DEF StreamOpen, threads, handler
  <2>3. ASSUME NEW g \in Handlers, g # h PROVE Flow(g)'
    <3>1. source'[g] = source[g] /\ Flow(g)
      BY <1>1, <1>4, <2>3 DEF TypeOK, FlowInv
    <3>2. Untouched(g) /\ pc[g] \notin Serving
      BY <2>1, <2>2, <2>3, <3>1 DEF Untouched, InFlight, Serving
    <3> QED
      BY <3>1, <3>2, UntouchedFlow
  <2>4. Flow(h)'
    <3>1. Flow(h) /\ read[h] \in Nat /\ read[h] <= Len(source[h])
      BY <1>1 DEF FlowInv, TypeOK
    <3>2. source[h] \in Seq(Results \union Statuses)
      BY <1>1 DEF TypeOK
    <3>3. \A i \in 1..Len(source[h]) : source'[h][i] = source[h][i]
      BY <1>1, <1>4, <2>2, <3>2 DEF TypeOK
    <3>4. \A i \in 1..read[h] : source'[h][i] = source[h][i]
      BY <3>1, <3>2, <3>3
    <3>5. \A i \in 1..read[h] : ResultOf(h, i)' = ResultOf(h, i)
      BY <3>4 DEF ResultOf
    <3>6. SentIs(h)'
      <4>1. Len(sent[h]) \in Nat /\ Len(sent[h]) <= read[h]
        BY <1>1, <3>1 DEF TypeOK, Flow, SentIs
      <4>2. \A i \in 1..Len(sent[h]) : sent[h][i] = ResultOf(h, i)'
        BY <3>1, <3>5, <4>1 DEF Flow, SentIs
      <4> QED
        BY <2>2, <4>1, <4>2 DEF SentIs
    <3>7. ASSUME pc[h] \in Serving PROVE QueueIs(h)'
      <4> DEFINE s == Len(sent[h])  q == Len(queue[h])  r == read[h]
      <4>1. QueueIs(h)
        BY <3>1, <3>7 DEF Flow
      <4>2. s \in Nat /\ q \in Nat /\ r \in Nat
        BY <1>1 DEF TypeOK
      <4>3. /\ r = s + q + (IF Notifying(h) THEN 1 ELSE 0)
            /\ \A i \in 1..q : queue[h][i] = ResultOf(h, s + i)
            /\ Notifying(h) => held[h] = ResultOf(h, r)
            /\ sent[h] # <<>> => sent[h][s].code # "DRIVER_NOT_CONNECTED"
        BY <4>1 DEF QueueIs
      <4>4. QueueIs(h)' <=>
              /\ \A i \in 1..q : queue[h][i] = [from |-> h, n |-> s + i,
                                               code |-> CodeOf(source'[h][s + i])]
              /\ Notifying(h) => held[h] = [from |-> h, n |-> r, code |-> CodeOf(source'[h][r])]
        BY <2>2, <4>3 DEF QueueIs, Notifying, ResultOf
      <4> HIDE DEF s, q, r
      <4>5. \A i \in 1..q : s + i \in 1..r
        BY <4>2, <4>3
      <4>6. Notifying(h) => r \in 1..r
        BY <4>2, <4>3
      <4>7. \A i \in 1..r : source'[h][i] = source[h][i]
        BY <3>4 DEF r
      <4>8. \A i \in 1..q : queue[h][i] = [from |-> h, n |-> s + i,
                                          code |-> CodeOf(source'[h][s + i])]
        BY <4>3, <4>5, <4>7 DEF ResultOf
      <4> QED
        BY <4>3, <4>4, <4>6, <4>7, <4>8 DEF ResultOf
    <3>8. Fresh(h)'
      BY <2>1, <2>2 DEF Fresh, Early, Served
    <3>9. Accepts(h)'
      BY <2>2, <3>1 DEF Flow, Accepts
    <3> QED
      BY <2>2, <3>6, <3>7, <3>8, <3>9 DEF Flow
  <2> QED
    BY <2>3, <2>4 DEF FlowInv
<1> QED
  BY <1>2, <1>3, <1>4 DEF Environment, DriverSends, DriverEnds

\* A step of a handler finds its call in flight, and leaves the others alone.
LEMMA HandlerUntouched ==
  ASSUME TypeOK, NEW h \in Handlers, HandlerStep(h)
  PROVE  InFlight(h) /\ \A g \in Handlers : g # h => Untouched(g)
<1>1. InFlight(h)
  <2> USE DEF InFlight, Join, Joined, JoinThrows
  <2>1. CASE StartStep(h)
    BY <2>1 DEF StartStep, StartIgnored, StartTest, StartJoinable, StartJoin, StartJoined,
       StartJoinThrows, StartSetStub, StartSetCallback, StartSetContext, StartSetRunning,
       StartSpawn, StartSpawnFails, StartAssign, StartAssignTerminates
  <2>2. CASE LoopStep(h)
    BY <2>2 DEF LoopStep, Deliver, WriteFails, SeesCancel, Close
  <2>3. CASE StopStep(h)
    BY <2>3 DEF StopStep, StopRunning, StopTestContext, StopCancel, StopCancelNull,
       StopJoinable, StopJoin, StopJoined, StopJoinThrows, StopResetContext, StopResetStub,
       StopResetCallback
  <2> QED
    BY <2>1, <2>2, <2>3 DEF HandlerStep
<1>2. /\ UNCHANGED <<read, source>>
      /\ pc' = [pc EXCEPT ![h] = pc'[h]]
      /\ accepting' = accepting \/ accepting' = [accepting EXCEPT ![h] = FALSE]
  BY HandlerFrame
<1>3. /\ queue' \in {queue, [queue EXCEPT ![h] = <<>>], [queue EXCEPT ![h] = Tail(queue[h])]}
      /\ sent' \in {sent, [sent EXCEPT ![h] = Append(sent[h], Head(queue[h]))]}
  BY HandlerFrame
<1>4. ASSUME NEW g \in Handlers, g # h PROVE Untouched(g)
  BY <1>2, <1>3, <1>4 DEF Untouched, TypeOK
<1> QED
  BY <1>1, <1>4

LEMMA NextFlow ==
  ASSUME SafeInv, FlowInv, [Next]_vars
  PROVE  FlowInv'
<1>1. CASE \E h \in Handlers : HandlerStep(h)
  <2>1. PICK h \in Handlers : HandlerStep(h)
    BY <1>1
  <2>2. Flow(h)'
    BY <2>1, StartFlow, StopFlow, DeliverFlow DEF HandlerStep, LoopStep
  <2>3. ASSUME NEW g \in Handlers, g # h PROVE Flow(g)'
    <3>1. Untouched(g) /\ InFlight(h)
      BY <2>1, <2>3, HandlerUntouched DEF SafeInv, TypeInv
    <3>2. pc[g] \notin Serving
      BY <2>3, <3>1, Alone DEF SafeInv, InFlight, Serving
    <3>3. Flow(g)
      BY DEF FlowInv
    <3> QED
      BY <3>1, <3>2, <3>3, UntouchedFlow
  <2> QED
    BY <2>2, <2>3 DEF FlowInv
<1>2. CASE UNCHANGED vars
  <2>1. UNCHANGED <<source, read, queue, sent, worker, held, pc, accepting>>
    BY <1>2 DEF vars, threads, stream, handler
  <2>2. \A g \in Handlers :
          /\ Fresh(g)' = Fresh(g) /\ Accepts(g)' = Accepts(g)
          /\ SentIs(g)' = SentIs(g)
    BY <2>1 DEF Fresh, Accepts, SentIs, ResultOf
  <2>3. \A g \in Handlers : QueueIs(g)' = QueueIs(g)
    BY <2>1 DEF QueueIs, Notifying, ResultOf
  <2> QED
    BY <2>1, <2>2, <2>3 DEF FlowInv, Flow
<1> QED
  BY <1>1, <1>2, WorkerFlow, EnvironmentFlow DEF Next, Stopped

LEMMA InitFlow == Init => FlowInv
<1> SUFFICES ASSUME Init, NEW h \in Handlers PROVE Flow(h)
  BY DEF FlowInv
<1>1. /\ pc[h] = "idle" /\ source[h] = <<>> /\ read[h] = 0
      /\ queue[h] = <<>> /\ sent[h] = <<>>
  BY DEF Init
<1>2. Len(sent[h]) = 0 /\ \A i \in 1..Len(sent[h]) : FALSE
  BY <1>1
<1> QED
  BY <1>1, <1>2 DEF Flow, Fresh, Accepts, SentIs, Serving
\* The pieces of the path, put end to end, are the results read so far.
LEMMA FlowIsNothingLost ==
  ASSUME SafeInv, FlowInv
  PROVE  NothingLost
<1> SUFFICES ASSUME NEW h \in Handlers, pc[h] = "loop"
             PROVE  sent[h] \o queue[h] \o Held(h) = [n \in 1..read[h] |-> ResultOf(h, n)]
  BY DEF NothingLost
<1> DEFINE R == Result \union {NoResult}
           s == sent[h]  q == queue[h]  k == Held(h)  r == read[h]
           all == [n \in 1..r |-> ResultOf(h, n)]
<1>1. TypeOK /\ Flow(h) /\ QueueIs(h)
  BY DEF SafeInv, TypeInv, FlowInv, Flow, Serving
<1>2. s \in Seq(R) /\ q \in Seq(R) /\ r \in Nat /\ held[h] \in R
  BY <1>1 DEF TypeOK
<1>4. k = IF Notifying(h) THEN <<held[h]>> ELSE <<>>
  BY DEF Held
<1>5. /\ Notifying(h) => k = <<held[h]>>
      /\ ~Notifying(h) => k = <<>>
  BY <1>4
<1> HIDE DEF k
<1>6. k \in Seq(R) /\ Len(k) = (IF Notifying(h) THEN 1 ELSE 0)
  <2>1. <<held[h]>> \in Seq(R) /\ Len(<<held[h]>>) = 1
    BY <1>2
  <2>2. <<>> \in Seq(R) /\ Len(<<>>) = 0
    OBVIOUS
  <2>3. CASE Notifying(h)
    BY <1>5, <2>1, <2>3
  <2>4. CASE ~Notifying(h)
    BY <1>5, <2>2, <2>4
  <2> QED
    BY <2>3, <2>4
<1>7. all \in Seq(R) /\ Len(all) = r /\ \A n \in 1..r : all[n] = ResultOf(h, n)
  <2>1. \A n \in 1..r : ResultOf(h, n) \in R
    BY <1>2, ResultOfType
  <2> QED
    BY <1>2, <2>1
<1>8. /\ \A i \in 1..Len(s) : s[i] = ResultOf(h, i)
      /\ r = Len(s) + Len(q) + Len(k)
      /\ \A i \in 1..Len(q) : q[i] = ResultOf(h, Len(s) + i)
      /\ Notifying(h) => held[h] = ResultOf(h, r)
  BY <1>1, <1>6 DEF Flow, SentIs, QueueIs
<1>9. \A i \in 1..Len(k) : k[i] = ResultOf(h, r)
  <2>1. CASE Notifying(h)
    <3>1. Len(k) = 1 /\ k[1] = held[h]
      BY <1>5, <2>1
    <3>2. held[h] = ResultOf(h, r)
      BY <1>8, <2>1
    <3> QED
      BY <3>1, <3>2
  <2>2. CASE ~Notifying(h)
    <3>1. Len(k) = 0
      BY <1>5, <2>2
    <3> QED
      BY <3>1
  <2> QED
    BY <2>1, <2>2
<1> HIDE DEF R, s, q, k, r, all
<1>10. Len(s) \in Nat /\ Len(q) \in Nat /\ Len(k) \in {0, 1}
  BY <1>2, <1>6
<1> DEFINE sq == s \o q
<1>11. /\ sq \in Seq(R) /\ Len(sq) = Len(s) + Len(q)
       /\ \A i \in 1..Len(s) + Len(q) :
            sq[i] = IF i <= Len(s) THEN s[i] ELSE q[i - Len(s)]
  BY <1>2, ConcatProperties
<1> HIDE DEF sq
<1>12. \A i \in 1..Len(sq) : sq[i] = ResultOf(h, i)
  <2> SUFFICES ASSUME NEW i \in 1..Len(sq) PROVE sq[i] = ResultOf(h, i)
    OBVIOUS
  <2>1. CASE i <= Len(s)
    BY <1>8, <1>10, <1>11, <2>1
  <2>2. CASE ~(i <= Len(s))
    <3>1. i - Len(s) \in 1..Len(q) /\ Len(s) + (i - Len(s)) = i
      BY <1>10, <1>11, <2>2
    <3> QED
      BY <1>8, <1>10, <1>11, <2>2, <3>1
  <2> QED
    BY <2>1, <2>2
<1>13. /\ sq \o k \in Seq(R) /\ Len(sq \o k) = Len(sq) + Len(k)
       /\ \A i \in 1..Len(sq) + Len(k) :
            (sq \o k)[i] = IF i <= Len(sq) THEN sq[i] ELSE k[i - Len(sq)]
  <2>1. sq \in Seq(R) /\ k \in Seq(R)
    BY <1>6, <1>11
  <2> QED
    BY ONLY <2>1, ConcatProperties
<1>14. \A i \in 1..Len(sq \o k) : (sq \o k)[i] = all[i]
  <2> SUFFICES ASSUME NEW i \in 1..Len(sq \o k) PROVE (sq \o k)[i] = all[i]
    OBVIOUS
  <2>1. i \in 1..r /\ Len(sq) \in Nat /\ r = Len(sq) + Len(k)
    BY <1>8, <1>10, <1>11, <1>13
  <2>2. CASE i <= Len(sq)
    BY <1>7, <1>12, <1>13, <2>1, <2>2
  <2>3. CASE ~(i <= Len(sq))
    <3>1. Len(k) = 1 /\ i = r /\ i - Len(sq) = 1
      BY <1>10, <1>13, <2>1, <2>3
    <3> QED
      BY <1>7, <1>9, <1>13, <2>1, <2>3, <3>1
  <2> QED
    BY <2>2, <2>3
<1>15. sq \o k = all
  BY <1>7, <1>8, <1>11, <1>13, <1>14, SeqEqual
<1> QED
  BY <1>15 DEF sq, s, q, k, r, all
\* For any number of serial calls and any stream: between the driver's stream
\* and the client nothing is lost, doubled or reordered while a call is served.
THEOREM SerialNothingLost == Callers = "serial" => (Spec => []NothingLost)
<1> SUFFICES ASSUME Callers = "serial" PROVE Spec => []NothingLost
  OBVIOUS
<1>1. Init => SafeInv /\ FlowInv
  BY InitSafe, InitFlow
<1>2. SafeInv /\ FlowInv /\ [Next]_vars => SafeInv' /\ FlowInv'
  BY NextSafe, NextFlow
<1>3. SafeInv /\ FlowInv => NothingLost
  BY FlowIsNothingLost
<1> QED
  BY <1>1, <1>2, <1>3, PTL DEF Spec
-----------------------------------------------------------------------------
(* What a client that stays is told before its call ends.  That the call   *)
(* ends is what DriverLossEndsCall adds, and TLC checks.                   *)

Past(h) == pc[h] \notin Early \union Serving

\* The resets that end stop(), and a start() that failed.
Cleaning == {"resetContext", "resetStub", "resetCallback", "returned"}

\* A call that was not cancelled leaves its loop only when its client was given
\* every element of the driver's stream, and the last one was the loss of the
\* driver; a call that could not be started has no stream.
EndIsTold ==
  \A h \in Handlers :
    (Past(h) /\ ~cancelled[h]) =>
      /\ sent[h] = Input[h]
      /\ source[h] # <<>> => source[h][Len(source[h])] = "UNAVAILABLE"

Told(h) ==
  (Past(h) /\ ~cancelled[h]) =>
    /\ Len(sent[h]) = Len(source[h])
    /\ pc[h] \notin Cleaning => source[h] # <<>>
    /\ source[h] # <<>> => source[h][Len(source[h])] = "UNAVAILABLE"

ToldInv == \A h \in Handlers : Told(h)

LEMMA SameTold ==
  ASSUME NEW h \in Handlers, Told(h),
         Past(h)' /\ ~cancelled'[h] =>
           Past(h) /\ ~cancelled[h] /\ (pc[h] \in Cleaning => pc'[h] \in Cleaning),
         source'[h] = source[h], sent'[h] = sent[h]
  PROVE  Told(h)'
BY DEF Told

LEMMA DeliverTold ==
  ASSUME SafeInv, FlowInv, NEW h \in Handlers, Deliver(h)
  PROVE  Told(h)'
<1> DEFINE s == sent[h]  q == queue[h]  len == Len(source[h])  x == Head(q)
<1>1. TypeOK /\ StreamInv /\ QueueIs(h)
  BY DEF SafeInv, TypeInv, FlowInv, Flow, Deliver, Serving
<1>2. /\ s \in Seq(Result \union {NoResult}) /\ q \in Seq(Result \union {NoResult})
      /\ q # <<>> /\ read[h] \in Nat /\ len \in Nat /\ read[h] <= len
      /\ source[h] \in Seq(Results \union Statuses)
  BY <1>1 DEF TypeOK, Deliver
<1>3. /\ sent'[h] = Append(s, x) /\ source' = source
      /\ Past(h)' => x.code = "DRIVER_NOT_CONNECTED"
  BY <1>1 DEF Deliver, Goto, TypeOK, stream, Past, Serving
<1>4. /\ read[h] = Len(s) + Len(q) + (IF Notifying(h) THEN 1 ELSE 0)
      /\ \A i \in 1..Len(q) : q[i] = ResultOf(h, Len(s) + i)
  BY <1>1 DEF QueueIs
<1>5. x = q[1]
  BY <1>2
<1> HIDE DEF s, q, len, x
<1>6. Len(s) \in Nat /\ Len(q) \in Nat /\ Len(q) >= 1 /\ Len(Append(s, x)) = Len(s) + 1
  BY <1>2
<1>7. Len(s) + 1 \in 1..len /\ x = ResultOf(h, Len(s) + 1)
  BY <1>2, <1>4, <1>5, <1>6
<1>8. ASSUME x.code = "DRIVER_NOT_CONNECTED"
      PROVE  source[h][Len(s) + 1] = "UNAVAILABLE" /\ Len(s) + 1 = len
  <2>1. CodeOf(source[h][Len(s) + 1]) = "DRIVER_NOT_CONNECTED"
    BY <1>7, <1>8 DEF ResultOf
  <2>2. source[h][Len(s) + 1] = "UNAVAILABLE"
    BY <2>1 DEF CodeOf
  <2>3. source[h][Len(s) + 1] \in Results \union Statuses
    BY <1>2, <1>7 DEF len
  <2>4. source[h][Len(s) + 1] \in Statuses
    BY <2>2, <2>3, ConstantsAssumption DEF ConstantsAssumption
  <2> QED
    BY <1>1, <1>7, <2>2, <2>4 DEF StreamInv, StatusLast, len
<1>9. Past(h)' => /\ Len(sent'[h]) = Len(source'[h])
                  /\ source'[h][Len(source'[h])] = "UNAVAILABLE"
                  /\ Len(source'[h]) # 0
  BY <1>3, <1>6, <1>8 DEF len
<1> QED
  BY <1>9 DEF Told

LEMMA HandlerTold ==
  ASSUME SafeInv, FlowInv, NEW h \in Handlers, Told(h), HandlerStep(h)
  PROVE  Told(h)'
<1>1. TypeOK /\ Shape(h) /\ Flow(h)
  BY HandlerUntouched DEF SafeInv, TypeInv, SerialInv, FlowInv
<1>2. UNCHANGED <<source, cancelled>>
  BY <1>1, HandlerFrame
<1>3. CASE StartStep(h)
  <2>1. CASE StartSpawnFails(h)
    <3>1. pc'[h] = "resetContext" /\ source'[h] = <<>> /\ sent'[h] = <<>>
      BY <1>1, <1>2, <2>1 DEF StartSpawnFails, HandlerOnly, Goto, TypeOK, Flow, Fresh, Early
    <3> QED
      BY <3>1 DEF Told, Cleaning
  <2>2. CASE ~StartSpawnFails(h)
    <3>1. ~StartJoin(h) /\ ~StartJoined(h) /\ ~StartJoinThrows(h) /\ ~StartAssignTerminates(h)
      BY <1>1 DEF Shape, Served, StartJoin, StartJoined, StartJoinThrows, Join, Joined, JoinThrows,
                  StartAssignTerminates
    <3>2. pc'[h] \in Early \union Serving
      BY <1>1, <1>3, <2>2, <3>1
      DEF StartStep, StartIgnored, StartTest, StartJoinable, StartSetStub, StartSetCallback,
          StartSetContext, StartSetRunning, StartSpawn, StartAssign, HandlerOnly, Goto, TypeOK,
          Early, Serving
    <3> QED
      BY <3>2 DEF Told, Past
  <2> QED
    BY <2>1, <2>2
<1>4. CASE WriteFails(h) \/ SeesCancel(h) \/ Close(h)
  <2>1. /\ sent' = sent
        /\ cancelled[h] \/ (pc[h] = "close" /\ pc'[h] = "stop")
    BY <1>1, <1>4 DEF WriteFails, SeesCancel, Close, Goto, TypeOK
  <2> QED
    BY <1>2, <2>1, SameTold DEF Past, Cleaning, Early, Serving
<1>5. CASE StopStep(h)
  <2> USE DEF HandlerOnly, Return, Dies, Goto, Join, Joined, JoinThrows, TypeOK, handler
  <2>1. sent' = sent
    BY <1>5 DEF StopStep, StopRunning, StopTestContext, StopCancel, StopCancelNull, StopJoinable,
       StopJoin, StopJoined, StopJoinThrows, StopResetContext, StopResetStub, StopResetCallback
  <2>2. pc[h] \notin Early \union Serving
    BY <1>5 DEF StopStep, StopRunning, StopTestContext, StopCancel, StopCancelNull, StopJoinable,
       StopJoin, StopJoined, StopJoinThrows, StopResetContext, StopResetStub, StopResetCallback,
       Early, Serving
  <2>3. pc[h] \in Cleaning => pc'[h] \in Cleaning
    BY <1>1, <1>5 DEF StopStep, StopRunning, StopTestContext, StopCancel, StopCancelNull,
       StopJoinable, StopJoin, StopJoined, StopJoinThrows, StopResetContext, StopResetStub,
       StopResetCallback, Cleaning
  <2> QED
    BY <1>2, <2>1, <2>2, <2>3, SameTold DEF Past
<1> QED
  BY <1>3, <1>4, <1>5, DeliverTold DEF HandlerStep, LoopStep

LEMMA EnvironmentTold ==
  ASSUME SafeInv, ToldInv, Environment
  PROVE  ToldInv'
<1>1. TypeOK /\ TypeInv /\ SerialInv
  BY DEF SafeInv, TypeInv
<1> SUFFICES ASSUME NEW g \in Handlers PROVE Told(g)'
  BY DEF ToldInv
<1>2. Told(g)
  BY DEF ToldInv
<1>3. ASSUME NEW h \in Handlers, Arrive(h) PROVE Told(g)'
  <2>1. /\ pc'[g] = pc[g] \/ pc'[g] = "start"
        /\ UNCHANGED <<source, sent, cancelled>>
    BY <1>1, <1>3 DEF Arrive, Goto, TypeOK, stream
  <2> QED
    BY <1>2, <2>1, SameTold DEF Past, Early
<1>4. ASSUME NEW h \in Handlers, ClientCancels(h) PROVE Told(g)'
  <2>1. /\ cancelled'[g] = cancelled[g] \/ cancelled'[g] = TRUE
        /\ UNCHANGED <<source, sent, pc>>
    BY <1>1, <1>4 DEF ClientCancels, TypeOK, stream
  <2> QED
    BY <1>2, <2>1, SameTold DEF Past
<1>5. ASSUME NEW h \in Handlers, NEW m, StreamOpen(h),
             source' = [source EXCEPT ![h] = Append(@, m)], UNCHANGED handler
      PROVE  Told(g)'
  <2>1. pc[h] \in Served \union {"assign"}
    BY <1>1, <1>5, WorkerServes DEF StreamOpen
  <2>2. ~Ended(h) /\ UNCHANGED <<pc, sent, cancelled>>
    BY <1>5 DEF StreamOpen, handler
  <2>3. CASE g # h
    <3>1. source'[g] = source[g]
      BY <1>1, <1>5, <2>2, <2>3 DEF TypeOK
    <3> QED
      BY <1>2, <2>2, <3>1, SameTold DEF Past
  <2>4. CASE g = h
    <3>1. ~(Past(g) /\ ~cancelled[g])
      <4>1. SUFFICES ASSUME Past(g), ~cancelled[g] PROVE FALSE
        OBVIOUS
      <4>2. source[g] # <<>> /\ source[g][Len(source[g])] = "UNAVAILABLE"
        BY <1>2, <2>1, <2>4, <4>1 DEF Told, Cleaning, Served
      <4>3. source[g][Len(source[g])] \in Statuses
        BY <1>1, <4>2, ConstantsAssumption DEF ConstantsAssumption, TypeOK
      <4> QED
        BY <2>2, <2>4, <4>2, <4>3 DEF Ended
    <3> QED
      BY <2>2, <3>1 DEF Told, Past
  <2> QED
    BY <2>3, <2>4
<1> QED
  BY <1>3, <1>4, <1>5 DEF Environment, DriverSends, DriverEnds

LEMMA NextTold ==
  ASSUME SafeInv, FlowInv, ToldInv, [Next]_vars
  PROVE  ToldInv'
<1>1. ASSUME NEW h \in Handlers, HandlerStep(h), NEW g \in Handlers PROVE Told(g)'
  <2>1. CASE g = h
    BY <1>1, <2>1, HandlerTold DEF ToldInv
  <2>2. CASE g # h
    <3>1. UNCHANGED <<source, cancelled>> /\ Untouched(g)
      BY <1>1, <2>2, HandlerFrame, HandlerUntouched DEF SafeInv, TypeInv
    <3> QED
      BY <3>1, SameTold DEF ToldInv, Past, Untouched
  <2> QED
    BY <2>1, <2>2
<1>2. CASE (\E w \in Handlers : WorkerStep(w)) \/ UNCHANGED vars
  <2>1. UNCHANGED <<source, pc, sent, cancelled>>
    BY <1>2, WorkerFrame DEF SafeInv, TypeInv, vars, stream, handler
  <2> QED
    BY <2>1 DEF ToldInv, Told, Past
<1> QED
  BY <1>1, <1>2, EnvironmentTold DEF Next, Stopped, ToldInv

LEMMA ToldIsEndIsTold ==
  ASSUME SafeInv, FlowInv, ToldInv
  PROVE  EndIsTold
<1> SUFFICES ASSUME NEW h \in Handlers, Past(h), ~cancelled[h]
             PROVE  sent[h] = Input[h]
  BY DEF EndIsTold, ToldInv, Told
<1> DEFINE R == Result \union {NoResult}  s == sent[h]  n == Len(source[h])
           all == [i \in 1..n |-> ResultOf(h, i)]
<1>1. /\ s \in Seq(R) /\ n \in Nat /\ Len(s) = n
      /\ \A i \in 1..Len(s) : s[i] = ResultOf(h, i)
  BY DEF SafeInv, TypeInv, TypeOK, FlowInv, Flow, SentIs, ToldInv, Told
<1>2. \A i \in 1..n : ResultOf(h, i) \in R
  BY <1>1, ResultOfType DEF SafeInv
<1>3. all \in Seq(R) /\ Len(all) = n /\ \A i \in 1..n : all[i] = ResultOf(h, i)
  BY <1>1, <1>2
<1> HIDE DEF R, s, n, all
<1>4. s = all
  BY <1>1, <1>3, SeqEqual
<1> QED
  BY <1>4 DEF s, all, n, Input

\* For any number of serial calls and any stream: a call whose client stays
\* never ends behind its back.  Only DRIVER_NOT_CONNECTED ends it, after every
\* result the driver sent before.
THEOREM SerialEndIsTold == Callers = "serial" => (Spec => []EndIsTold)
<1> SUFFICES ASSUME Callers = "serial" PROVE Spec => []EndIsTold
  OBVIOUS
<1>1. Init => SafeInv /\ FlowInv /\ ToldInv
  <2>1. Init => ToldInv
    BY DEF Init, ToldInv, Told, Past, Early
  <2> QED
    BY <2>1, InitSafe, InitFlow
<1>2. SafeInv /\ FlowInv /\ ToldInv /\ [Next]_vars => SafeInv' /\ FlowInv' /\ ToldInv'
  BY NextSafe, NextFlow, NextTold
<1>3. SafeInv /\ FlowInv /\ ToldInv => EndIsTold
  BY ToldIsEndIsTold
<1> QED
  BY <1>1, <1>2, <1>3, PTL DEF Spec

-----------------------------------------------------------------------------
(* The safety half of CancelEndsCall and DriverLossEndsCall: a call that   *)
(* has to end never waits for what will not come, and each step of it      *)
(* brings its end nearer.  That who can go on does is what these two add,  *)
(* and TLC checks.                                                         *)

Lost(h) == Ended(h) /\ source[h][Len(source[h])] = "UNAVAILABLE"

\* What a call has ahead of it, at most: the places of its handler, those of
\* its worker, the results that wait in the queue, and seven steps for each
\* that was not read yet.
Ahead(h) ==
  [idle |-> 0, start |-> 27, joinable |-> 26, startJoin |-> 25, startJoining |-> 24,
   setStub |-> 23, setCallback |-> 22, setContext |-> 21, setRunning |-> 20, spawn |-> 19,
   assign |-> 12, loop |-> 11, close |-> 10, stop |-> 9, testContext |-> 8, cancel |-> 7,
   stopJoinable |-> 6, stopJoin |-> 5, stopJoining |-> 4, resetContext |-> 3, resetStub |-> 2,
   resetCallback |-> 1, returned |-> 0][pc[h]]

OfWorker(h) ==
  [none |-> 0, exited |-> 0, exiting |-> 1, finishing |-> 2, reading |-> 3, loop |-> 4,
   subscribing |-> 5, spawned |-> 6, pushing |-> 6, calling |-> 7, testing |-> 8][worker[h]]

CallStepsLeft(h) ==
  Ahead(h) + OfWorker(h) + Len(queue[h]) + 7 * (Len(source[h]) - read[h])

\* A call whose client left, or whose driver is lost, is at a place where its
\* handler can go on, or else its worker can: with the join behind a cancelled
\* call, with the loop behind a result that is queued or can still be read.
CanLeave(h) ==
  InFlight(h) /\ (cancelled[h] \/ Lost(h)) => HandlerCanGo(h) \/ WorkerCanGo(h)

AllCanLeave == \A h \in Handlers : CanLeave(h)

CallMoves(h) == <<pc[h], worker[h], queue[h]>>' # <<pc[h], worker[h], queue[h]>>

CallCountsDown ==
  [][\A h \in Handlers : InFlight(h) /\ CallMoves(h) =>
       CallStepsLeft(h)' < CallStepsLeft(h)]_vars

\* A worker that ends on the loss of its driver has handed on that loss.
ReadToEnd(h) ==
  pc[h] \in Serving /\ worker[h] \in {"exiting", "exited"} /\ Lost(h) =>
    read[h] = Len(source[h])

LeaveInv == SafeInv /\ FlowInv /\ OnceInv /\ \A h \in Handlers : ReadToEnd(h)

\* A handler comes to its loop by creating its worker.
LEMMA HandlerReadsToEnd ==
  ASSUME SafeInv, NEW h \in Handlers, HandlerStep(h), ReadToEnd(h)
  PROVE  ReadToEnd(h)'
<1>1. TypeOK /\ Shape(h)
  BY HandlerUntouched DEF SafeInv, TypeInv, SerialInv
<1>2. UNCHANGED <<read, source>> /\ (worker'[h] = worker[h] \/ worker'[h] = "spawned")
  BY <1>1, HandlerFrame DEF TypeOK
<1>3. pc'[h] \in Serving => pc[h] \in Serving \/ worker'[h] = "spawned"
  <2>1. CASE StartStep(h)
    <3>1. ~StartIgnored(h)
      BY <1>1 DEF Shape, StartIgnored
    <3>2. pc'[h] \in Early \/ pc[h] = "assign" \/ worker'[h] = "spawned" \/ pc'[h] \notin Serving
      BY <1>1, <2>1, <3>1
      DEF StartStep, StartTest, StartJoinable, StartJoin, StartJoined,
          StartJoinThrows, StartSetStub, StartSetCallback, StartSetContext, StartSetRunning,
          StartSpawn, StartSpawnFails, StartAssign, StartAssignTerminates, Join, Joined,
          JoinThrows, HandlerOnly, Return, Dies, Goto, TypeOK, Early, Serving, handler
    <3> QED
      BY <3>2 DEF Early, Serving
  <2>2. CASE LoopStep(h)
    BY <1>1, <2>2 DEF LoopStep, Deliver, WriteFails, SeesCancel, Close, Goto, TypeOK, Serving
  <2>3. CASE StopStep(h)
    <3>1. pc'[h] \notin Serving
      BY <1>1, <2>3
      DEF StopStep, StopRunning, StopTestContext, StopCancel, StopCancelNull,
          StopJoinable, StopJoin, StopJoined, StopJoinThrows, StopResetContext, StopResetStub,
          StopResetCallback, Join, Joined, JoinThrows, HandlerOnly, Return, Dies, Goto, TypeOK,
          Serving, handler
    <3> QED
      BY <3>1
  <2> QED
    BY <2>1, <2>2, <2>3 DEF HandlerStep
<1> QED
  BY <1>2, <1>3 DEF ReadToEnd, Lost, Ended

LEMMA WorkerReadsToEnd ==
  ASSUME SafeInv, NEW h \in Handlers, WorkerStep(h), ReadToEnd(h)
  PROVE  ReadToEnd(h)'
<1>1. TypeOK /\ TypeInv /\ SerialInv /\ StreamInv
  BY DEF SafeInv, TypeInv
<1>2. UNCHANGED <<pc, source>> /\ worker[h] \notin {"none", "exited"}
  BY <1>1, WorkerFrame
<1> SUFFICES ASSUME pc[h] \in Serving, worker'[h] \in {"exiting", "exited"}, Lost(h)
             PROVE  read'[h] = Len(source[h])
  BY <1>2 DEF ReadToEnd, Lost, Ended
<1>3. ~tried /\ (running \/ worker[h] = "exited")
  BY <1>1, <1>2, WorkerServes DEF Shape, GoesOn, Serving, Cancelled
<1>4. CASE Quiet(h) \/ Stops(h)
  <2>1. worker[h] = "exiting" /\ read' = read
    BY <1>3, <1>4 DEF Quiet, Stops, Lost
  <2> QED
    BY <2>1 DEF ReadToEnd
<1>5. CASE Pushes(h)
  <2>1. read' = read /\ AfterNotify(h) = "exiting" /\ Notifying(h)
    BY <1>5 DEF Pushes, AfterNotify, Notifying
  <2>2. source[h][read[h]] \in Statuses
    BY <2>1 DEF AfterNotify
  <2>3. read[h] \in 1..Len(source[h])
    BY <1>1, <2>1 DEF TypeOK
  <2> QED
    BY <1>1, <2>1, <2>2, <2>3 DEF StreamInv, StatusLast
<1>6. CASE WorkerRead(h) \/ WorkerFinishError(h)
  <2>1. worker'[h] = "testing"
    BY <1>1, <1>6 DEF WorkerRead, WorkerFinishError, TypeOK
  <2> QED
    BY <2>1
<1> QED
  BY <1>4, <1>5, <1>6, SerialWorker

LEMMA NextReadsToEnd ==
  ASSUME SafeInv, NEW h \in Handlers, ReadToEnd(h), [Next]_vars
  PROVE  ReadToEnd(h)'
<1>1. TypeOK
  BY DEF SafeInv, TypeInv
<1>2. ASSUME NEW g \in Handlers, HandlerStep(g)
      PROVE  ReadToEnd(h)'
  <2>1. CASE g = h
    BY <1>2, <2>1, HandlerReadsToEnd
  <2>2. CASE g # h
    <3>1. Untouched(h)
      BY <1>1, <1>2, <2>2, HandlerUntouched
    <3>2. worker' = worker \/ worker' = [worker EXCEPT ![g] = "spawned"]
      BY <1>1, <1>2, HandlerFrame
    <3>3. worker'[h] = worker[h]
      BY <1>1, <2>2, <3>2 DEF TypeOK
    <3> QED
      BY <3>1, <3>3 DEF ReadToEnd, Lost, Ended, Untouched
  <2> QED
    BY <2>1, <2>2
<1>3. ASSUME NEW w \in Handlers, WorkerStep(w)
      PROVE  ReadToEnd(h)'
  <2>1. CASE w = h
    BY <1>3, <2>1, WorkerReadsToEnd
  <2>2. CASE w # h
    <3>1. UNCHANGED <<pc, source>> /\ worker'[h] = worker[h] /\ read'[h] = read[h]
      BY <1>1, <1>3, <2>2, WorkerFrame
    <3> QED
      BY <3>1 DEF ReadToEnd, Lost, Ended
  <2> QED
    BY <2>1, <2>2
<1>4. CASE Environment
  <2>1. UNCHANGED <<worker, read>> /\ (pc'[h] = pc[h] \/ pc'[h] = "start")
    BY <1>1, <1>4
    DEF Environment, Arrive, ClientCancels, DriverSends, DriverEnds, threads, stream, handler,
        Goto, TypeOK
  <2>2. source'[h] = source[h] \/ worker[h] \notin {"exiting", "exited"}
    BY <1>1, <1>4
    DEF Environment, Arrive, ClientCancels, DriverSends, DriverEnds, StreamOpen, stream, TypeOK
  <2> QED
    BY <2>1, <2>2 DEF ReadToEnd, Lost, Ended, Serving
<1>5. CASE UNCHANGED vars
  BY <1>5 DEF ReadToEnd, Lost, Ended, vars, threads, stream, handler
<1> QED
  BY <1>2, <1>3, <1>4, <1>5 DEF Next, Stopped

\* In the loop of a call that lost its driver the worker has not read the loss
\* yet, or it is in the queue.
LEMMA LossArrives ==
  ASSUME LeaveInv, NEW h \in Handlers, pc[h] = "loop", Lost(h)
  PROVE  /\ worker[h] = "reading" => HasNext(h)
         /\ worker[h] = "exited" => queue[h] # <<>>
<1> DEFINE len == Len(source[h])
<1>1. TypeOK /\ Flow(h) /\ QueueIs(h) /\ ReadOnce /\ ReadToEnd(h)
  BY DEF LeaveInv, SafeInv, TypeInv, FlowInv, Flow, OnceInv, Serving
<1>2. /\ read[h] \in Nat /\ len \in Nat /\ read[h] <= len
      /\ source[h] # <<>> /\ source[h] \in Seq(Results \union Statuses)
      /\ sent[h] \in Seq(Result \union {NoResult})
  BY <1>1 DEF TypeOK, Lost, Ended
<1>3. len \in 1..len /\ source[h][len] \notin Results
  BY <1>2, ConstantsAssumption DEF Lost, ConstantsAssumption
<1>4. worker[h] = "reading" => HasNext(h)
  <2>1. SUFFICES ASSUME worker[h] = "reading" PROVE read[h] # len
    BY <1>2 DEF HasNext
  <2>2. \A n \in 1..read[h] : source[h][n] \in Results
    BY <1>1, <2>1 DEF ReadOnce, ReadsOn
  <2> QED
    BY <1>3, <2>2
<1>5. ASSUME worker[h] = "exited", queue[h] = <<>>
      PROVE  FALSE
  <2>1. read[h] = len /\ ~Notifying(h)
    BY <1>1, <1>5 DEF ReadToEnd, Notifying, Serving
  <2>2. Len(sent[h]) = len
    BY <1>1, <1>2, <1>5, <2>1 DEF QueueIs
  <2>3. sent[h][len] = ResultOf(h, len)
    BY <1>1, <1>3, <2>2 DEF Flow, SentIs
  <2>4. sent[h][len].code = "DRIVER_NOT_CONNECTED"
    BY <2>3 DEF ResultOf, CodeOf, Lost
  <2>5. sent[h] # <<>>
    BY <1>2, <1>3, <2>2
  <2> QED
    BY <1>1, <2>2, <2>4, <2>5 DEF QueueIs
<1> QED
  BY <1>4, <1>5

LEMMA LeaveInvCanLeave ==
  ASSUME LeaveInv
  PROVE  AllCanLeave
<1> SUFFICES ASSUME NEW h \in Handlers, InFlight(h), cancelled[h] \/ Lost(h)
             PROVE  HandlerCanGo(h) \/ WorkerCanGo(h)
  BY DEF AllCanLeave, CanLeave
<1>1. TypeOK /\ Shape(h) /\ GoesOn(h)
  BY DEF LeaveInv, SafeInv, TypeInv, SerialInv
<1>2. CASE pc[h] = "loop"
  <2>1. worker[h] # "none" /\ (worker[h] = "finishing" => Ended(h))
    BY <1>1, <1>2 DEF Shape, GoesOn, Served
  <2>2. cancelled[h] \/ /\ worker[h] = "reading" => HasNext(h)
                        /\ worker[h] = "exited" => queue[h] # <<>>
    BY <1>2, LossArrives
  <2> QED
    BY <1>2, <2>1, <2>2 DEF HandlerCanGo, WorkerCanGo, Joining
<1>3. CASE pc[h] = "stopJoining"
  <2>1. tried /\ thread = h /\ worker[h] # "none"
    BY <1>1, <1>3 DEF Shape, Served, Cancelled
  <2> QED
    BY <1>3, <2>1 DEF HandlerCanGo, WorkerCanGo, CallCancelled, Joining
<1>4. CASE pc[h] \notin {"loop", "stopJoining"}
  BY <1>1, <1>4 DEF HandlerCanGo, Shape, Joining
<1> QED
  BY <1>2, <1>3, <1>4

\* Four shares, of which the last does not change.
LEMMA LessLeft ==
  \A a, b, i, j, m, n, r \in Nat :
    a + b <= i + j /\ m <= n /\ (a + b < i + j \/ m < n) => a + b + m + r < i + j + n + r
OBVIOUS

\* Each step of a handler brings it forward, or takes a result from its queue.
LEMMA HandlerAdvances ==
  ASSUME SafeInv, NEW h \in Handlers, HandlerStep(h)
  PROVE  /\ Ahead(h) \in Nat /\ Ahead(h)' \in Nat
         /\ \/ Ahead(h)' < Ahead(h) /\ worker'[h] = worker[h]
            \/ /\ Ahead(h)' <= Ahead(h) /\ worker'[h] = worker[h]
               /\ queue[h] # <<>> /\ queue'[h] = Tail(queue[h])
            \/ /\ Ahead(h) = 19 /\ Ahead(h)' = 12
               /\ worker[h] = "none" /\ worker'[h] = "spawned"
<1> DEFINE Less == Ahead(h) \in Nat /\ Ahead(h)' \in Nat /\ Ahead(h)' < Ahead(h)
<1>1. TypeInv /\ TypeOK /\ Shape(h) /\ fault = "none" /\ pc \in [Handlers -> HandlerPlaces]
  BY HandlerUntouched DEF SafeInv, TypeInv, SerialInv, TypeOK
<1>2. \/ worker'[h] = worker[h]
      \/ /\ pc[h] = "spawn" /\ pc'[h] = "assign"
         /\ worker[h] = "none" /\ worker'[h] = "spawned"
  BY <1>1, HandlerFrame DEF TypeInv, TypeOK, Early
<1>3. CASE StartStep(h)
  <2>1. ~StartIgnored(h) /\ ~StartJoin(h) /\ ~StartJoined(h) /\ ~StartJoinThrows(h)
        /\ ~StartAssignTerminates(h)
    BY <1>1 DEF Shape, Served, StartIgnored, StartJoin, StartJoined, StartJoinThrows, Join, Joined,
                JoinThrows, StartAssignTerminates
  <2>2. <<pc[h], pc'[h]>> \in
          {<<"start", "joinable">>, <<"joinable", "setStub">>, <<"joinable", "startJoin">>,
           <<"setStub", "setCallback">>, <<"setCallback", "setContext">>,
           <<"setContext", "setRunning">>, <<"setRunning", "spawn">>, <<"spawn", "assign">>,
           <<"spawn", "resetContext">>, <<"assign", "loop">>}
    BY <1>1, <1>3, <2>1
    DEF StartStep, StartTest, StartJoinable, StartSetStub, StartSetCallback, StartSetContext,
        StartSetRunning, StartSpawn, StartSpawnFails, StartAssign, HandlerOnly, Goto
  <2>3. pc[h] # "spawn" => Less
    BY <2>2 DEF Ahead
  <2>4. pc[h] = "spawn" => Less /\ (pc'[h] = "assign" => Ahead(h) = 19 /\ Ahead(h)' = 12)
    BY <2>2 DEF Ahead
  <2> QED
    BY <1>2, <2>3, <2>4
<1>4. CASE Deliver(h) \/ WriteFails(h)
  <2>1. queue[h] # <<>> /\ queue'[h] = Tail(queue[h])
    BY <1>1, <1>4 DEF Deliver, WriteFails, TypeOK
  <2>2. pc[h] = "loop" /\ pc'[h] \in {"loop", "close"}
    BY <1>1, <1>4 DEF Deliver, WriteFails, Goto
  <2>3. Ahead(h) \in Nat /\ Ahead(h)' \in Nat /\ Ahead(h)' <= Ahead(h)
    BY <2>2 DEF Ahead
  <2> QED
    BY <1>2, <2>1, <2>2, <2>3
<1>5. CASE SeesCancel(h) \/ Close(h)
  <2>1. <<pc[h], pc'[h]>> \in {<<"loop", "close">>, <<"close", "stop">>}
    BY <1>1, <1>5 DEF SeesCancel, Close, Goto
  <2>2. Less
    BY <2>1 DEF Ahead
  <2> QED
    BY <1>2, <2>1, <2>2
<1>6. CASE StopStep(h)
  <2>1. ~StopCancelNull(h)
    BY <1>1, ConstantsAssumption DEF Shape, HasContext, Served, StopCancelNull, ConstantsAssumption
  <2>2. <<pc[h], pc'[h]>> \in
          {<<"stop", "testContext">>, <<"testContext", "cancel">>, <<"testContext", "stopJoinable">>,
           <<"cancel", "stopJoinable">>, <<"stopJoinable", "stopJoin">>,
           <<"stopJoinable", "resetContext">>, <<"stopJoin", "stopJoining">>,
           <<"stopJoin", "returned">>, <<"stopJoining", "resetContext">>,
           <<"resetContext", "resetStub">>, <<"resetStub", "resetCallback">>,
           <<"resetCallback", "returned">>}
    BY <1>1, <1>6, <2>1
    DEF StopStep, StopRunning, StopTestContext, StopCancel, StopJoinable, StopJoin, StopJoined,
        StopJoinThrows, StopResetContext, StopResetStub, StopResetCallback, Join, Joined,
        JoinThrows, HandlerOnly, Return, Goto
  <2>3. Less
    BY <2>2 DEF Ahead
  <2> QED
    BY <1>2, <2>2, <2>3
<1> QED
  BY <1>3, <1>4, <1>5, <1>6 DEF HandlerStep, LoopStep

LEMMA HandlerCountsDown ==
  ASSUME SafeInv, NEW h \in Handlers, HandlerStep(h)
  PROVE  CallStepsLeft(h)' < CallStepsLeft(h)
<1> DEFINE q == queue[h]  rest == 7 * (Len(source[h]) - read[h])
<1>1. TypeOK
  BY DEF SafeInv, TypeInv
<1>2. /\ q \in Seq(Result \union {NoResult}) /\ Len(q) \in Nat /\ rest \in Nat
      /\ worker[h] \in WorkerPlaces
  BY <1>1 DEF TypeOK
<1>3. UNCHANGED <<source, read>>
  BY <1>1, HandlerFrame
<1>4. /\ CallStepsLeft(h) = Ahead(h) + OfWorker(h) + Len(q) + rest
      /\ CallStepsLeft(h)' = Ahead(h)' + OfWorker(h)' + Len(queue'[h]) + rest
  BY <1>3 DEF CallStepsLeft
<1>5. Len(queue'[h]) \in Nat /\ Len(queue'[h]) <= Len(q)
  <2>1. queue'[h] \in {q, <<>>} \/ (q # <<>> /\ queue'[h] = Tail(q))
    <3>1. \/ queue' \in {queue, [queue EXCEPT ![h] = <<>>]}
          \/ queue[h] # <<>> /\ queue' = [queue EXCEPT ![h] = Tail(queue[h])]
      BY <1>1, HandlerFrame
    <3> QED
      BY <1>1, <3>1 DEF TypeOK
  <2> HIDE DEF q
  <2>2. Len(<<>>) = 0 /\ (q # <<>> => Len(Tail(q)) \in Nat /\ Len(Tail(q)) <= Len(q))
    BY <1>2
  <2> QED
    BY <1>2, <2>1, <2>2
<1>6. q # <<>> => Len(Tail(q)) < Len(q)
  BY <1>2
<1>7. OfWorker(h) \in Nat /\ (worker'[h] = worker[h] => OfWorker(h)' = OfWorker(h))
  BY <1>2 DEF OfWorker, WorkerPlaces
<1>8. worker[h] = "none" /\ worker'[h] = "spawned" => OfWorker(h) = 0 /\ OfWorker(h)' = 6
  BY DEF OfWorker
<1> HIDE DEF q, rest
<1>9. /\ Ahead(h) \in Nat /\ Ahead(h)' \in Nat /\ OfWorker(h)' \in Nat
      /\ Ahead(h)' + OfWorker(h)' <= Ahead(h) + OfWorker(h)
      /\ \/ Ahead(h)' + OfWorker(h)' < Ahead(h) + OfWorker(h)
         \/ Len(queue'[h]) < Len(q)
  <2>1. Ahead(h) \in Nat /\ Ahead(h)' \in Nat
    BY HandlerAdvances
  <2>2. CASE Ahead(h)' < Ahead(h) /\ worker'[h] = worker[h]
    BY <1>7, <2>1, <2>2
  <2>3. CASE Ahead(h)' <= Ahead(h) /\ worker'[h] = worker[h] /\ q # <<>> /\ queue'[h] = Tail(q)
    BY <1>6, <1>7, <2>1, <2>3
  <2>4. CASE Ahead(h) = 19 /\ Ahead(h)' = 12 /\ worker[h] = "none" /\ worker'[h] = "spawned"
    BY <1>8, <2>4
  <2> QED
    BY <2>2, <2>3, <2>4, HandlerAdvances DEF q
<1> QED
  BY <1>2, <1>4, <1>5, <1>7, <1>9, LessLeft

\* The steps of its worker.
LEMMA WorkerCountsDown ==
  ASSUME SafeInv, OnceInv, NEW h \in Handlers, WorkerStep(h)
  PROVE  CallStepsLeft(h)' < CallStepsLeft(h)
<1> DEFINE q == queue[h]  len == Len(source[h])  rest == 7 * (len - read[h])
           rest2 == 7 * (len - read'[h])
<1>1. TypeOK /\ ReadOnce
  BY DEF SafeInv, TypeInv, OnceInv
<1>2. /\ q \in Seq(Result \union {NoResult}) /\ Len(q) \in Nat
      /\ read[h] \in Nat /\ len \in Nat /\ read[h] <= len /\ rest \in Nat
  BY <1>1 DEF TypeOK
<1>3. Ahead(h) \in Nat
  <2>1. pc[h] \in HandlerPlaces
    BY <1>1 DEF TypeOK
  <2> QED
    BY <2>1 DEF Ahead, HandlerPlaces
<1>4. UNCHANGED <<pc, source>>
  BY <1>1, WorkerFrame
<1>5. /\ CallStepsLeft(h) = Ahead(h) + OfWorker(h) + Len(q) + rest
      /\ CallStepsLeft(h)' = Ahead(h) + OfWorker(h)' + Len(queue'[h]) + rest2
  BY <1>4 DEF CallStepsLeft, Ahead
<1>6. ASSUME NEW a \in Nat, NEW b \in Nat, OfWorker(h) = a, OfWorker(h)' = b,
             Len(queue'[h]) \in Nat, rest2 \in Nat,
             b + Len(queue'[h]) + rest2 < a + Len(q) + rest
      PROVE  CallStepsLeft(h)' < CallStepsLeft(h)
  <2>1. Len(q) \in Nat /\ rest \in Nat
    BY <1>2
  <2> HIDE DEF q, rest, rest2
  <2> QED
    BY <1>3, <1>5, <1>6, <2>1
<1>7. CASE Quiet(h) \/ Stops(h)
  <2>1. UNCHANGED <<read, queue>>
    BY <1>7 DEF Quiet, Stops
  <2>2. <<worker[h], worker'[h]>> \in
          {<<"spawned", "subscribing">>, <<"subscribing", "loop">>, <<"exiting", "exited">>,
           <<"loop", "reading">>, <<"finishing", "exiting">>, <<"testing", "calling">>,
           <<"calling", "pushing">>, <<"reading", "finishing">>, <<"loop", "finishing">>}
    BY <1>7 DEF Quiet, Stops
  <2>3. OfWorker(h)' < OfWorker(h) /\ OfWorker(h) \in Nat /\ OfWorker(h)' \in Nat
    BY <2>2 DEF OfWorker
  <2>4. rest2 = rest /\ queue'[h] = q
    BY <2>1
  <2> HIDE DEF q, rest, rest2
  <2> QED
    BY <1>2, <1>6, <2>3, <2>4
<1>8. CASE WorkerRead(h)
  <2>1. queue'[h] = q /\ read'[h] = read[h] + 1 /\ HasNext(h)
        /\ worker[h] = "reading" /\ worker'[h] = "testing"
    BY <1>1, <1>8 DEF WorkerRead, handler, TypeOK
  <2>2. OfWorker(h) = 3 /\ OfWorker(h)' = 8
    BY <2>1 DEF OfWorker
  <2>3. \A m, n \in Nat : n < m => 7 * (m - (n + 1)) = 7 * (m - n) - 7 /\ 7 * (m - n) >= 7
    OBVIOUS
  <2>4. rest2 = rest - 7 /\ rest >= 7
    BY <1>2, <2>1, <2>3 DEF HasNext
  <2> HIDE DEF q, rest, rest2
  <2> QED
    BY <1>2, <1>6, <2>1, <2>2, <2>4
<1>9. CASE WorkerFinishError(h)
  <2>1. queue'[h] = q /\ read'[h] = len /\ worker[h] = "finishing" /\ worker'[h] = "testing"
    BY <1>1, <1>9 DEF WorkerFinishError, handler, TypeOK
  <2>2. OfWorker(h) = 2 /\ OfWorker(h)' = 8
    BY <2>1 DEF OfWorker
  <2>3. read[h] < len
    BY <1>1, <1>9, FinishReadsOn
  <2>4. rest2 = 0 /\ rest >= 7
    BY <1>2, <2>1, <2>3
  <2> HIDE DEF q, rest, rest2
  <2> QED
    BY <1>2, <1>6, <2>1, <2>2, <2>4
<1>10. CASE Pushes(h)
  <2>1. read' = read /\ worker[h] = "pushing" /\ worker'[h] \in {"exiting", "loop"}
    BY <1>10 DEF Pushes, AfterNotify
  <2>2. OfWorker(h) = 6 /\ OfWorker(h)' \in Nat /\ OfWorker(h)' <= 4
    BY <2>1 DEF OfWorker
  <2>3. queue'[h] = q \/ queue'[h] = Append(q, held[h])
    BY <1>1, <1>10 DEF Pushes, TypeOK
  <2>4. held[h] \in Result \union {NoResult}
    BY <1>1 DEF TypeOK
  <2>5. Len(queue'[h]) <= Len(q) + 1 /\ Len(queue'[h]) \in Nat
    BY <1>2, <2>3, <2>4
  <2>6. rest2 = rest
    BY <2>1
  <2>7. \A b, l, m, r \in Nat : b <= 4 /\ m <= l + 1 => b + m + r < 6 + l + r
    OBVIOUS
  <2>8. Len(q) \in Nat /\ rest \in Nat
    BY <1>2
  <2> HIDE DEF q, rest, rest2
  <2>9. OfWorker(h)' + Len(queue'[h]) + rest < 6 + Len(q) + rest
    BY <2>2, <2>5, <2>7, <2>8
  <2> QED
    BY <1>6, <2>2, <2>5, <2>6, <2>8, <2>9
<1> QED
  BY <1>7, <1>8, <1>9, <1>10, SerialWorker

LEMMA StepOfCallCountsDown ==
  ASSUME SafeInv, OnceInv, Next, NEW h \in Handlers, InFlight(h), CallMoves(h)
  PROVE  CallStepsLeft(h)' < CallStepsLeft(h)
<1>1. TypeOK /\ TypeInv /\ SerialInv /\ \A g \in Handlers : g # h => ~InFlight(g)
  BY Alone DEF SafeInv, TypeInv
<1>2. ASSUME NEW g \in Handlers, HandlerStep(g)
      PROVE  g = h
  BY <1>1, <1>2, HandlerUntouched
<1>3. ASSUME NEW w \in Handlers, WorkerStep(w)
      PROVE  w = h
  <2>1. worker[w] \notin {"none", "exited"}
    BY <1>1, <1>3, WorkerFrame
  <2> QED
    BY <1>1, <2>1 DEF SerialInv
<1>4. ~Environment /\ ~Stopped
  BY <1>1 DEF CallMoves, Environment, Arrive, ClientCancels, DriverSends, DriverEnds, Stopped, vars,
              threads, handler, InFlight, Goto, TypeOK
<1> QED
  BY <1>2, <1>3, <1>4, HandlerCountsDown, WorkerCountsDown DEF Next

\* A serial call whose client left, or whose driver is lost, never waits for a
\* result that does not come, nor its join for a worker that cannot end; and
\* whatever it still does is bounded: from its loop on at most seven steps per
\* result not yet read, one per queued one, and nineteen besides.
THEOREM SerialEndIsBounded ==
  Callers = "serial" => (Spec => []AllCanLeave /\ CallCountsDown)
<1> SUFFICES ASSUME Callers = "serial" PROVE Spec => []AllCanLeave /\ CallCountsDown
  OBVIOUS
<1>1. Init => LeaveInv
  BY InitSafe, InitFlow, OnceHolds DEF LeaveInv, Init, ReadToEnd, Serving
<1>2. LeaveInv /\ [Next]_vars => LeaveInv'
  BY NextSafe, NextFlow, OnceHolds, NextReadsToEnd DEF LeaveInv
<1>3. LeaveInv => AllCanLeave
  BY LeaveInvCanLeave
<1>4. LeaveInv /\ [Next]_vars =>
        [\A h \in Handlers : InFlight(h) /\ CallMoves(h) =>
           CallStepsLeft(h)' < CallStepsLeft(h)]_vars
  BY StepOfCallCountsDown DEF LeaveInv
<1> QED
  BY <1>1, <1>2, <1>3, <1>4, PTL DEF Spec, CallCountsDown

-----------------------------------------------------------------------------
(* The refinement: what the driver appends is produced, what is delivered  *)
(* is given, and every other step stutters.                                *)

LEMMA PipeInit == Init => Pipe!Init
<1> SUFFICES ASSUME Init PROVE Pipe!Init
  OBVIOUS
<1>1. ASSUME NEW h \in Handlers PROVE [n \in 1..Len(source[h]) |-> ResultOf(h, n)] = <<>>
  <2>1. Len(source[h]) = 0
    BY DEF Init
  <2> QED
    BY <2>1
<1>2. Input = [h \in Handlers |-> <<>>]
  BY <1>1 DEF Input
<1> QED
  BY <1>2 DEF Pipe!Init, Init

\* An element at the end of a stream is an item at the end of the input.
LEMMA PipeProduce ==
  ASSUME SafeInv, NEW o \in Handlers, NEW m \in Results \union Statuses,
         source' = [source EXCEPT ![o] = Append(@, m)],
         Len(source[o]) <= MaxResults, sent' = sent
  PROVE  Pipe!Next
<1> DEFINE len == Len(source[o])
           item == [from |-> o, n |-> len + 1, code |-> CodeOf(m)]
<1>1. /\ source \in [Handlers -> Seq(Results \union Statuses)]
      /\ len \in Nat /\ MaxResults \in Nat
  BY ConstantsAssumption DEF SafeInv, TypeInv, TypeOK, ConstantsAssumption
<1>2. item \in PipeItems
  <2>1. CodeOf(m) \in Codes
    BY DEF CodeOf, Codes
  <2> QED
    BY <1>1, <2>1 DEF PipeItems
<1>3. /\ source' \in [Handlers -> Seq(Results \union Statuses)]
      /\ \A g \in Handlers : g # o => source'[g] = source[g]
      /\ source'[o] = Append(source[o], m)
  BY <1>1
<1>4. Input'[o] = Append(Input[o], item)
  <2>1. /\ Len(source'[o]) = len + 1
        /\ \A i \in 1..len : source'[o][i] = source[o][i]
        /\ source'[o][len + 1] = m
    BY <1>1, <1>3
  <2>2. Input'[o] = [n \in 1..(len + 1) |-> [from |-> o, n |-> n, code |-> CodeOf(source'[o][n])]]
    BY <1>1, <2>1 DEF Input, ResultOf
  <2>3. Input[o] = [n \in 1..len |-> [from |-> o, n |-> n, code |-> CodeOf(source[o][n])]]
    BY <1>1 DEF Input, ResultOf
  <2> HIDE DEF len
  <2>4. \A n \in 1..len : Input[o][n] = [from |-> o, n |-> n, code |-> CodeOf(source'[o][n])]
    BY <2>1, <2>3
  <2> QED
    BY <1>1, <2>1, <2>2, <2>3, <2>4
<1>5. Input' = [Input EXCEPT ![o] = Append(@, item)]
  BY <1>1, <1>3, <1>4 DEF Input, ResultOf
<1>6. Pipe!Produce(o)
  BY <1>2, <1>5 DEF Pipe!Produce
<1> QED
  BY <1>1, <1>6 DEF Pipe!Next

LEMMA PipeGive ==
  ASSUME SafeInv, FlowInv, NEW h \in Handlers, Deliver(h)
  PROVE  Pipe!Next
<1> DEFINE s == sent[h]  q == queue[h]  len == Len(source[h])
<1>1. TypeOK /\ QueueIs(h)
  BY DEF SafeInv, TypeInv, FlowInv, Flow, Deliver, Serving
<1>2. /\ s \in Seq(Result \union {NoResult}) /\ q \in Seq(Result \union {NoResult})
      /\ q # <<>> /\ read[h] \in Nat /\ len \in Nat /\ read[h] <= len
  BY <1>1 DEF TypeOK, Deliver
<1>3. /\ sent' = [sent EXCEPT ![h] = Append(@, Head(q))]
      /\ source' = source
  BY DEF Deliver, stream
<1>4. /\ read[h] = Len(s) + Len(q) + (IF Notifying(h) THEN 1 ELSE 0)
      /\ \A i \in 1..Len(q) : q[i] = ResultOf(h, Len(s) + i)
      /\ s # <<>> => s[Len(s)].code # "DRIVER_NOT_CONNECTED"
  BY <1>1 DEF QueueIs
<1>5. Input[h] = [n \in 1..len |-> ResultOf(h, n)]
  BY DEF Input
<1>6. Head(q) = q[1]
  BY <1>2
<1> HIDE DEF s, q, len
<1>7. Len(s) \in Nat /\ Len(q) \in Nat /\ Len(q) >= 1
  BY <1>2
<1>8. Len(s) + 1 \in 1..len /\ Head(q) = ResultOf(h, Len(s) + 1)
  BY <1>2, <1>4, <1>6, <1>7
<1>9. Input[h][Len(s) + 1] = Head(q)
  BY <1>5, <1>8
<1>10. Len(Input[h]) = len
  BY <1>2, <1>5
<1>11. Input' = Input
  BY <1>3 DEF Input, ResultOf
<1>12. Pipe!Give(h)
  <2>1. Len(sent[h]) < Len(Input[h])
    BY <1>2, <1>7, <1>8, <1>10 DEF s
  <2>2. sent[h] # <<>> =>
          sent[h][Len(sent[h])] \notin {r \in PipeItems : r.code = "DRIVER_NOT_CONNECTED"}
    BY <1>4 DEF s
  <2>3. sent' = [sent EXCEPT ![h] = Append(@, Input[h][Len(sent[h]) + 1])]
    BY <1>3, <1>9 DEF s
  <2> QED
    BY <1>11, <2>1, <2>2, <2>3 DEF Pipe!Give
<1> QED
  BY <1>12 DEF Pipe!Next

LEMMA PipeStep ==
  ASSUME SafeInv, FlowInv, [Next]_vars
  PROVE  Pipe!Next \/ UNCHANGED <<Input, sent>>
<1>1. CASE \E h \in Handlers : Deliver(h)
  BY <1>1, PipeGive
<1>2. ASSUME NEW w \in Handlers, NEW m \in Results, DriverSends(w, m) PROVE Pipe!Next
  <2>1. Len(source[w]) \in Nat /\ MaxResults \in Nat /\ Len(source[w]) < MaxResults
    BY <1>2, ConstantsAssumption
    DEF SafeInv, TypeInv, TypeOK, DriverSends, ConstantsAssumption
  <2>2. Len(source[w]) <= MaxResults
    BY <2>1
  <2> QED
    BY <1>2, <2>2, PipeProduce DEF DriverSends, handler
<1>3. ASSUME NEW w \in Handlers, NEW m \in Statuses, DriverEnds(w, m) PROVE Pipe!Next
  <2>1. Len(source[w]) <= MaxResults
    BY <1>3 DEF SafeInv, StreamInv, StatusLast, DriverEnds, StreamOpen
  <2> QED
    BY <1>3, <2>1, PipeProduce DEF DriverEnds, handler
<1>4. ASSUME source' = source, sent' = sent PROVE UNCHANGED <<Input, sent>>
  BY <1>4 DEF Input, ResultOf
<1>5. CASE \E w \in Handlers : WorkerStep(w)
  BY <1>4, <1>5, WorkerFrame DEF SafeInv, TypeInv
<1>6. ASSUME NEW h \in Handlers, HandlerStep(h), ~Deliver(h)
      PROVE  UNCHANGED <<Input, sent>>
  <2>1. source' = source
    BY <1>6, HandlerFrame DEF SafeInv, TypeInv
  <2> USE DEF HandlerOnly, Return, Dies, Join, Joined, JoinThrows, handler
  <2>2. CASE StartStep(h)
    BY <1>4, <2>1, <2>2
    DEF StartStep, StartIgnored, StartTest, StartJoinable, StartJoin, StartJoined, StartJoinThrows,
        StartSetStub, StartSetCallback, StartSetContext, StartSetRunning, StartSpawn,
        StartSpawnFails, StartAssign, StartAssignTerminates
  <2>3. CASE LoopStep(h)
    BY <1>4, <1>6, <2>1, <2>3 DEF LoopStep, WriteFails, SeesCancel, Close
  <2>4. CASE StopStep(h)
    BY <1>4, <2>1, <2>4
    DEF StopStep, StopRunning, StopTestContext, StopCancel, StopCancelNull, StopJoinable, StopJoin,
        StopJoined, StopJoinThrows, StopResetContext, StopResetStub, StopResetCallback
  <2> QED
    BY <1>6, <2>2, <2>3, <2>4 DEF HandlerStep
<1>7. CASE \E h \in Handlers : Arrive(h) \/ ClientCancels(h)
  BY <1>4, <1>7 DEF Arrive, ClientCancels, stream
<1>8. CASE UNCHANGED vars
  BY <1>4, <1>8 DEF vars, stream, handler
<1> QED
  BY <1>1, <1>2, <1>3, <1>5, <1>6, <1>7, <1>8 DEF Next, Environment, Stopped

\* For any number of serial calls and any stream the Subscribe path implements
\* the pipe: the client is given its driver's results in order, each once, none
\* skipped, and nothing after DRIVER_NOT_CONNECTED.
THEOREM SerialImplementsPipe == Callers = "serial" => (Spec => PipeSpec)
<1> SUFFICES ASSUME Callers = "serial" PROVE Spec => PipeSpec
  OBVIOUS
<1>1. Init => SafeInv /\ FlowInv /\ Pipe!Init
  BY InitSafe, InitFlow, PipeInit
<1>2. SafeInv /\ FlowInv /\ [Next]_vars => SafeInv' /\ FlowInv'
  BY NextSafe, NextFlow
<1>3. SafeInv /\ FlowInv /\ [Next]_vars => [Pipe!Next]_(Pipe!pipe)
  BY PipeStep DEF Pipe!pipe
<1> QED
  BY <1>1, <1>2, <1>3, PTL DEF Spec, PipeSpec, Pipe!Spec
-----------------------------------------------------------------------------
(* End to end: pipes in series are a pipe.  Whoever calls Subscribe and     *)
(* shows what it is sent through a pipe of its own, as the RS-485 tab does  *)
(* (Rs485GuiProofs!TabImplementsPipe), shows the driver's results.          *)

VARIABLE log    \* per call, what its client shows of it

DriverLost == {r \in PipeItems : r.code = "DRIVER_NOT_CONNECTED"}

\* The client, from what the handler wrote to what is shown.
Client == INSTANCE ResultPipe WITH
  Subscribers <- Handlers,
  Items <- PipeItems,
  Final <- {},
  input <- sent,
  output <- log

\* The whole way, from the driver's stream to what is shown.
EndToEnd == INSTANCE ResultPipe WITH
  Subscribers <- Handlers,
  Items <- PipeItems,
  Final <- DriverLost,
  input <- Input,
  output <- log

\* The driver and the client are different processes: no step is of both.
Interleaved == [][Input' = Input \/ log' = log]_<<Input, log>>

LogInv ==
  \A h \in Handlers :
    /\ log[h] \in Seq(Result \union {NoResult})
    /\ Len(log[h]) <= Len(sent[h])
    /\ \A i \in 1..Len(log[h]) : log[h][i] = sent[h][i]

LogTyped == log = [h \in Handlers |-> log[h]]

LEMMA LogStep ==
  ASSUME SafeInv, LogInv, LogTyped, [Client!Next]_(Client!pipe), SafeInv'
  PROVE  LogInv' /\ LogTyped'
<1> DEFINE R == Result \union {NoResult}
<1>1. \A h \in Handlers : sent[h] \in Seq(R) /\ sent'[h] \in Seq(R)
  BY DEF SafeInv, TypeInv, TypeOK
<1>2. /\ sent = [h \in Handlers |-> sent[h]]
      /\ \A h \in Handlers : /\ log[h] \in Seq(R) /\ Len(log[h]) <= Len(sent[h])
                             /\ \A i \in 1..Len(log[h]) : log[h][i] = sent[h][i]
  BY DEF SafeInv, TypeInv, TypeOK, LogInv
<1> HIDE DEF R
<1>3. CASE UNCHANGED <<sent, log>>
  BY <1>3 DEF LogInv, LogTyped
<1>4. ASSUME NEW s \in Handlers, NEW i, sent' = [sent EXCEPT ![s] = Append(@, i)], log' = log
      PROVE  LogInv' /\ LogTyped'
  <2>1. ASSUME NEW h \in Handlers
        PROVE  Len(log[h]) <= Len(sent'[h]) /\ \A k \in 1..Len(log[h]) : sent'[h][k] = sent[h][k]
    <3>1. CASE h # s
      BY <1>2, <1>4, <3>1
    <3>2. CASE h = s
      <4>1. sent'[h] = Append(sent[h], i)
        BY <1>2, <1>4, <3>2
      <4>2. Len(sent'[h]) = Len(sent[h]) + 1 /\ Len(sent[h]) \in Nat
            /\ \A k \in 1..Len(sent[h]) : sent'[h][k] = sent[h][k]
        BY <1>1, <4>1
      <4>3. Len(log[h]) \in Nat /\ Len(log[h]) <= Len(sent[h])
        BY <1>2
      <4> QED
        BY <4>2, <4>3
    <3> QED
      BY <3>1, <3>2
  <2> QED
    BY <1>2, <1>4, <2>1 DEF LogInv, LogTyped, R
<1>5. ASSUME NEW s \in Handlers, Len(log[s]) < Len(sent[s]), sent' = sent,
             log' = [log EXCEPT ![s] = Append(@, sent[s][Len(log[s]) + 1])]
      PROVE  LogInv' /\ LogTyped'
  <2> DEFINE n == Len(log[s])  x == sent[s][n + 1]
  <2>1. n \in Nat /\ Len(sent[s]) \in Nat /\ n + 1 <= Len(sent[s]) /\ x \in R
    BY <1>1, <1>2, <1>5
  <2>2. /\ log'[s] = Append(log[s], x)
        /\ \A h \in Handlers : h # s => log'[h] = log[h]
        /\ LogTyped'
    BY <1>5 DEF LogTyped
  <2>3. log'[s] \in Seq(R) /\ Len(log'[s]) = n + 1
        /\ \A k \in 1..(n + 1) : log'[s][k] = IF k = n + 1 THEN x ELSE log[s][k]
    BY <1>2, <2>1, <2>2
  <2>4. \A k \in 1..(n + 1) : log'[s][k] = sent[s][k]
    <3> TAKE k \in 1..(n + 1)
    <3>1. CASE k = n + 1
      BY <2>1, <2>3, <3>1
    <3>2. CASE k # n + 1
      <4>1. k \in 1..n
        BY <2>1, <3>2
      <4> QED
        BY <1>2, <2>3, <3>2, <4>1
    <3> QED
      BY <3>1, <3>2
  <2> HIDE DEF n, x
  <2> QED
    BY <1>2, <1>5, <2>1, <2>2, <2>3, <2>4 DEF LogInv, R
<1> QED
  BY <1>3, <1>4, <1>5 DEF Client!Next, Client!Produce, Client!Give, Client!pipe

\* What was written is the beginning of the input, and the loss of the driver
\* is written last.
LEMMA SentIsInput ==
  ASSUME SafeInv, FlowInv, NEW h \in Handlers
  PROVE  /\ Len(sent[h]) \in Nat /\ Len(Input[h]) \in Nat /\ Len(sent[h]) <= Len(Input[h])
         /\ \A i \in 1..Len(sent[h]) :
              /\ sent[h][i] = Input[h][i]
              /\ sent[h][i] \in DriverLost => i = Len(sent[h])
<1> DEFINE s == sent[h]  n == Len(source[h])
<1>1. /\ Len(s) \in Nat /\ n \in Nat /\ read[h] \in Nat /\ Len(s) <= read[h] /\ read[h] <= n
      /\ \A i \in 1..Len(s) : s[i] = ResultOf(h, i)
      /\ \A i \in 1..n : source[h][i] \in Results \union Statuses
      /\ \A i \in 1..n : source[h][i] \in Statuses => i = n
  BY DEF SafeInv, TypeInv, TypeOK, StreamInv, StatusLast, FlowInv, Flow, SentIs
<1>2. Len(Input[h]) = n /\ \A i \in 1..n : Input[h][i] = ResultOf(h, i)
  BY <1>1 DEF Input
<1> HIDE DEF s, n
<1>3. ASSUME NEW i \in 1..Len(s), s[i] \in DriverLost
      PROVE  i = Len(s)
  <2>1. i \in 1..n
    BY <1>1
  <2>2. CodeOf(source[h][i]) = "DRIVER_NOT_CONNECTED"
    <3>1. s[i] = ResultOf(h, i)
      BY <1>1
    <3>2. s[i].code = "DRIVER_NOT_CONNECTED"
      BY <1>3 DEF DriverLost
    <3>3. ResultOf(h, i).code = CodeOf(source[h][i])
      BY DEF ResultOf
    <3> QED
      BY <3>1, <3>2, <3>3
  <2>3. source[h][i] = "UNAVAILABLE"
    BY <2>2 DEF CodeOf
  <2>4. source[h][i] \in Statuses
    BY <1>1, <2>1, <2>3, ConstantsAssumption DEF ConstantsAssumption
  <2> QED
    BY <1>1, <2>1, <2>4
<1>4. \A i \in 1..Len(s) : s[i] = Input[h][i]
  BY <1>1, <1>2
<1> QED
  BY <1>1, <1>2, <1>3, <1>4 DEF s

LEMMA EndToEndStep ==
  ASSUME SafeInv, FlowInv, LogInv, LogTyped, [Next]_vars, [Client!Next]_(Client!pipe),
         [Input' = Input \/ log' = log]_<<Input, log>>
  PROVE  [EndToEnd!Next]_(EndToEnd!pipe)
<1>1. CASE log' = log
  <2>1. Pipe!Next \/ UNCHANGED <<Input, sent>>
    BY PipeStep
  <2>2. ASSUME NEW h \in Handlers, Pipe!Produce(h) PROVE EndToEnd!Next
    BY <1>1, <2>2 DEF Pipe!Produce, EndToEnd!Produce, EndToEnd!Next
  <2>3. ASSUME NEW h \in Handlers, Pipe!Give(h) PROVE UNCHANGED Input
    BY <2>3 DEF Pipe!Give
  <2> QED
    BY <1>1, <2>1, <2>2, <2>3 DEF Pipe!Next, EndToEnd!pipe
<1>2. CASE log' # log
  <2>1. Input' = Input
    BY <1>2
  <2>2. PICK h \in Handlers : Client!Give(h)
    BY <1>2 DEF Client!Next, Client!Produce, Client!pipe
  <2>3. /\ Len(log[h]) < Len(sent[h])
        /\ log' = [log EXCEPT ![h] = Append(@, sent[h][Len(log[h]) + 1])]
    BY <2>2 DEF Client!Give
  <2>4. /\ Len(log[h]) \in Nat
        /\ \A i \in 1..Len(log[h]) : log[h][i] = sent[h][i]
        /\ log[h] # <<>> => Len(log[h]) # 0
    BY DEF LogInv
  <2>5. /\ Len(sent[h]) \in Nat /\ Len(Input[h]) \in Nat /\ Len(sent[h]) <= Len(Input[h])
        /\ \A i \in 1..Len(sent[h]) :
              /\ sent[h][i] = Input[h][i]
              /\ sent[h][i] \in DriverLost => i = Len(sent[h])
    BY SentIsInput
  <2>6. Len(log[h]) < Len(Input[h])
    BY <2>3, <2>4, <2>5
  <2>7. log[h] # <<>> => log[h][Len(log[h])] \notin DriverLost
    BY <2>3, <2>4, <2>5
  <2>8. sent[h][Len(log[h]) + 1] = Input[h][Len(log[h]) + 1]
    BY <2>3, <2>4, <2>5
  <2>9. EndToEnd!Give(h)
    BY <2>1, <2>3, <2>6, <2>7, <2>8 DEF EndToEnd!Give
  <2> QED
    BY <2>9 DEF EndToEnd!Next
<1> QED
  BY <1>1, <1>2

\* For any number of serial calls, any stream and any client that is itself a
\* pipe: what is shown are the driver's results in order, each once, none
\* skipped, and nothing after the loss of the driver.
THEOREM SerialEndToEnd ==
  Callers = "serial" => (Spec /\ Client!Spec /\ Interleaved => EndToEnd!Spec)
<1> SUFFICES ASSUME Callers = "serial"
             PROVE  Spec /\ Client!Spec /\ Interleaved => EndToEnd!Spec
  OBVIOUS
<1>1. Init /\ Client!Init => SafeInv /\ FlowInv /\ LogInv /\ LogTyped /\ EndToEnd!Init
  <2> SUFFICES ASSUME Init, Client!Init PROVE LogInv /\ LogTyped /\ EndToEnd!Init
    BY InitSafe, InitFlow
  <2>1. log = [h \in Handlers |-> <<>>]
    BY DEF Client!Init
  <2>2. Input = [h \in Handlers |-> <<>>]
    BY PipeInit DEF Pipe!Init
  <2>3. <<>> \in Seq(Result \union {NoResult}) /\ Len(<<>>) = 0
    OBVIOUS
  <2>4. \A h \in Handlers : log[h] = <<>> /\ sent[h] = <<>>
    BY <2>1 DEF Init
  <2> QED
    BY <2>1, <2>2, <2>3, <2>4 DEF LogInv, LogTyped, EndToEnd!Init
<1>2. SafeInv /\ FlowInv /\ LogInv /\ LogTyped /\ [Next]_vars /\ [Client!Next]_(Client!pipe)
        => SafeInv' /\ FlowInv' /\ LogInv' /\ LogTyped'
  BY NextSafe, NextFlow, LogStep
<1>3. SafeInv /\ FlowInv /\ LogInv /\ LogTyped /\ [Next]_vars /\ [Client!Next]_(Client!pipe)
        /\ [Input' = Input \/ log' = log]_<<Input, log>>
        => [EndToEnd!Next]_(EndToEnd!pipe)
  BY EndToEndStep
<1> QED
  BY <1>1, <1>2, <1>3, PTL DEF Spec, Client!Spec, Interleaved, EndToEnd!Spec
=============================================================================
