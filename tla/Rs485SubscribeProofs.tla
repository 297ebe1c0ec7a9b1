------------------------ MODULE Rs485SubscribeProofs ------------------------
(***************************************************************************)
(* Theorems about the RS-485 Subscribe path, for any number of calls, any  *)
(* driver stream and any interleaving.  Where a theorem assumes Callers =  *)
(* "serial", a call arrives only when no other one is in flight.           *)
(***************************************************************************)
EXTENDS Rs485SubscribeProps, TLAPS

\* The result made of an element of a stream is a well-formed one.
LEMMA ResultOfType ==
  ASSUME NEW h \in Handlers, NEW n \in Nat
  PROVE  ResultOf(h, n) \in Result
  BY DEF ResultOf, Result, CodeOf, Codes

\* The initial state has its types.
LEMMA InitType == Init => TypeOK
<1> SUFFICES ASSUME Init PROVE TypeOK
  OBVIOUS
<1>1. source \in [Handlers -> Seq(Results \union Statuses)] /\ \A h \in Handlers : read[h] <= Len(source[h])
  BY DEF Init
<1>2. queue \in [Handlers -> Seq(Result \union {NoResult})]
  BY DEF Init
<1>3. sent \in [Handlers -> Seq(Result \union {NoResult})]
  BY DEF Init
<1>4. pc \in [Handlers -> HandlerPlaces]
  BY DEF Init, HandlerPlaces
<1>5. held \in [Handlers -> Result \union {NoResult}]
  BY DEF Init
<1>6. /\ worker \in [Handlers -> WorkerPlaces]
      /\ uses \in [Handlers -> Maybe] /\ target \in [Handlers -> Maybe]
      /\ \A w \in Handlers : worker[w] = "none" /\ uses[w] = NoHandler /\ target[w] \notin Handlers
  BY ConstantsAssumption DEF Init, WorkerPlaces, Maybe, ConstantsAssumption
<1> QED
  BY <1>1, <1>2, <1>3, <1>4, <1>5, <1>6 DEF Init, TypeOK, Maybe, Faults, Notifying

\* The places of a handler that has not created its worker yet.
Early == {"idle", "start", "joinable", "startJoin", "startJoining",
          "setStub", "setCallback", "setContext", "setRunning", "spawn"}

\* The types are inductive with the fact that a handler makes one worker.
TypeInv == TypeOK /\ \A h \in Handlers : pc[h] \in Early => worker[h] = "none"

\* What a step of a handler leaves alone, and what it can do to its worker, its
\* queue and its output.
LEMMA HandlerFrame ==
  ASSUME TypeOK, NEW h \in Handlers, HandlerStep(h)
  PROVE  /\ UNCHANGED <<uses, target, held, read, source, cancelled>>
         /\ pc'[h] \in HandlerPlaces /\ pc' = [pc EXCEPT ![h] = pc'[h]]
         /\ accepting' = accepting \/ accepting' = [accepting EXCEPT ![h] = FALSE]
         /\ \/ worker' = worker
            \/ /\ pc[h] = "spawn" /\ pc'[h] = "assign"
               /\ worker' = [worker EXCEPT ![h] = "spawned"]
         /\ \/ sent' = sent /\ queue' = queue
            \/ sent' = sent /\ queue' = [queue EXCEPT ![h] = <<>>]
            \/ sent' = sent /\ queue[h] # <<>> /\ queue' = [queue EXCEPT ![h] = Tail(queue[h])]
            \/ /\ queue[h] # <<>> /\ queue' = [queue EXCEPT ![h] = Tail(queue[h])]
               /\ sent' = [sent EXCEPT ![h] = Append(sent[h], Head(queue[h]))]
<1> DEFINE Frame(l) ==
         /\ UNCHANGED <<uses, target, held, read, source, cancelled>>
         /\ pc' = [pc EXCEPT ![h] = l]
         /\ accepting' = accepting \/ accepting' = [accepting EXCEPT ![h] = FALSE]
         /\ \/ worker' = worker
            \/ pc[h] = "spawn" /\ l = "assign" /\ worker' = [worker EXCEPT ![h] = "spawned"]
         /\ \/ sent' = sent /\ queue' = queue
            \/ sent' = sent /\ queue' = [queue EXCEPT ![h] = <<>>]
            \/ sent' = sent /\ queue[h] # <<>> /\ queue' = [queue EXCEPT ![h] = Tail(queue[h])]
            \/ /\ queue[h] # <<>> /\ queue' = [queue EXCEPT ![h] = Tail(queue[h])]
               /\ sent' = [sent EXCEPT ![h] = Append(sent[h], Head(queue[h]))]
<1> DEFINE Framed == \E l \in HandlerPlaces : Frame(l)
<1>0. SUFFICES Framed
  <2>1. ASSUME NEW l \in HandlerPlaces, Frame(l) PROVE pc'[h] = l
    BY <2>1 DEF TypeOK
  <2> QED
    BY <2>1
<1>1. ASSUME NEW l \in HandlerPlaces, HandlerOnly(h, l) PROVE Framed
  BY <1>1 DEF HandlerOnly, Goto, stream, threads
<1>2. Return(h) => Framed
  <2>1. Return(h) => Frame("returned")
    BY DEF Return, Goto, stream, threads
  <2> QED
    BY <2>1 DEF HandlerPlaces
<1>3. ASSUME NEW f, Dies(f) PROVE Framed
  <2>1. Frame(pc[h]) /\ pc[h] \in HandlerPlaces
    BY <1>3 DEF Dies, TypeOK, stream, threads, handler
  <2> QED
    BY <2>1
<1>4. CASE StartStep(h)
  <2>1. StartSpawn(h) => Framed
    <3>1. StartSpawn(h) => Frame("assign")
      BY DEF StartSpawn, Goto, stream, members
    <3> QED
      BY <3>1 DEF HandlerPlaces
  <2> HIDE DEF Framed
  <2>2. CASE StartIgnored(h) \/ StartTest(h) \/ StartJoinable(h)
    BY <1>1, <2>2 DEF StartIgnored, StartTest, StartJoinable, HandlerPlaces
  <2>3. CASE StartJoin(h) \/ StartJoined(h) \/ StartJoinThrows(h)
    BY <1>1, <1>2, <2>3 DEF StartJoin, StartJoined, StartJoinThrows, Join, Joined, JoinThrows,
       HandlerPlaces
  <2>4. CASE \/ StartSetStub(h) \/ StartSetCallback(h) \/ StartSetContext(h) \/ StartSetRunning(h)
             \/ StartSpawnFails(h)
    BY <1>1, <2>4 DEF StartSetStub, StartSetCallback, StartSetContext, StartSetRunning,
       StartSpawnFails, HandlerPlaces
  <2>5. CASE StartAssign(h)
    BY <1>1, <2>5 DEF StartAssign, HandlerPlaces
  <2>6. CASE StartAssignTerminates(h)
    BY <1>3, <2>6 DEF StartAssignTerminates
  <2> QED
    BY <1>4, <2>1, <2>2, <2>3, <2>4, <2>5, <2>6 DEF StartStep
<1>5. CASE LoopStep(h)
  <2>1. Frame("loop") \/ Frame("close") \/ Frame("stop")
    BY <1>5 DEF LoopStep, Deliver, WriteFails, SeesCancel, Close, Goto, threads, stream
  <2> HIDE DEF Frame
  <2> QED
    BY <2>1 DEF HandlerPlaces
<1>6. CASE StopStep(h)
  <2> HIDE DEF Framed
  <2>1. CASE StopRunning(h) \/ StopTestContext(h) \/ StopCancel(h) \/ StopJoinable(h)
    BY <1>1, <2>1 DEF StopRunning, StopTestContext, StopCancel, StopJoinable, HandlerPlaces
  <2>2. CASE StopCancelNull(h)
    BY <1>3, <2>2 DEF StopCancelNull
  <2>3. CASE StopJoin(h) \/ StopJoined(h) \/ StopJoinThrows(h)
    BY <1>1, <1>2, <2>3 DEF StopJoin, StopJoined, StopJoinThrows, Join, Joined, JoinThrows,
       HandlerPlaces
  <2>4. CASE StopResetContext(h) \/ StopResetStub(h) \/ StopResetCallback(h)
    BY <1>1, <1>2, <2>4 DEF StopResetContext, StopResetStub, StopResetCallback, HandlerPlaces
  <2> QED
    BY <1>6, <2>1, <2>2, <2>3, <2>4 DEF StopStep
<1> HIDE DEF Framed
<1> QED
  BY <1>4, <1>5, <1>6 DEF HandlerStep

\* The members of the subscriber keep their types.
LEMMA MembersType ==
  ASSUME TypeOK, NEW h \in Handlers, HandlerStep(h)
  PROVE  /\ running' \in BOOLEAN /\ stub' \in BOOLEAN
         /\ callback' \in Maybe /\ context' \in Maybe
         /\ thread' \in Maybe /\ joiner' \in Maybe
         /\ called' \in BOOLEAN /\ tried' \in BOOLEAN
         /\ fault' \in Faults
<1> USE DEF TypeOK, Maybe, Faults, members, call, handler, HandlerOnly, Return, Dies,
            Join, Joined, JoinThrows
<1>1. CASE StartStep(h)
  BY <1>1 DEF StartStep, StartIgnored, StartTest, StartJoinable, StartJoin, StartJoined,
     StartJoinThrows, StartSetStub, StartSetCallback, StartSetContext, StartSetRunning,
     StartSpawn, StartSpawnFails, StartAssign, StartAssignTerminates
<1>2. CASE LoopStep(h)
  BY <1>2 DEF LoopStep, Deliver, WriteFails, SeesCancel, Close
<1>3. CASE StopStep(h)
  BY <1>3 DEF StopStep, StopRunning, StopTestContext, StopCancel, StopCancelNull,
     StopJoinable, StopJoin, StopJoined, StopJoinThrows, StopResetContext, StopResetStub,
     StopResetCallback
<1> QED
  BY <1>1, <1>2, <1>3 DEF HandlerStep

\* The steps of a handler keep the types.
LEMMA HandlerType ==
  ASSUME TypeInv, NEW h \in Handlers, HandlerStep(h)
  PROVE  TypeInv'
<1>0. TypeOK
  BY DEF TypeInv
<1>1. /\ UNCHANGED <<uses, target, held, read, source, cancelled>>
      /\ pc'[h] \in HandlerPlaces /\ pc' = [pc EXCEPT ![h] = pc'[h]]
      /\ accepting' = accepting \/ accepting' = [accepting EXCEPT ![h] = FALSE]
  BY <1>0, HandlerFrame
<1>2. \/ worker' = worker
      \/ pc[h] = "spawn" /\ pc'[h] = "assign" /\ worker' = [worker EXCEPT ![h] = "spawned"]
  BY <1>0, HandlerFrame
<1>3. pc' \in [Handlers -> HandlerPlaces] /\ accepting' \in [Handlers -> BOOLEAN]
  BY <1>0, <1>1 DEF TypeOK
<1>4. /\ worker' \in [Handlers -> WorkerPlaces]
      /\ \A w \in Handlers :
           /\ uses'[w] = NoHandler <=> worker'[w] \in {"none", "spawned", "subscribing", "exited"}
           /\ target'[w] \in Handlers <=> worker'[w] = "pushing"
           /\ Notifying(w)' => read'[w] > 0
           /\ pc'[w] \in Early => worker'[w] = "none"
  <2>1. CASE worker' = worker
    <3>1. pc'[h] \in Early => pc[h] \in Early
      <4> USE DEF Early, Goto, HandlerOnly, Return, Dies, Join, Joined, JoinThrows, handler, TypeOK
      <4>1. CASE StartStep(h)
        BY <1>0, <2>1, <4>1 DEF StartStep, StartIgnored, StartTest, StartJoinable, StartJoin, StartJoined,
           StartJoinThrows, StartSetStub, StartSetCallback, StartSetContext, StartSetRunning,
           StartSpawn, StartSpawnFails, StartAssign, StartAssignTerminates
      <4>2. CASE LoopStep(h)
        BY <1>0, <4>2 DEF LoopStep, Deliver, WriteFails, SeesCancel, Close
      <4>3. CASE StopStep(h)
        BY <1>0, <4>3 DEF StopStep, StopRunning, StopTestContext, StopCancel, StopCancelNull,
           StopJoinable, StopJoin, StopJoined, StopJoinThrows, StopResetContext, StopResetStub,
           StopResetCallback
      <4> QED
        BY <4>1, <4>2, <4>3 DEF HandlerStep
    <3>2. \A w \in Handlers : pc'[w] \in Early => pc[w] \in Early
      BY <1>0, <1>1, <3>1 DEF TypeOK
    <3> QED
      BY <1>1, <2>1, <3>2 DEF TypeInv, TypeOK, Notifying
  <2>2. CASE pc[h] = "spawn" /\ pc'[h] = "assign" /\ worker' = [worker EXCEPT ![h] = "spawned"]
    <3>1. /\ worker[h] = "none" /\ worker'[h] = "spawned"
          /\ \A w \in Handlers : w # h => worker'[w] = worker[w] /\ pc'[w] = pc[w]
      BY <1>0, <1>1, <2>2 DEF TypeInv, TypeOK, Early
    <3>2. worker' \in [Handlers -> WorkerPlaces]
      BY <1>0, <2>2 DEF TypeOK, WorkerPlaces
    <3>3. pc'[h] \notin Early
      BY <2>2 DEF Early
    <3> QED
      BY <1>1, <3>1, <3>2, <3>3 DEF TypeInv, TypeOK, Notifying
  <2> QED
    BY <1>2, <2>1, <2>2
<1>5. queue' \in [Handlers -> Seq(Result \union {NoResult})]
  <2>1. \/ queue' \in {queue, [queue EXCEPT ![h] = <<>>]}
        \/ queue[h] # <<>> /\ queue' = [queue EXCEPT ![h] = Tail(queue[h])]
    BY <1>0, HandlerFrame
  <2>2. queue[h] # <<>> => Tail(queue[h]) \in Seq(Result \union {NoResult})
    BY <1>0 DEF TypeOK
  <2>3. <<>> \in Seq(Result \union {NoResult})
    OBVIOUS
  <2> QED
    BY <1>0, <2>1, <2>2, <2>3 DEF TypeOK
<1>6. sent' \in [Handlers -> Seq(Result \union {NoResult})]
  <2>1. \/ sent' = sent
        \/ queue[h] # <<>> /\ sent' = [sent EXCEPT ![h] = Append(sent[h], Head(queue[h]))]
    BY <1>0, HandlerFrame
  <2>2. queue[h] # <<>> => Append(sent[h], Head(queue[h])) \in Seq(Result \union {NoResult})
    BY <1>0 DEF TypeOK
  <2> QED
    BY <1>0, <2>1, <2>2 DEF TypeOK
<1>7. /\ running' \in BOOLEAN /\ stub' \in BOOLEAN
      /\ callback' \in Maybe /\ context' \in Maybe
      /\ thread' \in Maybe /\ joiner' \in Maybe
      /\ called' \in BOOLEAN /\ tried' \in BOOLEAN
      /\ fault' \in Faults
  BY <1>0, MembersType
<1>8. TypeOK'
  BY <1>0, <1>1, <1>3, <1>4, <1>5, <1>6, <1>7 DEF TypeOK
<1> QED
  BY <1>4, <1>8 DEF TypeInv

\* A step in which only the worker w moves, and reads nothing, keeps the types.
LEMMA WorkerMovesType ==
  ASSUME TypeInv, NEW w \in Handlers, NEW l \in WorkerPlaces \ {"none"},
         worker[w] # "none", worker' = [worker EXCEPT ![w] = l],
         uses' \in [Handlers -> Maybe], target' \in [Handlers -> Maybe],
         held' \in [Handlers -> Result \union {NoResult}],
         \A v \in Handlers : v # w => uses'[v] = uses[v] /\ target'[v] = target[v],
         uses'[w] = NoHandler <=> l \in {"none", "spawned", "subscribing", "exited"},
         target'[w] \in Handlers <=> l = "pushing",
         read' \in [Handlers -> Nat],
         \A v \in Handlers : read'[v] <= Len(source[v]) /\ read'[v] >= read[v],
         Notifying(w)' => read'[w] > 0,
         queue' \in [Handlers -> Seq(Result \union {NoResult})],
         running' \in BOOLEAN, called' \in BOOLEAN, 
         UNCHANGED <<stub, callback, context, tried, thread, joiner, source,
                     pc, accepting, sent, cancelled, fault>>
  PROVE  TypeInv'
<1>1. /\ worker' \in [Handlers -> WorkerPlaces] /\ worker'[w] = l
      /\ \A v \in Handlers : v # w => worker'[v] = worker[v]
  BY DEF TypeInv, TypeOK
<1>2. \A v \in Handlers :
        /\ uses'[v] = NoHandler <=> worker'[v] \in {"none", "spawned", "subscribing", "exited"}
        /\ target'[v] \in Handlers <=> worker'[v] = "pushing"
        /\ pc'[v] \in Early => worker'[v] = "none"
  BY <1>1 DEF TypeInv, TypeOK
<1>3. \A v \in Handlers : Notifying(v)' => read'[v] > 0
  <2> SUFFICES ASSUME NEW v \in Handlers, v # w, Notifying(v)' PROVE read'[v] > 0
    OBVIOUS
  <2>1. Notifying(v) /\ read[v] \in Nat /\ read'[v] \in Nat /\ read'[v] >= read[v] /\ read[v] > 0
    BY <1>1 DEF Notifying, TypeInv, TypeOK
  <2> QED
    BY <2>1
<1>4. TypeOK'
  BY <1>1, <1>2, <1>3 DEF TypeInv, TypeOK
<1> QED
  BY <1>2, <1>4 DEF TypeInv

\* The steps of a worker keep the types.
LEMMA WorkerType ==
  ASSUME TypeInv, NEW w \in Handlers, WorkerStep(w)
  PROVE  TypeInv'
<1> USE DEF members, call, threads, stream, handler
<1>0. TypeOK
  BY DEF TypeInv
<1>1. ASSUME NEW f \in Faults, Dies(f) PROVE TypeInv'
  BY <1>0, <1>1 DEF Dies, TypeInv, TypeOK, Notifying
<1>2. ASSUME NEW l \in WorkerPlaces \ {"none"}, WorkerGoes(w, l), worker[w] # "none",
             running' \in BOOLEAN, called' \in BOOLEAN,
             uses' \in [Handlers -> Maybe], \A v \in Handlers : v # w => uses'[v] = uses[v],
             uses'[w] = NoHandler <=> l \in {"none", "spawned", "subscribing", "exited"},
             held' \in [Handlers -> Result \union {NoResult}],
             worker[w] # "pushing", l # "pushing", l = "testing" => FALSE,
             l = "calling" => worker[w] = "testing"
      PROVE TypeInv'
  <2>1. /\ worker' = [worker EXCEPT ![w] = l] /\ target' = target /\ read' = read /\ queue' = queue
        /\ UNCHANGED <<stub, callback, context, tried, thread, joiner, source,
                       pc, accepting, sent, cancelled, fault>>
    BY <1>2 DEF WorkerGoes
  <2>2. Notifying(w)' => read'[w] > 0
    BY <1>0, <1>2, <2>1 DEF Notifying, TypeOK
  <2>3. /\ \A v \in Handlers : read'[v] <= Len(source[v]) /\ read'[v] >= read[v]
        /\ read' \in [Handlers -> Nat] /\ queue' \in [Handlers -> Seq(Result \union {NoResult})]
        /\ target' \in [Handlers -> Maybe] /\ (target'[w] \in Handlers <=> l = "pushing")
    BY <1>0, <1>2, <2>1 DEF TypeOK
  <2> QED
    BY <1>2, <2>1, <2>2, <2>3, WorkerMovesType
<1>3. CASE WorkerNullStub(w) \/ WorkerBadContext(w) \/ WorkerContextFreed(w) \/ WorkerPushDangling(w)
  BY <1>1, <1>3 DEF WorkerNullStub, WorkerBadContext, WorkerContextFreed, WorkerPushDangling, Faults
<1>4. CASE WorkerTakesStub(w) \/ WorkerLoop(w) \/ WorkerReadFails(w) \/ WorkerFinishSilently(w)
           \/ WorkerTestsCallback(w)
  <2>1. UNCHANGED <<running, called, uses, held>>
    BY <1>4 DEF WorkerTakesStub, WorkerLoop, WorkerReadFails, WorkerFinishSilently, WorkerTestsCallback
  <2>2. \/ worker[w] = "spawned" /\ WorkerGoes(w, "subscribing")
        \/ worker[w] = "loop" /\ (WorkerGoes(w, "reading") \/ WorkerGoes(w, "finishing"))
        \/ worker[w] = "reading" /\ WorkerGoes(w, "finishing")
        \/ worker[w] = "finishing" /\ WorkerGoes(w, "exiting")
        \/ worker[w] = "testing" /\ WorkerGoes(w, "calling")
    BY <1>4 DEF WorkerTakesStub, WorkerLoop, WorkerReadFails, WorkerFinishSilently, WorkerTestsCallback
  <2>3. /\ running' \in BOOLEAN /\ called' \in BOOLEAN /\ uses' \in [Handlers -> Maybe]
        /\ held' \in [Handlers -> Result \union {NoResult}]
        /\ uses'[w] = NoHandler <=> worker[w] \in {"none", "spawned", "subscribing", "exited"}
        /\ \A v \in Handlers : v # w => uses'[v] = uses[v]
    BY <1>0, <2>1 DEF TypeOK
  <2> QED
    BY <1>2, <2>2, <2>3 DEF WorkerPlaces
<1>5. CASE WorkerSubscribe(w)
  <2>1. /\ worker[w] = "subscribing" /\ WorkerGoes(w, "loop") /\ context # NoHandler
        /\ called' = TRUE /\ running' = running /\ held' = held
        /\ uses' = [uses EXCEPT ![w] = context]
    BY <1>5 DEF WorkerSubscribe
  <2>2. /\ uses' \in [Handlers -> Maybe] /\ uses'[w] # NoHandler
        /\ \A v \in Handlers : v # w => uses'[v] = uses[v]
        /\ running' \in BOOLEAN /\ held' \in [Handlers -> Result \union {NoResult}]
    BY <1>0, <2>1 DEF TypeOK
  <2> QED
    BY <1>2, <2>1, <2>2 DEF WorkerPlaces
<1>6. CASE WorkerDrops(w)
  <2>1. /\ worker[w] \in {"testing", "calling"} /\ UNCHANGED <<running, called, uses>>
        /\ WorkerGoes(w, "exiting") \/ WorkerGoes(w, "loop")
        /\ held' = [held EXCEPT ![w] = NoResult]
    BY <1>6 DEF WorkerDrops, AfterNotify
  <2>2. /\ uses' \in [Handlers -> Maybe] /\ uses'[w] # NoHandler
        /\ \A v \in Handlers : v # w => uses'[v] = uses[v]
        /\ running' \in BOOLEAN /\ called' \in BOOLEAN
        /\ held' \in [Handlers -> Result \union {NoResult}]
    BY <1>0, <2>1 DEF TypeOK
  <2> QED
    BY <1>2, <2>1, <2>2 DEF WorkerPlaces
<1>7. CASE WorkerExits(w)
  <2>1. /\ worker[w] = "exiting" /\ WorkerGoes(w, "exited")
        /\ running' = FALSE /\ called' = called /\ held' = held
        /\ uses' = [uses EXCEPT ![w] = NoHandler]
    BY <1>7 DEF WorkerExits
  <2>2. /\ uses' \in [Handlers -> Maybe] /\ uses'[w] = NoHandler
        /\ \A v \in Handlers : v # w => uses'[v] = uses[v]
        /\ called' \in BOOLEAN /\ held' \in [Handlers -> Result \union {NoResult}]
    BY <1>0, <2>1 DEF TypeOK, Maybe
  <2> QED
    BY <1>2, <2>1, <2>2 DEF WorkerPlaces
<1>8. ASSUME NEW n \in Nat, n > 0, n >= read[w], n <= Len(source[w]),
             worker[w] \in {"reading", "finishing"}, worker' = [worker EXCEPT ![w] = "testing"],
             read' = [read EXCEPT ![w] = n], held' = [held EXCEPT ![w] = ResultOf(w, n)],
             UNCHANGED <<members, uses, target, source, handler, fault>>
      PROVE TypeInv'
  <2>1. /\ held' \in [Handlers -> Result \union {NoResult}]
        /\ read' \in [Handlers -> Nat] /\ read'[w] = n
        /\ \A v \in Handlers : v # w => read'[v] = read[v]
    BY <1>0, <1>8, ResultOfType DEF TypeOK
  <2>2. \A v \in Handlers : read'[v] <= Len(source[v]) /\ read'[v] >= read[v]
    BY <1>0, <1>8, <2>1 DEF TypeOK
  <2>3. /\ uses' \in [Handlers -> Maybe] /\ target' \in [Handlers -> Maybe]
        /\ uses'[w] # NoHandler /\ target'[w] \notin Handlers
        /\ queue' \in [Handlers -> Seq(Result \union {NoResult})]
        /\ running' \in BOOLEAN /\ called' \in BOOLEAN
    BY <1>0, <1>8 DEF TypeOK
  <2>4. /\ UNCHANGED <<uses, target, stub, callback, context, tried, thread, joiner, source,
                       pc, accepting, sent, cancelled, fault>>
    BY <1>8
  <2> QED
    BY <1>8, <2>1, <2>2, <2>3, <2>4, WorkerMovesType DEF WorkerPlaces
<1>9. CASE WorkerRead(w)
  <2> DEFINE n == read[w] + 1
  <2>1. n \in Nat /\ n > 0 /\ n >= read[w] /\ n <= Len(source[w])
    BY <1>0, <1>9 DEF WorkerRead, HasNext, TypeOK
  <2>2. /\ worker[w] = "reading" /\ worker' = [worker EXCEPT ![w] = "testing"]
        /\ read' = [read EXCEPT ![w] = n] /\ held' = [held EXCEPT ![w] = ResultOf(w, n)]
        /\ UNCHANGED <<members, uses, target, source, handler, fault>>
    BY <1>9 DEF WorkerRead
  <2> HIDE DEF n
  <2> QED
    BY <1>8, <2>1, <2>2
<1>10. CASE WorkerFinishError(w)
  <2> DEFINE n == Len(source[w])
  <2>1. n \in Nat /\ n > 0 /\ n >= read[w] /\ n <= Len(source[w])
    BY <1>0, <1>10 DEF WorkerFinishError, Ended, TypeOK
  <2>2. /\ worker[w] = "finishing" /\ worker' = [worker EXCEPT ![w] = "testing"]
        /\ read' = [read EXCEPT ![w] = n] /\ held' = [held EXCEPT ![w] = ResultOf(w, n)]
        /\ UNCHANGED <<members, uses, target, source, handler, fault>>
    BY <1>10 DEF WorkerFinishError
  <2> HIDE DEF n
  <2> QED
    BY <1>8, <2>1, <2>2
<1>11. CASE WorkerCalls(w)
  <2>1. /\ worker[w] = "calling" /\ worker' = [worker EXCEPT ![w] = "pushing"]
        /\ target' = [target EXCEPT ![w] = callback] /\ callback # NoHandler
        /\ UNCHANGED <<members, uses, held, stream, handler, fault>>
    BY <1>11 DEF WorkerCalls
  <2>2. /\ target' \in [Handlers -> Maybe] /\ target'[w] \in Handlers
        /\ \A v \in Handlers : v # w => target'[v] = target[v]
    BY <1>0, <2>1 DEF TypeOK, Maybe
  <2>3. /\ uses' \in [Handlers -> Maybe] /\ held' \in [Handlers -> Result \union {NoResult}]
        /\ uses'[w] # NoHandler
        /\ queue' \in [Handlers -> Seq(Result \union {NoResult})]
        /\ running' \in BOOLEAN /\ called' \in BOOLEAN
        /\ read' \in [Handlers -> Nat] /\ read'[w] > 0
        /\ \A v \in Handlers : read'[v] <= Len(source[v]) /\ read'[v] >= read[v]
    BY <1>0, <2>1 DEF TypeOK, Notifying
  <2> QED
    BY <2>1, <2>2, <2>3, WorkerMovesType DEF WorkerPlaces
<1>12. CASE WorkerPush(w)
  <2>1. /\ worker[w] = "pushing" /\ held' = [held EXCEPT ![w] = NoResult]
        /\ \/ worker' = [worker EXCEPT ![w] = "exiting"]
           \/ worker' = [worker EXCEPT ![w] = "loop"]
        /\ target' = [target EXCEPT ![w] = NoHandler]
        /\ UNCHANGED <<members, uses, stream, pc, accepting, sent, cancelled, fault>>
    BY <1>12 DEF WorkerPush, AfterNotify
  <2>2. queue' \in [Handlers -> Seq(Result \union {NoResult})]
    <3>1. target[w] \in Handlers
      BY <1>0, <2>1 DEF TypeOK
    <3>2. Append(queue[target[w]], held[w]) \in Seq(Result \union {NoResult})
      BY <1>0, <3>1 DEF TypeOK
    <3> QED
      BY <1>0, <1>12, <3>1, <3>2 DEF WorkerPush, TypeOK
  <2>3. /\ target' \in [Handlers -> Maybe] /\ target'[w] \notin Handlers
        /\ \A v \in Handlers : v # w => target'[v] = target[v]
    BY <1>0, <2>1, ConstantsAssumption DEF TypeOK, Maybe, ConstantsAssumption
  <2>4. /\ uses' \in [Handlers -> Maybe] /\ held' \in [Handlers -> Result \union {NoResult}]
        /\ uses'[w] # NoHandler
        /\ running' \in BOOLEAN /\ called' \in BOOLEAN
        /\ read' \in [Handlers -> Nat]
    BY <1>0, <2>1 DEF TypeOK
  <2>7. \A v \in Handlers : read'[v] <= Len(source[v]) /\ read'[v] >= read[v]
    <3>1. read' = read /\ \A v \in Handlers : read[v] \in Nat /\ read[v] <= Len(source[v])
      BY <1>0, <2>1 DEF TypeOK
    <3> QED
      BY <3>1
  <2>5. PICK l \in {"exiting", "loop"} : worker' = [worker EXCEPT ![w] = l]
    BY <2>1
  <2>6. ~Notifying(w)'
    BY <1>0, <2>5 DEF Notifying, TypeOK
  <2> QED
    BY <2>1, <2>2, <2>3, <2>4, <2>5, <2>6, <2>7, WorkerMovesType DEF WorkerPlaces
<1> QED
  BY <1>3, <1>4, <1>5, <1>6, <1>7, <1>9, <1>10, <1>11, <1>12 DEF WorkerStep

\* The steps of the driver and of the clients keep the types.
LEMMA EnvironmentType ==
  ASSUME TypeInv, Environment
  PROVE  TypeInv'
<1> USE DEF members, call, threads, stream, handler
<1>0. TypeOK
  BY DEF TypeInv
<1>1. ASSUME NEW h \in Handlers, Arrive(h) PROVE TypeInv'
  <2>1. /\ pc[h] = "idle" /\ pc' = [pc EXCEPT ![h] = "start"]
        /\ accepting' = [accepting EXCEPT ![h] = TRUE]
        /\ UNCHANGED <<members, threads, stream, queue, sent, cancelled, fault>>
    BY <1>1 DEF Arrive, Goto
  <2>2. /\ pc' \in [Handlers -> HandlerPlaces]
        /\ accepting' \in [Handlers -> BOOLEAN]
        /\ \A g \in Handlers : pc'[g] \in Early => pc[g] \in Early
    BY <1>0, <2>1 DEF TypeOK, HandlerPlaces, Early
  <2> QED
    BY <1>0, <2>1, <2>2 DEF TypeInv, TypeOK, Notifying
<1>2. ASSUME NEW h \in Handlers, ClientCancels(h) PROVE TypeInv'
  <2>1. /\ cancelled' \in [Handlers -> BOOLEAN]
        /\ UNCHANGED <<members, threads, stream, pc, accepting, queue, sent, fault>>
    BY <1>0, <1>2 DEF ClientCancels, TypeOK
  <2> QED
    BY <1>0, <2>1 DEF TypeInv, TypeOK, Notifying
<1>3. ASSUME NEW w \in Handlers, NEW m \in Results \union Statuses,
             source' = [source EXCEPT ![w] = Append(@, m)],
             UNCHANGED <<members, threads, read, handler, fault>>
      PROVE TypeInv'
  <2>1. /\ Append(source[w], m) \in Seq(Results \union Statuses)
        /\ Len(Append(source[w], m)) = Len(source[w]) + 1
    BY <1>0 DEF TypeOK
  <2>2. source' \in [Handlers -> Seq(Results \union Statuses)]
    BY <1>0, <1>3, <2>1 DEF TypeOK
  <2>3. \A h \in Handlers : read'[h] <= Len(source'[h])
    BY <1>0, <1>3, <2>1 DEF TypeOK
  <2> QED
    BY <1>0, <1>3, <2>2, <2>3 DEF TypeInv, TypeOK, Notifying
<1> QED
  BY <1>1, <1>2, <1>3 DEF Environment, DriverSends, DriverEnds

LEMMA TypeHolds ==
  /\ Init => TypeInv
  /\ TypeInv /\ [Next]_vars => TypeInv'
<1>1. Init => TypeInv
  BY InitType DEF Init, TypeInv
<1>2. TypeInv /\ [Next]_vars => TypeInv'
  <2> SUFFICES ASSUME TypeInv, [Next]_vars PROVE TypeInv'
    OBVIOUS
  <2>1. CASE \E h \in Handlers : HandlerStep(h)
    BY <2>1, HandlerType
  <2>2. CASE \E w \in Handlers : WorkerStep(w)
    BY <2>2, WorkerType
  <2>3. CASE Environment
    BY <2>3, EnvironmentType
  <2>4. CASE UNCHANGED vars
    BY <2>4 DEF TypeInv, TypeOK, Notifying, vars, members, call, threads, stream, handler
  <2> QED
    BY <2>1, <2>2, <2>3, <2>4 DEF Next, Stopped
<1> QED
  BY <1>1, <1>2

\* Whatever the calls, the streams and the interleaving, overlapping calls
\* included, every variable keeps its type; in particular a worker never
\* consumes more than the driver wrote.
THEOREM TypeCorrect == Spec => []TypeOK
<1>1. TypeInv => TypeOK
  BY DEF TypeInv
<1> QED
  BY <1>1, TypeHolds, PTL DEF Spec

-----------------------------------------------------------------------------
(* Serial calls: the inductive invariant says what the shared subscriber   *)
(* looks like at every place the one call in flight can be.                *)

\* The subscriber as it was constructed.
Clean ==
  /\ thread = NoHandler /\ joiner = NoHandler
  /\ ~running /\ ~stub /\ ~called /\ ~tried
  /\ context = NoHandler /\ callback = NoHandler

OneCall == \A g, h \in Handlers : InFlight(g) /\ InFlight(h) => g = h

\* The places of a handler at which the members hold what start() gave them.
Served == {"loop", "close", "stop", "testContext", "cancel",
           "stopJoinable", "stopJoin", "stopJoining"}
HasContext == Served \union {"setRunning", "spawn", "assign", "resetContext"}
HasStub == HasContext \union {"setCallback", "setContext", "resetStub"}
HasCallback == HasContext \union {"setContext", "resetStub", "resetCallback"}
Cancelled == {"stopJoinable", "stopJoin", "stopJoining"}

Shape(h) ==
  /\ pc[h] \notin {"startJoin", "startJoining"}
  /\ stub <=> pc[h] \in HasStub
  /\ callback = IF pc[h] \in HasCallback THEN h ELSE NoHandler
  /\ context = IF pc[h] \in HasContext THEN h ELSE NoHandler
  /\ thread = IF pc[h] \in Served THEN h ELSE NoHandler
  /\ joiner = IF pc[h] = "stopJoining" THEN h ELSE NoHandler
  /\ tried => pc[h] \in Cancelled \union {"resetContext"}
  /\ pc[h] \in Cancelled => tried
  /\ called => pc[h] \in HasContext /\ worker[h] \notin {"none", "spawned", "subscribing"}
  /\ running => pc[h] \in {"spawn", "assign", "loop", "close", "stop"}
  /\ pc[h] = "spawn" => running
  /\ pc[h] \in Served \union {"assign"} => worker[h] # "none"
  /\ pc[h] \in {"resetContext", "resetStub", "resetCallback"} => worker[h] \in {"none", "exited"}

\* Until stop() begins the worker goes on, unless the driver has closed the stream.
GoesOn(h) ==
  pc[h] \in {"assign", "loop", "close", "stop"} =>
    /\ running \/ worker[h] = "exited"
    /\ worker[h] \in {"finishing", "exiting", "exited"} => Ended(h)

SerialInv ==
  /\ fault = "none"
  /\ OneCall
  /\ (\A h \in Handlers : ~InFlight(h)) => Clean
  /\ \A h \in Handlers :
       /\ InFlight(h) => Shape(h) /\ GoesOn(h)
       /\ ~InFlight(h) => worker[h] \in {"none", "exited"}
       /\ uses[h] \in {h, NoHandler} /\ target[h] \in {h, NoHandler}

\* A status is the last element of a stream, and bounds the number of results.
StatusLast(h) ==
  /\ \A i \in 1..Len(source[h]) : source[h][i] \in Statuses => i = Len(source[h])
  /\ Len(source[h]) <= IF Ended(h) THEN MaxResults + 1 ELSE MaxResults

\* A stream holds at most MaxResults results and ends with its status, whatever
\* the interleaving.
StreamInv == \A h \in Handlers : StatusLast(h)

-----------------------------------------------------------------------------
\* A step during which only h is in flight, and only its worker moves, keeps the
\* invariant when it leaves h in a described place, or the subscriber clean when
\* h is no longer in flight.
LEMMA OneCallStep ==
  ASSUME TypeOK, SerialInv, fault' = "none",
         NEW h \in Handlers,
         \A g \in Handlers : g # h => ~InFlight(g),
         NEW l \in HandlerPlaces, pc' = [pc EXCEPT ![h] = l],
         \A g \in Handlers : g # h =>
           worker'[g] = worker[g] /\ uses'[g] = uses[g] /\ target'[g] = target[g],
         uses'[h] \in {h, NoHandler}, target'[h] \in {h, NoHandler},
         l \in {"idle", "returned"} => Clean' /\ worker'[h] \in {"none", "exited"},
         l \notin {"idle", "returned"} => Shape(h)' /\ GoesOn(h)'
  PROVE  SerialInv'
<1>1. pc'[h] = l /\ \A g \in Handlers : g # h => pc'[g] = pc[g] /\ ~InFlight(g)'
  BY DEF TypeOK, InFlight
<1>2. OneCall'
  BY <1>1 DEF OneCall
<1>3. (\A g \in Handlers : ~InFlight(g))' => Clean'
  BY <1>1 DEF InFlight
<1>4. \A g \in Handlers :
        /\ InFlight(g)' => g = h /\ Shape(g)' /\ GoesOn(g)'
        /\ ~InFlight(g)' => worker'[g] \in {"none", "exited"}
        /\ uses'[g] \in {g, NoHandler} /\ target'[g] \in {g, NoHandler}
  <2> SUFFICES ASSUME NEW g \in Handlers
               PROVE  /\ InFlight(g)' => g = h /\ Shape(g)' /\ GoesOn(g)'
                      /\ ~InFlight(g)' => worker'[g] \in {"none", "exited"}
                      /\ uses'[g] \in {g, NoHandler} /\ target'[g] \in {g, NoHandler}
    OBVIOUS
  <2>1. CASE g = h
    BY <1>1, <2>1 DEF InFlight
  <2>2. CASE g # h
    BY <1>1, <2>2 DEF SerialInv
  <2> QED
    BY <2>1, <2>2
<1> QED
  BY <1>2, <1>3, <1>4 DEF SerialInv

\* While a handler runs, no other call is in flight.
LEMMA Alone ==
  ASSUME SerialInv, NEW h \in Handlers, InFlight(h)
  PROVE  \A g \in Handlers : g # h => ~InFlight(g)
  BY DEF SerialInv, OneCall

\* A step of the handler that touches neither its locals nor the worker.
LEMMA HandlerOnlySerial ==
  ASSUME TypeOK, SerialInv, NEW h \in Handlers, InFlight(h),
         NEW l \in HandlerPlaces \ {"idle", "returned"}, HandlerOnly(h, l),
         Shape(h)', GoesOn(h)'
  PROVE  SerialInv'
<1>1. /\ pc' = [pc EXCEPT ![h] = l] /\ UNCHANGED <<worker, uses, target, fault>>
  BY DEF HandlerOnly, Goto, threads
<1>2. /\ \A g \in Handlers : g # h => ~InFlight(g)
      /\ fault = "none" /\ uses[h] \in {h, NoHandler} /\ target[h] \in {h, NoHandler}
  BY Alone DEF SerialInv
<1> QED
  BY <1>1, <1>2, OneCallStep

\* The steps of start() keep the invariant.
LEMMA StartSerial ==
  ASSUME TypeInv, SerialInv, NEW h \in Handlers, StartStep(h)
  PROVE  SerialInv'
<1>0. TypeOK
  BY DEF TypeInv
<1>1. InFlight(h)
  BY DEF InFlight, StartStep, StartIgnored, StartTest, StartJoinable, StartJoin, StartJoined,
     StartJoinThrows, StartSetStub, StartSetCallback, StartSetContext, StartSetRunning,
     StartSpawn, StartSpawnFails, StartAssign, StartAssignTerminates, Join, Joined, JoinThrows
<1>2. Shape(h) /\ GoesOn(h) /\ fault = "none"
  BY <1>1 DEF SerialInv
<1>3. pc[h] \in Early => worker[h] = "none"
  BY DEF TypeInv
<1> USE DEF Shape, GoesOn, Served, HasContext, HasStub, HasCallback, Cancelled
<1>4. CASE StartTest(h) \/ StartJoinable(h)
  <2>1. PICK l \in {"joinable", "setStub"} :
          /\ pc[h] \in {"start", "joinable"} /\ HandlerOnly(h, l) /\ UNCHANGED members
    BY <1>2, <1>4 DEF StartTest, StartJoinable
  <2>2. pc'[h] = l /\ UNCHANGED <<worker, source, running, stub, callback, context, called, tried,
                                  thread, joiner>>
    BY <1>0, <2>1 DEF HandlerOnly, Goto, threads, stream, members, call, TypeOK
  <2>3. Shape(h)' /\ GoesOn(h)'
    BY <1>2, <2>1, <2>2
  <2> HIDE DEF Shape, GoesOn
  <2> QED
    BY <1>0, <1>1, <2>1, <2>3, HandlerOnlySerial DEF HandlerPlaces
<1>5. CASE StartSetStub(h)
  <2>1. pc[h] = "setStub" /\ HandlerOnly(h, "setCallback") /\ stub' = TRUE
        /\ UNCHANGED <<running, callback, call, thread, joiner>>
    BY <1>5 DEF StartSetStub
  <2>2. pc'[h] = "setCallback" /\ UNCHANGED <<worker, source, called, context, tried>>
    BY <1>0, <2>1 DEF HandlerOnly, Goto, threads, stream, call, TypeOK
  <2>3. Shape(h)' /\ GoesOn(h)'
    BY <1>2, <2>1, <2>2
  <2> HIDE DEF Shape, GoesOn
  <2> QED
    BY <1>0, <1>1, <2>1, <2>3, HandlerOnlySerial DEF HandlerPlaces
<1>6. CASE StartSetCallback(h)
  <2>1. pc[h] = "setCallback" /\ HandlerOnly(h, "setContext") /\ callback' = h
        /\ UNCHANGED <<running, stub, call, thread, joiner>>
    BY <1>6 DEF StartSetCallback
  <2>2. pc'[h] = "setContext" /\ UNCHANGED <<worker, source, called, context, tried>>
    BY <1>0, <2>1 DEF HandlerOnly, Goto, threads, stream, call, TypeOK
  <2>3. Shape(h)' /\ GoesOn(h)'
    BY <1>2, <2>1, <2>2
  <2> HIDE DEF Shape, GoesOn
  <2> QED
    BY <1>0, <1>1, <2>1, <2>3, HandlerOnlySerial DEF HandlerPlaces
<1>7. CASE StartSetContext(h)
  <2>1. pc[h] = "setContext" /\ HandlerOnly(h, "setRunning")
        /\ context' = h /\ called' = FALSE /\ tried' = FALSE
        /\ UNCHANGED <<running, stub, callback, thread, joiner>>
    BY <1>7 DEF StartSetContext
  <2>2. pc'[h] = "setRunning" /\ UNCHANGED <<worker, source>>
    BY <1>0, <2>1 DEF HandlerOnly, Goto, threads, stream, TypeOK
  <2>3. Shape(h)' /\ GoesOn(h)'
    BY <1>2, <2>1, <2>2
  <2> HIDE DEF Shape, GoesOn
  <2> QED
    BY <1>0, <1>1, <2>1, <2>3, HandlerOnlySerial DEF HandlerPlaces
<1>8. CASE StartSetRunning(h)
  <2>1. pc[h] = "setRunning" /\ HandlerOnly(h, "spawn") /\ running' = TRUE
        /\ UNCHANGED <<stub, callback, call, thread, joiner>>
    BY <1>8 DEF StartSetRunning
  <2>2. pc'[h] = "spawn" /\ UNCHANGED <<worker, source, called, context, tried>>
    BY <1>0, <2>1 DEF HandlerOnly, Goto, threads, stream, call, TypeOK
  <2>3. Shape(h)' /\ GoesOn(h)'
    BY <1>2, <2>1, <2>2
  <2> HIDE DEF Shape, GoesOn
  <2> QED
    BY <1>0, <1>1, <2>1, <2>3, HandlerOnlySerial DEF HandlerPlaces
<1>9. CASE StartSpawnFails(h)
  <2>1. pc[h] = "spawn" /\ HandlerOnly(h, "resetContext") /\ running' = FALSE
        /\ UNCHANGED <<stub, callback, call, thread, joiner>>
    BY <1>9 DEF StartSpawnFails
  <2>2. /\ pc'[h] = "resetContext" /\ UNCHANGED <<worker, source, called, context, tried>>
        /\ worker[h] = "none"
    BY <1>0, <1>3, <2>1 DEF HandlerOnly, Goto, threads, stream, call, TypeOK, Early
  <2>3. Shape(h)' /\ GoesOn(h)'
    BY <1>2, <2>1, <2>2
  <2> HIDE DEF Shape, GoesOn
  <2> QED
    BY <1>0, <1>1, <2>1, <2>3, HandlerOnlySerial DEF HandlerPlaces
<1>10. CASE StartAssign(h)
  <2>1. pc[h] = "assign" /\ HandlerOnly(h, "loop") /\ thread' = h
        /\ UNCHANGED <<running, stub, callback, call, joiner>>
    BY <1>10 DEF StartAssign
  <2>2. pc'[h] = "loop" /\ UNCHANGED <<worker, source, called, context, tried>>
    BY <1>0, <2>1 DEF HandlerOnly, Goto, threads, stream, call, TypeOK
  <2>3. Shape(h)' /\ GoesOn(h)'
    BY <1>2, <2>1, <2>2 DEF Ended
  <2> HIDE DEF Shape, GoesOn
  <2> QED
    BY <1>0, <1>1, <2>1, <2>3, HandlerOnlySerial DEF HandlerPlaces
<1>11. CASE StartSpawn(h)
  <2>1. /\ pc[h] = "spawn" /\ pc' = [pc EXCEPT ![h] = "assign"]
        /\ worker' = [worker EXCEPT ![h] = "spawned"]
        /\ UNCHANGED <<running, stub, callback, call, thread, joiner, uses, target, fault>>
    BY <1>11 DEF StartSpawn, members, Goto
  <2>2. /\ pc'[h] = "assign" /\ worker'[h] = "spawned" /\ UNCHANGED <<called, context, tried>>
        /\ \A g \in Handlers : g # h => worker'[g] = worker[g]
    BY <1>0, <2>1 DEF call, TypeOK
  <2>3. Shape(h)' /\ GoesOn(h)'
    <3>1. worker[h] = "none"
      BY <1>3, <2>1 DEF Early
    <3> QED
      BY <1>2, <2>1, <2>2, <3>1
  <2>4. /\ \A g \in Handlers : g # h => ~InFlight(g)
        /\ uses[h] \in {h, NoHandler} /\ target[h] \in {h, NoHandler}
    BY <1>1, Alone DEF SerialInv
  <2>5. \A g \in Handlers : g # h =>
          worker'[g] = worker[g] /\ uses'[g] = uses[g] /\ target'[g] = target[g]
    BY <2>1, <2>2
  <2> HIDE DEF Shape, GoesOn
  <2> QED
    BY <1>0, <1>2, <2>1, <2>3, <2>4, <2>5, OneCallStep DEF HandlerPlaces
<1>12. /\ ~StartIgnored(h) /\ ~StartJoin(h) /\ ~StartJoined(h) /\ ~StartJoinThrows(h)
       /\ ~StartAssignTerminates(h)
  BY <1>2, ConstantsAssumption DEF StartIgnored, StartJoin, StartJoined, StartJoinThrows,
     StartAssignTerminates, Join, Joined, JoinThrows, ConstantsAssumption
<1> QED
  BY <1>4, <1>5, <1>6, <1>7, <1>8, <1>9, <1>10, <1>11, <1>12 DEF StartStep

\* The steps of the loop of Subscribe keep the invariant: they leave the
\* subscriber alone.
LEMMA LoopSerial ==
  ASSUME TypeOK, SerialInv, NEW h \in Handlers, LoopStep(h)
  PROVE  SerialInv'
<1>1. PICK l \in {"loop", "close", "stop"} :
        /\ pc[h] \in {"loop", "close"}
        /\ pc' = [pc EXCEPT ![h] = l]
        /\ UNCHANGED <<running, stub, callback, context, called, tried, thread, joiner,
                       worker, uses, target, source, fault>>
  BY DEF LoopStep, Deliver, WriteFails, SeesCancel, Close, members, call, threads, stream, Goto
<1>2. \A g \in Handlers : g # h => ~InFlight(g)
  BY <1>1, Alone DEF InFlight
<1>3. /\ Shape(h) /\ GoesOn(h) /\ fault = "none"
      /\ uses[h] \in {h, NoHandler} /\ target[h] \in {h, NoHandler}
  BY <1>1 DEF SerialInv, InFlight
<1>4. pc'[h] = l
  BY <1>1 DEF TypeOK
<1>5. Shape(h)' /\ GoesOn(h)'
  BY <1>1, <1>3, <1>4 DEF Shape, GoesOn, Served, HasContext, HasStub, HasCallback, Cancelled, Ended
<1> QED
  BY <1>1, <1>2, <1>3, <1>5, OneCallStep DEF HandlerPlaces

\* The steps of stop() keep the invariant.
LEMMA StopSerial ==
  ASSUME TypeOK, SerialInv, NEW h \in Handlers, StopStep(h)
  PROVE  SerialInv'
<1>1. InFlight(h)
  BY DEF InFlight, StopStep, StopRunning, StopTestContext, StopCancel, StopCancelNull,
     StopJoinable, StopJoin, StopJoined, StopJoinThrows, StopResetContext, StopResetStub,
     StopResetCallback, Join, Joined, JoinThrows
<1>2. Shape(h) /\ GoesOn(h) /\ fault = "none" /\ NoHandler \notin Handlers
  BY <1>1, ConstantsAssumption DEF SerialInv, ConstantsAssumption
<1> USE DEF Shape, GoesOn, Served, HasContext, HasStub, HasCallback, Cancelled
<1>3. ASSUME NEW l \in HandlerPlaces, HandlerOnly(h, l)
      PROVE pc'[h] = l /\ UNCHANGED <<worker, source>>
  BY <1>3 DEF HandlerOnly, Goto, threads, stream, TypeOK
<1>4. CASE StopRunning(h)
  <2>1. pc[h] = "stop" /\ HandlerOnly(h, "testContext") /\ running' = FALSE
        /\ UNCHANGED <<stub, callback, context, called, tried, thread, joiner>>
    BY <1>4 DEF StopRunning, call
  <2>2. Shape(h)' /\ GoesOn(h)'
    BY <1>2, <1>3, <2>1 DEF HandlerPlaces
  <2> HIDE DEF Shape, GoesOn
  <2> QED
    BY <1>1, <2>1, <2>2, HandlerOnlySerial DEF HandlerPlaces
<1>5. CASE StopTestContext(h) \/ StopJoinable(h)
  <2>1. PICK l \in {"cancel", "stopJoin"} :
          /\ l = "cancel" => pc[h] = "testContext"
          /\ l = "stopJoin" => pc[h] = "stopJoinable"
          /\ HandlerOnly(h, l)
          /\ UNCHANGED <<running, stub, callback, context, called, tried, thread, joiner>>
    BY <1>2, <1>5 DEF StopTestContext, StopJoinable, members, call
  <2>2. Shape(h)' /\ GoesOn(h)'
    BY <1>2, <1>3, <2>1 DEF HandlerPlaces
  <2> HIDE DEF Shape, GoesOn
  <2> QED
    BY <1>1, <2>1, <2>2, HandlerOnlySerial DEF HandlerPlaces
<1>6. CASE StopCancel(h)
  <2>1. pc[h] = "cancel" /\ HandlerOnly(h, "stopJoinable") /\ tried' = TRUE
        /\ UNCHANGED <<running, stub, callback, context, called, thread, joiner>>
    BY <1>6 DEF StopCancel
  <2>2. Shape(h)' /\ GoesOn(h)'
    BY <1>2, <1>3, <2>1 DEF HandlerPlaces
  <2> HIDE DEF Shape, GoesOn
  <2> QED
    BY <1>1, <2>1, <2>2, HandlerOnlySerial DEF HandlerPlaces
<1>7. CASE StopJoin(h)
  <2>1. pc[h] = "stopJoin" /\ HandlerOnly(h, "stopJoining") /\ joiner' = h
        /\ UNCHANGED <<running, stub, callback, context, called, tried, thread>>
    BY <1>7 DEF StopJoin, Join, call
  <2>2. Shape(h)' /\ GoesOn(h)'
    BY <1>2, <1>3, <2>1 DEF HandlerPlaces
  <2> HIDE DEF Shape, GoesOn
  <2> QED
    BY <1>1, <2>1, <2>2, HandlerOnlySerial DEF HandlerPlaces
<1>8. CASE StopJoined(h)
  <2>1. /\ pc[h] = "stopJoining" /\ HandlerOnly(h, "resetContext")
        /\ worker[thread] = "exited" /\ thread' = NoHandler /\ joiner' = NoHandler
        /\ UNCHANGED <<running, stub, callback, context, called, tried>>
    BY <1>8 DEF StopJoined, Joined, call
  <2>2. Shape(h)' /\ GoesOn(h)'
    BY <1>2, <1>3, <2>1 DEF HandlerPlaces
  <2> HIDE DEF Shape, GoesOn
  <2> QED
    BY <1>1, <2>1, <2>2, HandlerOnlySerial DEF HandlerPlaces
<1>9. CASE StopResetContext(h)
  <2>1. pc[h] = "resetContext" /\ HandlerOnly(h, "resetStub")
        /\ context' = NoHandler /\ called' = FALSE /\ tried' = FALSE
        /\ UNCHANGED <<running, stub, callback, thread, joiner>>
    BY <1>9 DEF StopResetContext
  <2>2. Shape(h)' /\ GoesOn(h)'
    BY <1>2, <1>3, <2>1 DEF HandlerPlaces
  <2> HIDE DEF Shape, GoesOn
  <2> QED
    BY <1>1, <2>1, <2>2, HandlerOnlySerial DEF HandlerPlaces
<1>10. CASE StopResetStub(h)
  <2>1. pc[h] = "resetStub" /\ HandlerOnly(h, "resetCallback") /\ stub' = FALSE
        /\ UNCHANGED <<running, callback, context, called, tried, thread, joiner>>
    BY <1>10 DEF StopResetStub, call
  <2>2. Shape(h)' /\ GoesOn(h)'
    BY <1>2, <1>3, <2>1 DEF HandlerPlaces
  <2> HIDE DEF Shape, GoesOn
  <2> QED
    BY <1>1, <2>1, <2>2, HandlerOnlySerial DEF HandlerPlaces
<1>11. CASE StopResetCallback(h)
  <2>1. /\ pc[h] = "resetCallback" /\ pc' = [pc EXCEPT ![h] = "returned"] /\ callback' = NoHandler
        /\ UNCHANGED <<running, stub, context, called, tried, thread, joiner,
                       worker, uses, target, fault>>
    BY <1>11 DEF StopResetCallback, Return, Goto, call, threads
  <2>2. Clean' /\ worker'[h] \in {"none", "exited"}
    BY <1>2, <2>1 DEF Clean
  <2>3. /\ \A g \in Handlers : g # h => ~InFlight(g)
        /\ uses[h] \in {h, NoHandler} /\ target[h] \in {h, NoHandler}
    BY <1>1, Alone DEF SerialInv
  <2> HIDE DEF Shape, GoesOn
  <2> QED
    BY <1>2, <2>1, <2>2, <2>3, OneCallStep DEF HandlerPlaces
<1>12. ~StopCancelNull(h) /\ ~StopJoinThrows(h)
  BY <1>2 DEF StopCancelNull, StopJoinThrows, JoinThrows
<1> QED
  BY <1>4, <1>5, <1>6, <1>7, <1>8, <1>9, <1>10, <1>11, <1>12 DEF StopStep

-----------------------------------------------------------------------------
\* What a step of a worker leaves alone.
LEMMA WorkerFrame ==
  ASSUME TypeOK, NEW w \in Handlers, WorkerStep(w)
  PROVE  /\ UNCHANGED <<stub, callback, context, tried, thread, joiner, source,
                        pc, accepting, sent, cancelled>>
         /\ \A g \in Handlers : g # w =>
              worker'[g] = worker[g] /\ uses'[g] = uses[g] /\ target'[g] = target[g]
              /\ held'[g] = held[g] /\ read'[g] = read[g]
         /\ running' => running
         /\ worker[w] \notin {"none", "exited"} /\ worker'[w] # "none"
<1> DEFINE Frame ==
         /\ UNCHANGED <<stub, callback, context, tried, thread, joiner, source,
                        pc, accepting, sent, cancelled>>
         /\ \A g \in Handlers : g # w =>
              worker'[g] = worker[g] /\ uses'[g] = uses[g] /\ target'[g] = target[g]
              /\ held'[g] = held[g] /\ read'[g] = read[g]
         /\ running' => running
         /\ worker[w] \notin {"none", "exited"} /\ worker'[w] # "none"
<1>0. SUFFICES Frame
  OBVIOUS
<1> USE DEF members, call, threads, stream, handler, TypeOK
<1>1. ASSUME NEW f, Dies(f), worker[w] \notin {"none", "exited"} PROVE Frame
  BY <1>1 DEF Dies
<1>2. ASSUME NEW l, l # "none", WorkerGoes(w, l), worker[w] \notin {"none", "exited"},
             running' => running,
             \A g \in Handlers : g # w => uses'[g] = uses[g] /\ held'[g] = held[g]
      PROVE Frame
  BY <1>2 DEF WorkerGoes
<1>3. CASE WorkerNullStub(w) \/ WorkerBadContext(w) \/ WorkerContextFreed(w) \/ WorkerPushDangling(w)
  <2> HIDE DEF Frame
  <2> QED
    BY <1>1, <1>3 DEF WorkerNullStub, WorkerBadContext, WorkerContextFreed, WorkerPushDangling
<1>4. CASE \/ WorkerTakesStub(w) \/ WorkerLoop(w) \/ WorkerReadFails(w) \/ WorkerFinishSilently(w)
           \/ WorkerTestsCallback(w)
  <2>1. worker[w] \notin {"none", "exited"} /\ UNCHANGED <<running, uses, held>>
    BY <1>4 DEF WorkerTakesStub, WorkerLoop, WorkerReadFails, WorkerFinishSilently,
       WorkerTestsCallback
  <2>2. \/ WorkerGoes(w, "subscribing") \/ WorkerGoes(w, "reading") \/ WorkerGoes(w, "finishing")
        \/ WorkerGoes(w, "exiting") \/ WorkerGoes(w, "calling")
    BY <1>4 DEF WorkerTakesStub, WorkerLoop, WorkerReadFails, WorkerFinishSilently,
       WorkerTestsCallback
  <2> HIDE DEF Frame, TypeOK
  <2> QED
    BY <1>2, <2>1, <2>2
<1>5. CASE WorkerSubscribe(w) \/ WorkerDrops(w) \/ WorkerExits(w)
  <2>1. /\ worker[w] \notin {"none", "exited"} /\ (running' => running)
        /\ \A g \in Handlers : g # w => uses'[g] = uses[g] /\ held'[g] = held[g]
    BY <1>5 DEF WorkerSubscribe, WorkerDrops, WorkerExits
  <2>2. WorkerGoes(w, "loop") \/ WorkerGoes(w, "exiting") \/ WorkerGoes(w, "exited")
    BY <1>5 DEF WorkerSubscribe, WorkerDrops, WorkerExits, AfterNotify
  <2> HIDE DEF Frame, TypeOK
  <2> QED
    BY <1>2, <2>1, <2>2
<1>6. CASE WorkerRead(w) \/ WorkerFinishError(w) \/ WorkerCalls(w)
  BY <1>6 DEF WorkerRead, WorkerFinishError, WorkerCalls
<1>7. CASE WorkerPush(w)
  BY <1>7 DEF WorkerPush, AfterNotify
<1> HIDE DEF Frame
<1> QED
  BY <1>3, <1>4, <1>5, <1>6, <1>7 DEF WorkerStep

LEMMA StreamStep ==
  ASSUME TypeOK, StreamInv, [Next]_vars
  PROVE  StreamInv'
<1>1. CASE source' = source
  BY <1>1 DEF StreamInv, StatusLast, Ended
<1>2. ASSUME NEW w \in Handlers, NEW m \in Results \union Statuses, StreamOpen(w),
             m \in Results => Len(source[w]) < MaxResults,
             source' = [source EXCEPT ![w] = Append(@, m)]
      PROVE  StreamInv'
  <2>1. StatusLast(w) /\ ~Ended(w) /\ source[w] \in Seq(Results \union Statuses)
    BY <1>2 DEF TypeOK, StreamOpen, StreamInv
  <2>3. /\ source'[w] = Append(source[w], m)
        /\ Len(source'[w]) = Len(source[w]) + 1
        /\ source'[w][Len(source'[w])] = m
        /\ \A i \in 1..Len(source[w]) : source'[w][i] = source[w][i]
    BY <1>2, <2>1 DEF TypeOK
  <2>4. \A i \in 1..Len(source[w]) : source[w][i] \notin Statuses
    BY <2>1 DEF StatusLast, Ended
  <2>5. m \in Results <=> m \notin Statuses
    BY <1>2, ConstantsAssumption DEF ConstantsAssumption
  <2>6. Ended(w)' <=> m \in Statuses
    BY <1>2, <2>1, <2>3 DEF Ended
  <2>7. StatusLast(w)'
    BY <1>2, <2>1, <2>3, <2>4, <2>5, <2>6, ConstantsAssumption
    DEF StatusLast, ConstantsAssumption
  <2>8. ASSUME NEW h \in Handlers PROVE StatusLast(h)'
    <3>1. CASE h = w
      BY <2>7, <3>1
    <3>2. CASE h # w
      <4>1. source'[h] = source[h] /\ StatusLast(h)
        BY <1>2, <3>2 DEF TypeOK, StreamInv
      <4> QED
        BY <4>1 DEF StatusLast, Ended
    <3> QED
      BY <3>1, <3>2
  <2> QED
    BY <2>8 DEF StreamInv
<1>3. CASE \E h \in Handlers : HandlerStep(h)
  BY <1>1, <1>3, HandlerFrame
<1>4. CASE \E w \in Handlers : WorkerStep(w)
  BY <1>1, <1>4, WorkerFrame
<1>5. CASE Environment
  <2>1. CASE \E h \in Handlers : Arrive(h) \/ ClientCancels(h)
    BY <1>1, <2>1 DEF Arrive, ClientCancels, stream
  <2>2. CASE \E w \in Handlers, m \in Results : DriverSends(w, m)
    BY <1>2, <2>2 DEF DriverSends
  <2>3. CASE \E w \in Handlers, m \in Statuses : DriverEnds(w, m)
    BY <1>2, <2>3, ConstantsAssumption DEF DriverEnds, ConstantsAssumption
  <2> QED
    BY <1>5, <2>1, <2>2, <2>3 DEF Environment
<1>6. CASE UNCHANGED vars
  BY <1>1, <1>6 DEF vars, stream
<1> QED
  BY <1>3, <1>4, <1>5, <1>6 DEF Next, Stopped

\* A worker that runs serves the one call in flight, with its context and its
\* callback.
LEMMA WorkerServes ==
  ASSUME TypeInv, SerialInv, NEW w \in Handlers, worker[w] \notin {"none", "exited"}
  PROVE  /\ pc[w] \in Served \union {"assign"}
         /\ Shape(w) /\ GoesOn(w)
         /\ stub /\ callback = w /\ context = w
         /\ uses[w] \in {w, NoHandler} /\ target[w] \in {w, NoHandler}
         /\ \A g \in Handlers : g # w => ~InFlight(g)
<1>1. /\ InFlight(w) /\ Shape(w) /\ GoesOn(w)
      /\ uses[w] \in {w, NoHandler} /\ target[w] \in {w, NoHandler}
  BY DEF SerialInv
<1>2. pc[w] \in HandlerPlaces \ Early
  BY DEF TypeInv, TypeOK
<1>3. pc[w] \in Served \union {"assign"}
  BY <1>1, <1>2 DEF HandlerPlaces, Early, Served, InFlight, Shape
<1>4. stub /\ callback = w /\ context = w
  BY <1>1, <1>3 DEF Shape, HasStub, HasCallback, HasContext
<1> QED
  BY <1>1, <1>3, <1>4, Alone

\* Before stop() begins the worker ends only when the driver has closed the stream.
LEMMA WorkerGoesOn ==
  ASSUME TypeInv, StreamInv, SerialInv, NEW w \in Handlers, WorkerStep(w),
         pc[w] \in {"assign", "loop", "close", "stop"}
  PROVE  /\ running' \/ worker'[w] = "exited"
         /\ worker'[w] \in {"finishing", "exiting", "exited"} => Ended(w)
<1> USE DEF members, call, threads, stream, handler
<1>0. TypeOK /\ worker[w] \notin {"none", "exited"}
  BY WorkerFrame DEF TypeInv
<1>1. /\ running /\ (worker[w] \in {"finishing", "exiting", "exited"} => Ended(w))
      /\ context = w /\ uses[w] \in {w, NoHandler} /\ ~tried
  BY <1>0, WorkerServes DEF GoesOn, Shape, Cancelled
<1>2. (uses[w] = NoHandler <=> worker[w] \in {"none", "spawned", "subscribing", "exited"})
      /\ worker \in [Handlers -> WorkerPlaces]
  BY <1>0 DEF TypeOK
<1>3. AfterNotify(w) = "exiting" /\ Notifying(w) => Ended(w)
  <2> SUFFICES ASSUME source[w][read[w]] \in Statuses, Notifying(w) PROVE Ended(w)
    BY DEF AfterNotify
  <2>1. read[w] \in 1..Len(source[w]) /\ source[w] # <<>>
    BY <1>0 DEF TypeOK
  <2>2. read[w] = Len(source[w])
    BY <2>1 DEF StreamInv, StatusLast
  <2> QED
    BY <2>1, <2>2 DEF Ended
<1>4. ASSUME NEW f, Dies(f)
      PROVE  running' = running /\ worker' = worker
  BY <1>4 DEF Dies
<1>5. CASE WorkerTakesStub(w) \/ WorkerSubscribe(w) \/ WorkerLoop(w) \/ WorkerTestsCallback(w)
  BY <1>1, <1>2, <1>5 DEF WorkerTakesStub, WorkerSubscribe, WorkerLoop, WorkerTestsCallback, WorkerGoes
<1>6. CASE WorkerRead(w) \/ WorkerFinishError(w) \/ WorkerCalls(w)
  BY <1>1, <1>2, <1>6 DEF WorkerRead, WorkerFinishError, WorkerCalls
<1>7. CASE WorkerReadFails(w)
  <2>1. HasNext(w) /\ Next_(w) \in Statuses
    BY <1>1, <1>2, <1>7 DEF WorkerReadFails, CallCancelled
  <2>2. read[w] + 1 = Len(source[w])
    BY <1>0, <2>1 DEF StreamInv, StatusLast, HasNext, Next_, TypeOK
  <2>3. Ended(w)
    BY <1>0, <2>1, <2>2 DEF Ended, Next_, HasNext, TypeOK
  <2> QED
    BY <1>1, <1>7, <2>3 DEF WorkerReadFails, WorkerGoes
<1>8. CASE WorkerFinishSilently(w) \/ WorkerExits(w)
  BY <1>1, <1>2, <1>8 DEF WorkerFinishSilently, WorkerExits, WorkerGoes
<1>9. CASE WorkerDrops(w) \/ WorkerPush(w)
  <2>1. Notifying(w) /\ running' = running /\ worker' = [worker EXCEPT ![w] = AfterNotify(w)]
    BY <1>9 DEF WorkerDrops, WorkerPush, WorkerGoes, Notifying
  <2>2. AfterNotify(w) \in {"exiting", "loop"}
    BY DEF AfterNotify
  <2> QED
    BY <1>1, <1>2, <1>3, <2>1, <2>2
<1>10. CASE WorkerNullStub(w) \/ WorkerBadContext(w) \/ WorkerContextFreed(w) \/ WorkerPushDangling(w)
  BY <1>1, <1>4, <1>10 DEF WorkerNullStub, WorkerBadContext, WorkerContextFreed, WorkerPushDangling
<1> QED
  BY <1>5, <1>6, <1>7, <1>8, <1>9, <1>10 DEF WorkerStep

LEMMA WorkerSerial ==
  ASSUME TypeInv, StreamInv, SerialInv, NEW w \in Handlers, WorkerStep(w)
  PROVE  SerialInv'
<1> USE DEF members, call, threads, stream, handler
<1>0. TypeOK
  BY DEF TypeInv
<1>1. /\ UNCHANGED <<stub, callback, context, tried, thread, joiner, source, pc>>
      /\ \A g \in Handlers : g # w =>
           worker'[g] = worker[g] /\ uses'[g] = uses[g] /\ target'[g] = target[g]
      /\ running' => running
      /\ worker[w] \notin {"none", "exited"} /\ worker'[w] # "none"
  BY <1>0, WorkerFrame
<1>2. /\ pc[w] \in Served \union {"assign"}
      /\ Shape(w) /\ GoesOn(w)
      /\ stub /\ callback = w /\ context = w
      /\ uses[w] \in {w, NoHandler} /\ target[w] \in {w, NoHandler}
      /\ \A g \in Handlers : g # w => ~InFlight(g)
  BY <1>1, WorkerServes
<1>3. fault = "none" /\ pc[w] # "returned" /\ pc[w] # "idle" /\ pc[w] \in HandlerPlaces
  BY <1>0, <1>2 DEF SerialInv, Served, TypeOK
<1>4. /\ worker \in [Handlers -> WorkerPlaces] /\ uses \in [Handlers -> Maybe]
      /\ target \in [Handlers -> Maybe]
      /\ uses[w] = NoHandler <=> worker[w] \in {"none", "spawned", "subscribing", "exited"}
      /\ target[w] \in Handlers <=> worker[w] = "pushing"
  BY <1>0 DEF TypeOK
<1>5. called => worker[w] \notin {"none", "spawned", "subscribing"}
  BY <1>2 DEF Shape
<1>6. /\ ~WorkerNullStub(w) /\ ~WorkerBadContext(w)
      /\ ~WorkerContextFreed(w) /\ ~WorkerPushDangling(w)
  <2>1. ~WorkerNullStub(w)
    BY <1>2 DEF WorkerNullStub
  <2>2. ~WorkerBadContext(w)
    BY <1>2, <1>5, ConstantsAssumption DEF WorkerBadContext, ConstantsAssumption
  <2>3. ~WorkerContextFreed(w)
    BY <1>2, <1>4 DEF WorkerContextFreed
  <2>4. ~WorkerPushDangling(w)
    BY <1>2, <1>3, <1>4, ConstantsAssumption DEF WorkerPushDangling, ConstantsAssumption
  <2> QED
    BY <2>1, <2>2, <2>3, <2>4
<1>7. /\ fault' = fault
      /\ uses'[w] \in {w, NoHandler} /\ target'[w] \in {w, NoHandler}
      /\ called' => worker'[w] \notin {"none", "spawned", "subscribing"}
  <2>1. CASE WorkerTakesStub(w)
    BY <1>2, <1>4, <1>5, <2>1 DEF WorkerTakesStub, WorkerGoes
  <2>4. CASE \/ WorkerLoop(w) \/ WorkerReadFails(w) \/ WorkerFinishSilently(w)
             \/ WorkerTestsCallback(w) \/ WorkerDrops(w)
    <3>1. /\ UNCHANGED <<fault, called, uses, target>>
          /\ worker'[w] \in {"reading", "finishing", "exiting", "calling", "loop"}
      BY <1>4, <2>4 DEF WorkerLoop, WorkerReadFails,
         WorkerFinishSilently, WorkerTestsCallback, WorkerDrops, WorkerGoes, AfterNotify
    <3> QED
      BY <1>2, <3>1
  <2>2. CASE WorkerSubscribe(w) \/ WorkerExits(w)
    BY <1>2, <1>4, <1>5, <2>2 DEF WorkerSubscribe, WorkerExits, WorkerGoes
  <2>3. CASE WorkerRead(w) \/ WorkerFinishError(w) \/ WorkerCalls(w) \/ WorkerPush(w)
    BY <1>2, <1>4, <1>5, <2>3 DEF WorkerRead, WorkerFinishError, WorkerCalls, WorkerPush, AfterNotify
  <2> QED
    BY <1>6, <2>1, <2>2, <2>3, <2>4 DEF WorkerStep
<1>8. Shape(w)'
  <2>1. pc[w] \notin {"resetContext", "resetStub", "resetCallback", "spawn"}
    BY <1>2 DEF Served
  <2>2. pc[w] \in HasContext
    BY <1>2 DEF Served, HasContext
  <2> QED
    BY <1>1, <1>2, <1>7, <2>1, <2>2 DEF Shape
<1>9. GoesOn(w)'
  BY <1>1, WorkerGoesOn DEF GoesOn, Ended
<1>10. pc' = [pc EXCEPT ![w] = pc[w]]
  BY <1>0, <1>1 DEF TypeOK
<1> QED
  BY <1>0, <1>1, <1>2, <1>3, <1>7, <1>8, <1>9, <1>10, OneCallStep

LEMMA EnvironmentSerial ==
  ASSUME TypeInv, SerialInv, Environment, Callers = "serial"
  PROVE  SerialInv'
<1> USE DEF members, call, threads, stream, handler
<1>0. fault = "none" /\ TypeOK
  BY DEF SerialInv, TypeInv
<1>1. ASSUME NEW h \in Handlers, Arrive(h) PROVE SerialInv'
  <2>1. (\A g \in Handlers : ~InFlight(g)) /\ Clean
    BY <1>1 DEF Arrive, MayArrive, SerialInv
  <2>2. /\ pc' = [pc EXCEPT ![h] = "start"] /\ fault' = "none"
        /\ UNCHANGED <<running, stub, callback, context, called, tried, thread, joiner,
                       worker, uses, target>>
    BY <1>0, <1>1 DEF Arrive, Goto
  <2>3. pc'[h] = "start"
    BY <1>0, <2>2 DEF TypeOK
  <2>4. Shape(h)' /\ GoesOn(h)'
    BY <2>1, <2>2, <2>3 DEF Shape, GoesOn, Clean, Served, HasContext, HasStub, HasCallback, Cancelled
  <2>5. uses[h] \in {h, NoHandler} /\ target[h] \in {h, NoHandler}
    BY DEF SerialInv
  <2> QED
    BY <1>0, <2>1, <2>2, <2>4, <2>5, OneCallStep DEF HandlerPlaces
<1>2. ASSUME NEW h \in Handlers, ClientCancels(h) PROVE SerialInv'
  <2>1. UNCHANGED <<running, stub, callback, context, called, tried, thread, joiner,
                    worker, uses, target, source, pc, fault>>
    BY <1>2 DEF ClientCancels
  <2> QED
    BY <2>1 DEF SerialInv, OneCall, InFlight, Clean, Shape, GoesOn, Ended
<1>3. ASSUME NEW w \in Handlers, StreamOpen(w), NEW m,
             source' = [source EXCEPT ![w] = Append(@, m)],
             UNCHANGED <<running, stub, callback, context, called, tried, thread, joiner,
                         worker, uses, target, pc, fault>>
      PROVE SerialInv'
  <2>1. \A h \in Handlers : GoesOn(h)' <=> GoesOn(h)
    <3> SUFFICES ASSUME NEW h \in Handlers PROVE GoesOn(h)' <=> GoesOn(h)
      OBVIOUS
    <3>1. CASE h = w
      BY <1>3, <3>1 DEF GoesOn, StreamOpen
    <3>2. CASE h # w
      BY <1>0, <1>3, <3>2 DEF GoesOn, Ended, TypeOK
    <3> QED
      BY <3>1, <3>2
  <2> HIDE DEF members, call, threads, stream, handler
  <2> QED
    BY <1>3, <2>1 DEF SerialInv, OneCall, InFlight, Clean, Shape
<1>4. CASE \E h \in Handlers : Arrive(h) \/ ClientCancels(h)
  BY <1>1, <1>2, <1>4
<1>5. CASE (\E w \in Handlers, m \in Results : DriverSends(w, m))
           \/ (\E w \in Handlers, s \in Statuses : DriverEnds(w, s))
  <2>1. PICK w \in Handlers, m \in Results \union Statuses : DriverSends(w, m) \/ DriverEnds(w, m)
    BY <1>5
  <2> QED
    BY <1>3, <2>1 DEF DriverSends, DriverEnds
<1> QED
  BY <1>4, <1>5 DEF Environment

-----------------------------------------------------------------------------
\* The serial invariant, with what it needs of the types and the streams.
SafeInv == TypeInv /\ StreamInv /\ SerialInv

LEMMA InitSafe == Init => SafeInv
<1> SUFFICES ASSUME Init PROVE StreamInv /\ SerialInv
  BY TypeHolds DEF SafeInv
<1>1. StreamInv
  <2> SUFFICES ASSUME NEW h \in Handlers PROVE StatusLast(h)
    BY DEF StreamInv
  <2>1. source[h] = <<>> /\ Len(source[h]) = 0
    BY DEF Init
  <2>2. ~Ended(h)
    BY <2>1 DEF Ended
  <2>3. \A i \in 1..Len(source[h]) : FALSE
    BY <2>1
  <2>4. Len(source[h]) <= MaxResults
    BY <2>1, ConstantsAssumption DEF ConstantsAssumption
  <2> QED
    BY <2>2, <2>3, <2>4 DEF StatusLast
<1>2. SerialInv
  BY DEF Init, SerialInv, OneCall, InFlight, Clean
<1> QED
  BY <1>1, <1>2

LEMMA NextSafe ==
  ASSUME SafeInv, [Next]_vars, Callers = "serial"
  PROVE  SafeInv'
<1>1. TypeInv /\ TypeOK /\ StreamInv /\ SerialInv
  BY DEF SafeInv, TypeInv
<1>2. StreamInv' /\ TypeInv'
  BY <1>1, StreamStep, TypeHolds
<1>3. CASE \E h \in Handlers : HandlerStep(h)
  BY <1>1, <1>2, <1>3, StartSerial, LoopSerial, StopSerial DEF HandlerStep, SafeInv
<1>4. CASE \E w \in Handlers : WorkerStep(w)
  BY <1>1, <1>2, <1>4, WorkerSerial DEF SafeInv
<1>5. CASE Environment
  BY <1>1, <1>2, <1>5, EnvironmentSerial DEF SafeInv
<1>6. CASE UNCHANGED vars
  <2>1. SerialInv'
    BY <1>1, <1>6 DEF SerialInv, OneCall, InFlight, Clean, Shape, GoesOn, Ended,
                      vars, members, call, threads, stream, handler
  <2> QED
    BY <1>2, <2>1 DEF SafeInv
<1> QED
  BY <1>3, <1>4, <1>5, <1>6 DEF Next, Stopped

\* Serial calls, however many, whatever the driver does, never meet undefined
\* behaviour: no null stub, no freed context, no callback into a handler that
\* returned, no thread overwritten while joinable.
THEOREM SerialNoFault == Callers = "serial" => (Spec => []NoFault)
<1> SUFFICES ASSUME Callers = "serial" PROVE Spec => []NoFault
  OBVIOUS
<1>1. Init => SafeInv
  BY InitSafe
<1>2. SafeInv /\ [Next]_vars => SafeInv'
  BY NextSafe
<1>3. SafeInv => NoFault
  BY DEF SafeInv, SerialInv, NoFault
<1> QED
  BY <1>1, <1>2, <1>3, PTL DEF Spec

\* Serial calls always leave the shared subscriber as it was constructed, on
\* every way out of a call.
THEOREM SerialReturnsClean == Callers = "serial" => (Spec => []ReturnsClean)
<1> SUFFICES ASSUME Callers = "serial" PROVE Spec => []ReturnsClean
  OBVIOUS
<1>1. Init => SafeInv
  BY InitSafe
<1>2. SafeInv /\ [Next]_vars => SafeInv'
  BY NextSafe
<1>3. SafeInv => ReturnsClean
  BY DEF SafeInv, SerialInv, ReturnsClean, Clean
<1> QED
  BY <1>1, <1>2, <1>3, PTL DEF Spec

\* A serial call that waits for results always has a worker that calls back
\* into it, unless the driver has closed the stream.
THEOREM SerialWaitingCallIsFed == Callers = "serial" => (Spec => []WaitingCallIsFed)
<1> SUFFICES ASSUME Callers = "serial" PROVE Spec => []WaitingCallIsFed
  OBVIOUS
<1>1. Init => SafeInv
  BY InitSafe
<1>2. SafeInv /\ [Next]_vars => SafeInv'
  BY NextSafe
<1>3. SafeInv => WaitingCallIsFed
  BY DEF SafeInv, SerialInv, WaitingCallIsFed, InFlight, Shape, GoesOn, HasCallback, HasContext, Served
<1> QED
  BY <1>1, <1>2, <1>3, PTL DEF Spec

-----------------------------------------------------------------------------
(* How long stop() of a serial call can wait in join(): not for the        *)
(* driver, and not for more than a few steps of the worker.  That the      *)
(* worker gets its turn is what CancelEndsCall adds, and TLC checks.       *)

\* The steps of a worker, at most, until it has exited, once running_ is false.
NotifyStepsLeft(w) ==
  [testing |-> 3, calling |-> 2, pushing |-> 1][worker[w]] +
    IF AfterNotify(w) = "exiting" THEN 1 ELSE 6

StepsLeft(w) ==
  IF Notifying(w) THEN NotifyStepsLeft(w)
  ELSE [none |-> 0, exited |-> 0, exiting |-> 1, finishing |-> 5, loop |-> 6,
        subscribing |-> 7, spawned |-> 8, reading |-> 10][worker[w]]

\* The worker that is joined is the handler's own, and its call was cancelled:
\* Read and Finish return.
NotForDriver ==
  \A h \in Handlers : pc[h] = "stopJoining" => thread = h /\ CallCancelled(h)

JoinCountsDown ==
  [][\A h \in Handlers :
       pc[h] = "stopJoining" /\ pc'[h] = "stopJoining" /\ worker' # worker =>
         StepsLeft(h)' < StepsLeft(h)]_vars

LEMMA StepCountsDown ==
  ASSUME SafeInv, Next, NEW h \in Handlers,
         pc[h] = "stopJoining", pc'[h] = "stopJoining", worker' # worker
  PROVE  StepsLeft(h)' < StepsLeft(h)
<1> USE DEF members, call, threads, stream, handler
<1>0. TypeInv /\ TypeOK /\ SerialInv
  BY DEF SafeInv, TypeInv
<1>1. ~running /\ tried /\ \A g \in Handlers : g # h => ~InFlight(g)
  BY <1>0, Alone DEF SerialInv, Shape, InFlight, Cancelled
<1>2. PICK w \in Handlers : WorkerStep(w)
  <2>1. ASSUME NEW g \in Handlers, HandlerStep(g)
        PROVE  FALSE
    <3>1. pc[g] = "spawn" /\ pc'[g] = "assign"
      BY <1>0, <2>1, HandlerFrame
    <3>2. g # h /\ InFlight(g)
      BY <3>1 DEF InFlight
    <3> QED
      BY <1>1, <3>2
  <2>2. CASE Environment \/ Stopped
    BY <2>2 DEF Environment, Arrive, ClientCancels, DriverSends, DriverEnds, Stopped, vars
  <2> QED
    BY <2>1, <2>2 DEF Next
<1>3. w = h
  <2>1. worker[w] \notin {"none", "exited"}
    BY <1>0, <1>2, WorkerFrame
  <2> QED
    BY <1>1, <2>1 DEF SafeInv, SerialInv
<1>4. UNCHANGED <<source>> /\ worker \in [Handlers -> WorkerPlaces]
  BY <1>0, <1>2, WorkerFrame DEF TypeOK
<1>5. ASSUME NEW f, Dies(f) PROVE FALSE
  BY <1>5 DEF Dies
<1>6. CASE WorkerTakesStub(h) \/ WorkerSubscribe(h) \/ WorkerLoop(h) \/ WorkerReadFails(h)
           \/ WorkerFinishSilently(h) \/ WorkerExits(h)
  <2>1. \/ worker[h] = "spawned" /\ worker'[h] = "subscribing"
        \/ worker[h] = "subscribing" /\ worker'[h] = "loop"
        \/ worker[h] \in {"loop", "reading"} /\ worker'[h] = "finishing"
        \/ worker[h] = "finishing" /\ worker'[h] = "exiting"
        \/ worker[h] = "exiting" /\ worker'[h] = "exited"
    BY <1>1, <1>4, <1>6 DEF WorkerTakesStub, WorkerSubscribe, WorkerLoop, WorkerReadFails,
       WorkerFinishSilently, WorkerExits, WorkerGoes
  <2> QED
    BY <2>1 DEF StepsLeft, Notifying
<1>7. CASE WorkerRead(h)
  <2>1. worker[h] = "reading" /\ worker'[h] = "testing"
    BY <1>4, <1>7 DEF WorkerRead
  <2> QED
    BY <2>1 DEF StepsLeft, Notifying, NotifyStepsLeft
<1>8. CASE WorkerFinishError(h)
  <2>1. worker[h] = "finishing" /\ worker'[h] = "testing"
    BY <1>4, <1>8 DEF WorkerFinishError
  <2>2. AfterNotify(h)' = "exiting"
    BY <1>0, <1>4, <1>8 DEF WorkerFinishError, AfterNotify, Ended, TypeOK
  <2> QED
    BY <2>1, <2>2 DEF StepsLeft, Notifying, NotifyStepsLeft
<1>9. CASE WorkerTestsCallback(h) \/ WorkerCalls(h)
  <2>1. \/ worker[h] = "testing" /\ worker'[h] = "calling"
        \/ worker[h] = "calling" /\ worker'[h] = "pushing"
    BY <1>4, <1>9 DEF WorkerTestsCallback, WorkerGoes, WorkerCalls
  <2>2. AfterNotify(h)' = AfterNotify(h)
    BY <1>4, <1>9 DEF WorkerTestsCallback, WorkerGoes, WorkerCalls, AfterNotify
  <2> QED
    BY <2>1, <2>2 DEF StepsLeft, Notifying, NotifyStepsLeft
<1>10. CASE WorkerDrops(h) \/ WorkerPush(h)
  <2>1. worker[h] \in {"testing", "calling", "pushing"} /\ worker'[h] = AfterNotify(h)
    BY <1>4, <1>10 DEF WorkerDrops, WorkerGoes, WorkerPush
  <2>2. AfterNotify(h) \in {"exiting", "loop"}
    BY DEF AfterNotify
  <2> QED
    BY <2>1, <2>2 DEF StepsLeft, Notifying, NotifyStepsLeft
<1>11. CASE WorkerNullStub(h) \/ WorkerBadContext(h) \/ WorkerContextFreed(h) \/ WorkerPushDangling(h)
  BY <1>5, <1>11 DEF WorkerNullStub, WorkerBadContext, WorkerContextFreed, WorkerPushDangling
<1> QED
  BY <1>2, <1>3, <1>6, <1>7, <1>8, <1>9, <1>10, <1>11 DEF WorkerStep

\* stop() of a serial call waits for at most ten steps of its own worker, and in
\* none of them for the driver: it clears running_ and cancels the call before
\* it joins.
THEOREM SerialStopIsBounded == Callers = "serial" => (Spec => []NotForDriver /\ JoinCountsDown)
<1> SUFFICES ASSUME Callers = "serial" PROVE Spec => []NotForDriver /\ JoinCountsDown
  OBVIOUS
<1>1. Init => SafeInv
  BY InitSafe
<1>2. SafeInv /\ [Next]_vars => SafeInv'
  BY NextSafe
<1>3. SafeInv => NotForDriver
  BY DEF SafeInv, SerialInv, Shape, NotForDriver, InFlight, Served, Cancelled, CallCancelled
<1>4. SafeInv /\ [Next]_vars =>
        [\A h \in Handlers : pc[h] = "stopJoining" /\ pc'[h] = "stopJoining" /\ worker' # worker =>
           StepsLeft(h)' < StepsLeft(h)]_vars
  BY StepCountsDown
<1> QED
  BY <1>1, <1>2, <1>3, <1>4, PTL DEF Spec, JoinCountsDown

-----------------------------------------------------------------------------
(* Overlapping calls: whatever they do to the subscriber, a result that    *)
(* was read is in one place.                                               *)

\* The worker w may read on: it has not consumed the status of its stream.
ReadsOn(w) ==
  \/ worker[w] \in {"none", "spawned", "subscribing", "loop", "reading", "finishing"}
  \/ Notifying(w) /\ AfterNotify(w) = "loop"

\* A result some worker has read.
Known(r) == r.from \in Handlers /\ r.n \in 1..read[r.from]

\* Each stream is read by one worker, up to its status.
ReadOnce ==
  \A w \in Handlers :
    /\ worker[w] = "none" => read[w] = 0
    /\ ReadsOn(w) => \A n \in 1..read[w] : source[w][n] \in Results

AllKnown ==
  \A h \in Handlers :
    /\ \A i \in 1..Len(sent[h]) : Known(sent[h][i])
    /\ \A i \in 1..Len(queue[h]) : Known(queue[h][i])
    /\ Notifying(h) => Known(held[h]) /\ held[h].from = h

AllApart ==
  \A g, h \in Handlers :
    /\ \A i \in 1..Len(sent[g]), j \in 1..Len(sent[h]) :
         sent[g][i] = sent[h][j] => g = h /\ i = j
    /\ \A i \in 1..Len(queue[g]), j \in 1..Len(queue[h]) :
         queue[g][i] = queue[h][j] => g = h /\ i = j
    /\ \A i \in 1..Len(sent[g]), j \in 1..Len(queue[h]) : sent[g][i] # queue[h][j]
    /\ Notifying(g) => /\ \A i \in 1..Len(sent[h]) : sent[h][i] # held[g]
                       /\ \A i \in 1..Len(queue[h]) : queue[h][i] # held[g]

OnceInv == TypeInv /\ ReadOnce /\ AllKnown /\ AllApart

\* No worker begins to hold a result.
NoneTaken == \A w \in Handlers : Notifying(w)' => Notifying(w) /\ held'[w] = held[w]

-----------------------------------------------------------------------------
\* Where the elements of a queue were before d of them were taken from its head.
Shifted(d) ==
  \A g \in Handlers : \A i \in 1..Len(queue'[g]) :
    i + d[g] \in 1..Len(queue[g]) /\ queue'[g][i] = queue[g][i + d[g]]

\* Queues that only become shorter, and outputs that stay, keep results apart.
LEMMA ShorterOnce ==
  ASSUME TypeOK, AllKnown, AllApart, NEW d \in [Handlers -> {0, 1}], Shifted(d),
         sent' = sent, read' = read, NoneTaken
  PROVE  AllKnown' /\ AllApart'
<1>1. \A r : Known(r)' <=> Known(r)
  BY DEF Known
<1>2. AllKnown'
  BY <1>1 DEF AllKnown, Shifted, NoneTaken
<1>3. ASSUME NEW f \in Handlers, NEW g \in Handlers,
             NEW i \in 1..Len(queue'[f]), NEW j \in 1..Len(queue'[g]), queue'[f][i] = queue'[g][j]
      PROVE  f = g /\ i = j
  <2>1. /\ i + d[f] \in 1..Len(queue[f]) /\ j + d[g] \in 1..Len(queue[g])
        /\ queue[f][i + d[f]] = queue[g][j + d[g]]
    BY <1>3 DEF Shifted
  <2>2. f = g /\ i + d[f] = j + d[g]
    BY <2>1 DEF AllApart
  <2> QED
    BY <2>2
<1>4. \A f, g \in Handlers : \A i \in 1..Len(sent'[f]), j \in 1..Len(queue'[g]) :
        sent'[f][i] # queue'[g][j]
  <2> SUFFICES ASSUME NEW f \in Handlers, NEW g \in Handlers,
                      NEW i \in 1..Len(sent'[f]), NEW j \in 1..Len(queue'[g])
               PROVE  sent'[f][i] # queue'[g][j]
    OBVIOUS
  <2>1. j + d[g] \in 1..Len(queue[g]) /\ queue'[g][j] = queue[g][j + d[g]]
    BY DEF Shifted
  <2> QED
    BY <2>1 DEF AllApart
<1>5. ASSUME NEW w \in Handlers, Notifying(w)', NEW g \in Handlers
      PROVE  /\ \A i \in 1..Len(sent'[g]) : sent'[g][i] # held'[w]
             /\ \A i \in 1..Len(queue'[g]) : queue'[g][i] # held'[w]
  <2>1. Notifying(w) /\ held'[w] = held[w]
    BY <1>5 DEF NoneTaken
  <2> QED
    BY <2>1 DEF AllApart, Shifted
<1>6. \A f, g \in Handlers : \A i \in 1..Len(sent'[f]), j \in 1..Len(sent'[g]) :
        sent'[f][i] = sent'[g][j] => f = g /\ i = j
  BY DEF AllApart
<1> QED
  BY <1>2, <1>3, <1>4, <1>5, <1>6 DEF AllApart

\* A pop takes one element from the head.
LEMMA PopShifts ==
  ASSUME TypeOK, NEW h \in Handlers,
         queue[h] # <<>>, queue' = [queue EXCEPT ![h] = Tail(queue[h])]
  PROVE  Shifted([g \in Handlers |-> IF g = h THEN 1 ELSE 0])
<1> DEFINE d == [g \in Handlers |-> IF g = h THEN 1 ELSE 0]
<1>1. queue[h] \in Seq(Result \union {NoResult})
  BY DEF TypeOK
<1>2. /\ queue'[h] = Tail(queue[h])
      /\ Len(Tail(queue[h])) = Len(queue[h]) - 1 /\ Len(queue[h]) \in Nat
      /\ \A i \in 1..Len(Tail(queue[h])) : Tail(queue[h])[i] = queue[h][i + 1]
  BY <1>1 DEF TypeOK
<1>3. ASSUME NEW g \in Handlers, NEW i \in 1..Len(queue'[g])
      PROVE  i + d[g] \in 1..Len(queue[g]) /\ queue'[g][i] = queue[g][i + d[g]]
  <2>1. CASE g = h
    <3>1. d[g] = 1 /\ i \in 1..Len(Tail(queue[h])) /\ queue'[g][i] = Tail(queue[h])[i]
      BY <1>2, <2>1
    <3>2. i + 1 \in 1..Len(queue[h]) /\ Tail(queue[h])[i] = queue[h][i + 1]
      BY <1>2, <3>1
    <3> QED
      BY <2>1, <3>1, <3>2
  <2>2. CASE g # h
    <3>1. queue'[g] = queue[g] /\ d[g] = 0
      BY <2>2 DEF TypeOK
    <3> QED
      BY <3>1
  <2> QED
    BY <2>1, <2>2
<1> QED
  BY <1>3 DEF Shifted

\* What the places of handler and worker become.
LEMMA HandlerReads ==
  ASSUME TypeInv, ReadOnce, NEW h \in Handlers, HandlerStep(h)
  PROVE  ReadOnce' /\ NoneTaken
<1>0. TypeOK
  BY DEF TypeInv
<1>1. /\ UNCHANGED <<held, read, source>>
      /\ \/ worker' = worker
         \/ pc[h] = "spawn" /\ worker' = [worker EXCEPT ![h] = "spawned"]
  BY <1>0, HandlerFrame
<1>2. ASSUME NEW w \in Handlers
      PROVE  /\ worker'[w] = worker[w] \/ (worker[w] = "none" /\ worker'[w] = "spawned")
             /\ AfterNotify(w)' = AfterNotify(w)
  <2>1. pc[h] = "spawn" => worker[h] = "none"
    BY DEF TypeInv, Early
  <2>2. AfterNotify(w)' = AfterNotify(w)
    BY <1>1 DEF AfterNotify
  <2>3. worker \in [Handlers -> WorkerPlaces]
    BY <1>0 DEF TypeOK
  <2>4. worker'[w] = worker[w] \/ (worker[w] = "none" /\ worker'[w] = "spawned")
    BY <1>1, <2>1, <2>3
  <2> QED
    BY <2>2, <2>4
<1>3. \A w \in Handlers :
        /\ worker'[w] = "none" => worker[w] = "none"
        /\ Notifying(w)' => Notifying(w)
        /\ ReadsOn(w)' => ReadsOn(w)
  BY <1>2 DEF Notifying, ReadsOn
<1> QED
  BY <1>1, <1>3 DEF ReadOnce, NoneTaken

\* A handler that gives up its queue, pops it, or hands its head on leaves the
\* results apart.
LEMMA HandlerOnce ==
  ASSUME OnceInv, NEW h \in Handlers, HandlerStep(h)
  PROVE  ReadOnce' /\ AllKnown' /\ AllApart'
<1>0. TypeInv /\ TypeOK /\ ReadOnce /\ AllKnown /\ AllApart
  BY DEF OnceInv, TypeInv
<1>1. UNCHANGED <<read, source, held>>
  BY <1>0, HandlerFrame
<1>2. NoneTaken /\ \A w \in Handlers : Notifying(w)' => Notifying(w) /\ held'[w] = held[w]
  BY <1>0, HandlerReads DEF NoneTaken
<1>3. ReadOnce'
  BY <1>0, HandlerReads
<1>4. \A r : Known(r)' <=> Known(r)
  BY <1>1 DEF Known
<1>5. CASE sent' = sent /\ queue' \in {queue, [queue EXCEPT ![h] = <<>>]}
  <2> DEFINE d == [g \in Handlers |-> 0]
  <2>1. \A g \in Handlers : queue'[g] = queue[g] \/ queue'[g] = <<>>
    BY <1>0, <1>5 DEF TypeOK
  <2>2. Shifted(d)
    BY <2>1 DEF Shifted
  <2>3. d \in [Handlers -> {0, 1}]
    OBVIOUS
  <2> QED
    BY <1>0, <1>1, <1>2, <1>3, <1>5, <2>2, <2>3, ShorterOnce
<1> DEFINE e == [g \in Handlers |-> IF g = h THEN 1 ELSE 0]
<1>6. e \in [Handlers -> {0, 1}]
  OBVIOUS
<1>7. CASE sent' = sent /\ queue[h] # <<>> /\ queue' = [queue EXCEPT ![h] = Tail(queue[h])]
  <2>1. Shifted(e)
    BY <1>0, <1>7, PopShifts
  <2> QED
    BY <1>0, <1>1, <1>2, <1>3, <1>6, <1>7, <2>1, ShorterOnce
<1>8. CASE /\ queue[h] # <<>> /\ queue' = [queue EXCEPT ![h] = Tail(queue[h])]
           /\ sent' = [sent EXCEPT ![h] = Append(sent[h], Head(queue[h]))]
  <2>1. /\ \A g \in Handlers : Len(sent[g]) \in Nat
        /\ \A g \in Handlers : g # h => sent'[g] = sent[g]
        /\ Len(sent'[h]) = Len(sent[h]) + 1
        /\ sent'[h][Len(sent[h]) + 1] = queue[h][1]
        /\ \A i \in 1..Len(sent[h]) : sent'[h][i] = sent[h][i]
        /\ 1 \in 1..Len(queue[h])
    BY <1>0, <1>8 DEF TypeOK
  <2>2. \A g \in Handlers : \A i \in 1..Len(sent'[g]) :
          \/ i \in 1..Len(sent[g]) /\ sent'[g][i] = sent[g][i]
          \/ g = h /\ i = Len(sent[h]) + 1 /\ sent'[g][i] = queue[h][1]
    <3>1. ASSUME NEW g \in Handlers, NEW i \in 1..Len(sent'[g]), g = h
          PROVE  \/ i \in 1..Len(sent[g]) /\ sent'[g][i] = sent[g][i]
                 \/ i = Len(sent[h]) + 1 /\ sent'[g][i] = queue[h][1]
      <4>1. Len(sent[h]) \in Nat /\ i \in 1..(Len(sent[h]) + 1)
        BY <2>1, <3>1
      <4>2. CASE i = Len(sent[h]) + 1
        BY <2>1, <3>1, <4>2
      <4>3. CASE i # Len(sent[h]) + 1
        BY <2>1, <3>1, <4>1, <4>3
      <4> QED
        BY <4>2, <4>3
    <3> QED
      BY <2>1, <3>1
  <2>3. \A g \in Handlers : \A i \in 1..Len(queue'[g]) :
          /\ i + e[g] \in 1..Len(queue[g]) /\ queue'[g][i] = queue[g][i + e[g]]
          /\ ~(g = h /\ i + e[g] = 1)
    <3>1. Shifted(e)
      BY <1>0, <1>8, PopShifts
    <3> QED
      BY <3>1 DEF Shifted
  <2>4. AllKnown'
    <3>1. ASSUME NEW g \in Handlers, NEW i \in 1..Len(sent'[g]) PROVE Known(sent[g][i])'
      <4>1. \/ i \in 1..Len(sent[g]) /\ sent'[g][i] = sent[g][i]
            \/ sent'[g][i] = queue[h][1]
        BY <2>2
      <4>2. Known(sent[g][i]) \/ ~(i \in 1..Len(sent[g]))
        BY <1>0 DEF AllKnown
      <4>3. Known(queue[h][1])
        BY <1>0, <2>1 DEF AllKnown
      <4> QED
        BY <1>1, <4>1, <4>2, <4>3 DEF Known
    <3>2. ASSUME NEW g \in Handlers, NEW i \in 1..Len(queue'[g]) PROVE Known(queue[g][i])'
      <4>1. i + e[g] \in 1..Len(queue[g]) /\ queue'[g][i] = queue[g][i + e[g]]
        BY <2>3
      <4>2. Known(queue[g][i + e[g]])
        BY <1>0, <4>1 DEF AllKnown
      <4> QED
        BY <1>1, <4>1, <4>2 DEF Known
    <3>3. ASSUME NEW w \in Handlers, Notifying(w)' PROVE Known(held[w])' /\ held'[w].from = w
      BY <1>0, <1>2, <1>4, <3>3 DEF AllKnown, Known
    <3> QED
      BY <3>1, <3>2, <3>3 DEF AllKnown
  <2>5. AllApart'
    <3>1. ASSUME NEW f \in Handlers, NEW g \in Handlers
          PROVE  /\ \A i \in 1..Len(sent'[f]), j \in 1..Len(sent'[g]) :
                      sent'[f][i] = sent'[g][j] => f = g /\ i = j
                 /\ \A i \in 1..Len(queue'[f]), j \in 1..Len(queue'[g]) :
                      queue'[f][i] = queue'[g][j] => f = g /\ i = j
                 /\ \A i \in 1..Len(sent'[f]), j \in 1..Len(queue'[g]) :
                      sent'[f][i] # queue'[g][j]
      <4>1. \A i \in 1..Len(sent'[f]), j \in 1..Len(sent'[g]) :
              sent'[f][i] = sent'[g][j] => f = g /\ i = j
        <5>1. ASSUME NEW i \in 1..Len(sent'[f]), NEW j \in 1..Len(sent'[g]),
                     sent'[f][i] = sent'[g][j]
              PROVE  f = g /\ i = j
          <6>0. \A k \in Handlers : \A n \in 1..Len(sent[k]) : sent[k][n] # queue[h][1]
            BY <1>0, <2>1 DEF AllApart
          <6>1. CASE i \in 1..Len(sent[f]) /\ sent'[f][i] = sent[f][i]
            <7>1. sent'[g][j] # queue[h][1]
              BY <5>1, <6>0, <6>1
            <7>2. j \in 1..Len(sent[g]) /\ sent'[g][j] = sent[g][j]
              BY <2>2, <7>1
            <7>3. i \in 1..Len(sent[f]) /\ sent[f][i] = sent[g][j]
              BY <5>1, <6>1, <7>2
            <7>4. AllApart
              BY <1>0
            <7> QED
              BY <7>2, <7>3, <7>4 DEF AllApart
          <6>2. CASE f = h /\ i = Len(sent[h]) + 1 /\ sent'[f][i] = queue[h][1]
            <7>1. ~(j \in 1..Len(sent[g]) /\ sent'[g][j] = sent[g][j])
              BY <5>1, <6>0, <6>2
            <7>2. g = h /\ j = Len(sent[h]) + 1
              BY <2>2, <7>1
            <7> QED
              BY <6>2, <7>2
          <6> QED
            BY <2>2, <6>1, <6>2
        <5> QED
          BY <5>1
      <4>2. \A i \in 1..Len(queue'[f]), j \in 1..Len(queue'[g]) :
              queue'[f][i] = queue'[g][j] => f = g /\ i = j
        <5>1. ASSUME NEW i \in 1..Len(queue'[f]), NEW j \in 1..Len(queue'[g]),
                     queue'[f][i] = queue'[g][j]
              PROVE  f = g /\ i = j
          <6>1. /\ i + e[f] \in 1..Len(queue[f]) /\ j + e[g] \in 1..Len(queue[g])
                /\ queue[f][i + e[f]] = queue[g][j + e[g]]
            BY <2>3, <5>1
          <6>2. f = g /\ i + e[f] = j + e[g]
            BY <1>0, <6>1 DEF AllApart
          <6> QED
            BY <1>6, <6>2
        <5> QED
          BY <5>1
      <4>3. \A i \in 1..Len(sent'[f]), j \in 1..Len(queue'[g]) : sent'[f][i] # queue'[g][j]
        <5>1. ASSUME NEW i \in 1..Len(sent'[f]), NEW j \in 1..Len(queue'[g])
              PROVE  sent'[f][i] # queue'[g][j]
          <6>1. /\ j + e[g] \in 1..Len(queue[g]) /\ queue'[g][j] = queue[g][j + e[g]]
                /\ ~(g = h /\ j + e[g] = 1)
            BY <2>3
          <6>2. CASE i \in 1..Len(sent[f]) /\ sent'[f][i] = sent[f][i]
            <7>1. AllApart
              BY <1>0
            <7>2. sent[f][i] # queue[g][j + e[g]]
              BY <6>1, <6>2, <7>1 DEF AllApart
            <7> QED
              BY <6>1, <6>2, <7>2
          <6>3. CASE sent'[f][i] = queue[h][1]
            <7>1. AllApart /\ 1 \in 1..Len(queue[h])
              BY <1>0, <2>1
            <7>2. queue[h][1] = queue[g][j + e[g]] => h = g /\ 1 = j + e[g]
              BY <6>1, <7>1 DEF AllApart
            <7> QED
              BY <6>1, <6>3, <7>2
          <6> QED
            BY <2>2, <6>2, <6>3
        <5> QED
          BY <5>1
      <4> QED
        BY <4>1, <4>2, <4>3
    <3>2. ASSUME NEW w \in Handlers, Notifying(w)', NEW g \in Handlers
          PROVE  /\ \A i \in 1..Len(sent'[g]) : sent'[g][i] # held'[w]
                 /\ \A i \in 1..Len(queue'[g]) : queue'[g][i] # held'[w]
      <4>0. /\ held'[w] = held[w] /\ queue[h][1] # held[w]
            /\ \A i \in 1..Len(sent[g]) : sent[g][i] # held[w]
            /\ \A i \in 1..Len(queue[g]) : queue[g][i] # held[w]
        BY <1>0, <1>2, <2>1, <3>2 DEF AllApart
      <4>1. \A i \in 1..Len(sent'[g]) : sent'[g][i] # held'[w]
        BY <2>2, <4>0
      <4>2. \A i \in 1..Len(queue'[g]) : queue'[g][i] # held'[w]
        BY <2>3, <4>0
      <4> QED
        BY <4>1, <4>2
    <3> QED
      BY <3>1, <3>2 DEF AllApart
  <2> QED
    BY <1>3, <2>4, <2>5
<1> QED
  BY <1>0, <1>5, <1>7, <1>8, HandlerFrame

-----------------------------------------------------------------------------
\* A step that moves no result, reads none and keeps the workers between two
\* reads keeps the invariant.
LEMMA QuietOnce ==
  ASSUME OnceInv, UNCHANGED <<read, queue, sent, held>>,
         \A h \in Handlers : \A n \in 1..read[h] : source'[h][n] = source[h][n],
         \A w \in Handlers :
           /\ worker'[w] = "none" => worker[w] = "none"
           /\ Notifying(w)' => Notifying(w)
           /\ ReadsOn(w)' => ReadsOn(w)
  PROVE  ReadOnce' /\ AllKnown' /\ AllApart'
<1>0. TypeOK /\ ReadOnce /\ AllKnown /\ AllApart
  BY DEF OnceInv, TypeInv
<1>1. ReadOnce'
  BY <1>0 DEF ReadOnce
<1>2. AllKnown'
  BY <1>0 DEF AllKnown, Known
<1>3. AllApart'
  BY <1>0 DEF AllApart
<1> QED
  BY <1>1, <1>2, <1>3

\* What a worker reads next is new.
LEMMA ReadsNew ==
  ASSUME OnceInv, NEW w \in Handlers, NEW n \in Nat, read[w] < n, n <= Len(source[w]),
         worker[w] \in {"reading", "finishing"},
         source[w][n] \in Results => n = read[w] + 1,
         worker' = [worker EXCEPT ![w] = "testing"],
         read' = [read EXCEPT ![w] = n], held' = [held EXCEPT ![w] = ResultOf(w, n)],
         UNCHANGED <<source, queue, sent>>
  PROVE  ReadOnce' /\ AllKnown' /\ AllApart'
<1>0. TypeOK /\ ReadOnce /\ AllKnown /\ AllApart
  BY DEF OnceInv, TypeInv
<1>1. /\ read'[w] = n /\ worker'[w] = "testing"
      /\ \A h \in Handlers : h # w =>
           read'[h] = read[h] /\ worker'[h] = worker[h] /\ held'[h] = held[h]
      /\ \A h \in Handlers : read[h] \in Nat
      /\ held'[w].from = w /\ held'[w].n = n
  BY <1>0 DEF TypeOK, ResultOf
<1>2. ReadOnce'
  <2>1. ASSUME ReadsOn(w)' PROVE \A k \in 1..n : source[w][k] \in Results
    <3>1. source[w][n] \in Results
      <4>1. source[w][n] \notin Statuses
        BY <1>1, <2>1 DEF ReadsOn, AfterNotify
      <4> QED
        BY <1>0, <4>1 DEF TypeOK
    <3>2. ReadsOn(w)
      BY DEF ReadsOn
    <3> QED
      BY <1>0, <1>1, <3>1, <3>2 DEF ReadOnce
  <2>2. ASSUME NEW h \in Handlers
        PROVE  /\ worker'[h] = "none" => read'[h] = 0
               /\ ReadsOn(h)' => \A k \in 1..read'[h] : source'[h][k] \in Results
    <3>1. CASE h = w
      BY <1>1, <2>1, <3>1
    <3>2. CASE h # w
      BY <1>0, <1>1, <3>2 DEF ReadOnce, ReadsOn, Notifying, AfterNotify
    <3> QED
      BY <3>1, <3>2
  <2> QED
    BY <2>2 DEF ReadOnce
<1>3. \A r : Known(r) => Known(r)' /\ r # held'[w]
  BY <1>1 DEF Known
<1>4. Known(held[w])'
  BY <1>1 DEF Known
<1>5. AllKnown'
  BY <1>0, <1>1, <1>3, <1>4 DEF AllKnown, Notifying
<1>6. AllApart'
  <2>1. \A h \in Handlers :
          /\ \A i \in 1..Len(sent'[h]) : sent'[h][i] # held'[w]
          /\ \A i \in 1..Len(queue'[h]) : queue'[h][i] # held'[w]
    BY <1>0, <1>3 DEF AllKnown
  <2>2. ASSUME NEW g \in Handlers, Notifying(g)', NEW h \in Handlers
        PROVE  /\ \A i \in 1..Len(sent'[h]) : sent'[h][i] # held'[g]
               /\ \A i \in 1..Len(queue'[h]) : queue'[h][i] # held'[g]
    <3>1. CASE g = w
      BY <2>1, <3>1
    <3>2. CASE g # w
      <4>1. Notifying(g) /\ held'[g] = held[g]
        BY <1>1, <2>2, <3>2 DEF Notifying
      <4> QED
        BY <1>0, <4>1 DEF AllApart
    <3> QED
      BY <3>1, <3>2
  <2>3. \A f, g \in Handlers :
          /\ \A i \in 1..Len(sent'[f]), j \in 1..Len(sent'[g]) :
               sent'[f][i] = sent'[g][j] => f = g /\ i = j
          /\ \A i \in 1..Len(queue'[f]), j \in 1..Len(queue'[g]) :
               queue'[f][i] = queue'[g][j] => f = g /\ i = j
          /\ \A i \in 1..Len(sent'[f]), j \in 1..Len(queue'[g]) : sent'[f][i] # queue'[g][j]
    BY <1>0 DEF AllApart
  <2> QED
    BY <2>2, <2>3 DEF AllApart
<1> QED
  BY <1>2, <1>5, <1>6

\* notify() moves what a worker holds to the end of one queue, or drops it.
LEMMA NotifyMoves ==
  ASSUME TypeOK, NEW w \in Handlers, WorkerPush(w) \/ WorkerDrops(w)
  PROVE  /\ Notifying(w) /\ ~Notifying(w)' /\ UNCHANGED <<read, source, sent>>
         /\ \A g \in Handlers : g # w => worker'[g] = worker[g] /\ held'[g] = held[g]
         /\ worker'[w] = AfterNotify(w)
         /\ \/ queue' = queue
            \/ \E c \in Handlers : queue' = [queue EXCEPT ![c] = Append(queue[c], held[w])]
<1> USE DEF members, call, threads, stream, handler
<1>1. /\ Notifying(w) /\ UNCHANGED <<read, source, sent>>
      /\ worker' = [worker EXCEPT ![w] = AfterNotify(w)]
      /\ held' = [held EXCEPT ![w] = NoResult]
  BY DEF WorkerPush, WorkerDrops, WorkerGoes, Notifying
<1>2. AfterNotify(w) \in {"exiting", "loop"}
  BY DEF AfterNotify
<1>3. /\ queue' = queue \/ \E c \in Handlers : queue' = [queue EXCEPT ![c] = Append(queue[c], held[w])]
  BY DEF WorkerPush, WorkerDrops, WorkerGoes, TypeOK
<1> QED
  BY <1>1, <1>2, <1>3 DEF TypeOK, Notifying

LEMMA NotifyOnce ==
  ASSUME OnceInv, NEW w \in Handlers, WorkerPush(w) \/ WorkerDrops(w)
  PROVE  ReadOnce' /\ AllKnown' /\ AllApart'
<1>0. TypeOK /\ ReadOnce /\ AllKnown /\ AllApart
  BY DEF OnceInv, TypeInv
<1>1. /\ Notifying(w) /\ ~Notifying(w)' /\ UNCHANGED <<read, source, sent>>
      /\ \A g \in Handlers : g # w => worker'[g] = worker[g] /\ held'[g] = held[g]
      /\ worker'[w] = AfterNotify(w)
      /\ \/ queue' = queue
         \/ \E c \in Handlers : queue' = [queue EXCEPT ![c] = Append(queue[c], held[w])]
  BY <1>0, NotifyMoves
<1>a. \A g \in Handlers : Notifying(g)' => g # w /\ Notifying(g) /\ held'[g] = held[g]
  BY <1>1 DEF Notifying
<1>2. ReadOnce'
  <2>1. AfterNotify(w) \in {"exiting", "loop"} /\ \A g \in Handlers : AfterNotify(g)' = AfterNotify(g)
    BY <1>1 DEF AfterNotify
  <2>2. ASSUME NEW g \in Handlers
        PROVE  /\ worker'[g] = "none" => worker[g] = "none"
               /\ ReadsOn(g)' => ReadsOn(g)
    BY <1>1, <2>1 DEF ReadsOn, Notifying
  <2> QED
    BY <1>0, <1>1, <2>2 DEF ReadOnce
<1>3. CASE queue' = queue
  <2>1. \A r : Known(r)' <=> Known(r)
    BY <1>1 DEF Known
  <2>2. AllKnown'
    BY <1>0, <1>1, <1>3, <1>a, <2>1 DEF AllKnown
  <2>3. AllApart'
    BY <1>0, <1>1, <1>3, <1>a DEF AllApart
  <2> QED
    BY <1>2, <2>2, <2>3
<1>4. ASSUME NEW c \in Handlers, queue' = [queue EXCEPT ![c] = Append(queue[c], held[w])]
      PROVE  AllKnown' /\ AllApart'
  <2> DEFINE m == Len(queue[c])
             x == held[w]
  <2>1. /\ m \in Nat /\ \A g \in Handlers : Len(queue[g]) \in Nat
        /\ \A g \in Handlers : g # c => queue'[g] = queue[g]
        /\ Len(queue'[c]) = m + 1 /\ queue'[c][m + 1] = x
        /\ \A i \in 1..m : queue'[c][i] = queue[c][i]
    <3>1. queue \in [Handlers -> Seq(Result \union {NoResult})]
      BY <1>0 DEF TypeOK
    <3>2. /\ m \in Nat /\ \A g \in Handlers : Len(queue[g]) \in Nat
          /\ queue'[c] = Append(queue[c], x)
          /\ \A g \in Handlers : g # c => queue'[g] = queue[g]
      BY <1>4, <3>1
    <3>3. queue[c] \in Seq(Result \union {NoResult})
      BY <3>1
    <3>4. /\ Len(Append(queue[c], x)) = m + 1 /\ Append(queue[c], x)[m + 1] = x
          /\ \A i \in 1..m : Append(queue[c], x)[i] = queue[c][i]
      BY <3>3
    <3> QED
      BY <3>2, <3>4
  <2>3. /\ \A g \in Handlers :
             /\ \A i \in 1..Len(sent[g]) : sent[g][i] # x
             /\ \A i \in 1..Len(queue[g]) : queue[g][i] # x
        /\ Known(x) /\ x.from = w
    BY <1>0, <1>1 DEF AllApart, AllKnown
  <2>9. \A g \in Handlers : Notifying(g)' => held'[g] # x
    BY <1>0, <1>a, <2>3 DEF AllKnown
  <2> HIDE DEF m, x
  <2>2. \A g \in Handlers : \A i \in 1..Len(queue'[g]) :
          \/ i \in 1..Len(queue[g]) /\ queue'[g][i] = queue[g][i]
          \/ g = c /\ i = m + 1 /\ queue'[g][i] = x
    BY <2>1 DEF m
  <2>4. AllKnown'
    <3>1. \A r : Known(r)' <=> Known(r)
      BY <1>1 DEF Known
    <3> QED
      BY <1>0, <1>1, <1>a, <2>2, <2>3, <3>1 DEF AllKnown
  <2>5. ASSUME NEW f \in Handlers, NEW g \in Handlers,
               NEW i \in 1..Len(queue'[f]), NEW j \in 1..Len(queue'[g]), queue'[f][i] = queue'[g][j]
        PROVE  f = g /\ i = j
    <3>1. CASE i \in 1..Len(queue[f]) /\ queue'[f][i] = queue[f][i]
      <4>1. queue'[g][j] # x
        BY <2>3, <2>5, <3>1
      <4>2. j \in 1..Len(queue[g]) /\ queue'[g][j] = queue[g][j]
        BY <2>2, <4>1
      <4>3. i \in 1..Len(queue[f]) /\ queue[f][i] = queue[g][j]
        BY <2>5, <3>1, <4>2
      <4>4. AllApart
        BY <1>0
      <4> QED
        BY <4>2, <4>3, <4>4 DEF AllApart
    <3>2. CASE f = c /\ i = m + 1 /\ queue'[f][i] = x
      <4>1. ~(j \in 1..Len(queue[g]) /\ queue'[g][j] = queue[g][j])
        BY <2>3, <2>5, <3>2
      <4>2. g = c /\ j = m + 1
        BY <2>2, <4>1
      <4> QED
        BY <3>2, <4>2
    <3> QED
      BY <2>2, <3>1, <3>2
  <2>6. \A f, g \in Handlers : \A i \in 1..Len(sent'[f]), j \in 1..Len(queue'[g]) :
          sent'[f][i] # queue'[g][j]
    BY <1>0, <1>1, <2>2, <2>3 DEF AllApart
  <2>8. ASSUME NEW g \in Handlers, Notifying(g)', NEW h \in Handlers
        PROVE  /\ \A i \in 1..Len(sent'[h]) : sent'[h][i] # held'[g]
               /\ \A i \in 1..Len(queue'[h]) : queue'[h][i] # held'[g]
    <3>1. /\ held'[g] = held[g] /\ held'[g] # x
          /\ \A i \in 1..Len(sent[h]) : sent[h][i] # held[g]
          /\ \A i \in 1..Len(queue[h]) : queue[h][i] # held[g]
      BY <1>0, <1>a, <2>8, <2>9 DEF AllApart
    <3> QED
      BY <1>1, <2>2, <3>1
  <2>10. \A f, g \in Handlers : \A i \in 1..Len(sent'[f]), j \in 1..Len(sent'[g]) :
           sent'[f][i] = sent'[g][j] => f = g /\ i = j
    BY <1>0, <1>1 DEF AllApart
  <2>7. AllApart'
    <3> SUFFICES ASSUME NEW f \in Handlers, NEW g \in Handlers
                 PROVE  /\ \A i \in 1..Len(sent'[f]), j \in 1..Len(sent'[g]) :
                             sent'[f][i] = sent'[g][j] => f = g /\ i = j
                        /\ \A i \in 1..Len(queue'[f]), j \in 1..Len(queue'[g]) :
                             queue'[f][i] = queue'[g][j] => f = g /\ i = j
                        /\ \A i \in 1..Len(sent'[f]), j \in 1..Len(queue'[g]) :
                             sent'[f][i] # queue'[g][j]
                        /\ Notifying(f)' =>
                             /\ \A i \in 1..Len(sent'[g]) : sent'[g][i] # held'[f]
                             /\ \A i \in 1..Len(queue'[g]) : queue'[g][i] # held'[f]
      BY DEF AllApart
    <3>1. \A i \in 1..Len(sent'[f]), j \in 1..Len(sent'[g]) :
            sent'[f][i] = sent'[g][j] => f = g /\ i = j
      BY <2>10
    <3>2. \A i \in 1..Len(queue'[f]), j \in 1..Len(queue'[g]) :
            queue'[f][i] = queue'[g][j] => f = g /\ i = j
      BY <2>5
    <3>3. \A i \in 1..Len(sent'[f]), j \in 1..Len(queue'[g]) : sent'[f][i] # queue'[g][j]
      BY <2>6
    <3>4. Notifying(f)' => /\ \A i \in 1..Len(sent'[g]) : sent'[g][i] # held'[f]
                           /\ \A i \in 1..Len(queue'[g]) : queue'[g][i] # held'[f]
      BY <2>8
    <3> QED
      BY <3>1, <3>2, <3>3, <3>4
  <2> QED
    BY <2>4, <2>7
<1> QED
  BY <1>1, <1>2, <1>3, <1>4

\* What Finish() adds lies beyond what was read.
LEMMA FinishReadsOn ==
  ASSUME TypeOK, ReadOnce, NEW w \in Handlers, WorkerFinishError(w)
  PROVE  /\ Len(source[w]) \in Nat /\ read[w] < Len(source[w])
         /\ source[w][Len(source[w])] \notin Results
<1>1. /\ Len(source[w]) \in Nat /\ Len(source[w]) > 0 /\ source[w][Len(source[w])] \in Statuses
      /\ read[w] \in Nat /\ read[w] <= Len(source[w])
  BY DEF WorkerFinishError, TypeOK, Ended
<1>2. \A k \in 1..read[w] : source[w][k] \in Results
  BY DEF WorkerFinishError, ReadOnce, ReadsOn
<1>3. source[w][Len(source[w])] \notin Results
  BY <1>1, ConstantsAssumption DEF ConstantsAssumption
<1> QED
  BY <1>1, <1>2, <1>3

\* The steps of a worker that neither read nor hand over.
QuietStep(w) ==
  \/ WorkerTakesStub(w) \/ WorkerNullStub(w) \/ WorkerSubscribe(w) \/ WorkerBadContext(w)
  \/ WorkerLoop(w) \/ WorkerReadFails(w) \/ WorkerFinishSilently(w) \/ WorkerContextFreed(w)
  \/ WorkerTestsCallback(w) \/ WorkerCalls(w) \/ WorkerPushDangling(w) \/ WorkerExits(w)

LEMMA QuietSteps ==
  ASSUME TypeOK, NEW w \in Handlers, QuietStep(w)
  PROVE  /\ UNCHANGED <<read, queue, sent, held, source>>
         /\ \A g \in Handlers :
              /\ worker'[g] = "none" => worker[g] = "none"
              /\ Notifying(g)' => Notifying(g)
              /\ ReadsOn(g)' => ReadsOn(g)
<1> USE DEF members, call, threads, stream, handler
<1>1. UNCHANGED <<read, queue, sent, held, source>>
  BY DEF QuietStep, WorkerTakesStub, WorkerNullStub, WorkerSubscribe, WorkerBadContext, WorkerLoop,
     WorkerReadFails, WorkerFinishSilently, WorkerContextFreed, WorkerTestsCallback, WorkerCalls,
     WorkerPushDangling, WorkerExits, WorkerGoes, Dies
<1>2. \/ worker' = worker
      \/ worker[w] = "spawned" /\ worker' = [worker EXCEPT ![w] = "subscribing"]
      \/ worker[w] = "subscribing" /\ worker' = [worker EXCEPT ![w] = "loop"]
      \/ worker[w] = "loop" /\ worker' = [worker EXCEPT ![w] = "reading"]
      \/ worker[w] = "loop" /\ worker' = [worker EXCEPT ![w] = "finishing"]
      \/ worker[w] = "reading" /\ worker' = [worker EXCEPT ![w] = "finishing"]
      \/ worker[w] = "finishing" /\ worker' = [worker EXCEPT ![w] = "exiting"]
      \/ worker[w] = "testing" /\ worker' = [worker EXCEPT ![w] = "calling"]
      \/ worker[w] = "calling" /\ worker' = [worker EXCEPT ![w] = "pushing"]
      \/ worker[w] = "exiting" /\ worker' = [worker EXCEPT ![w] = "exited"]
  BY DEF QuietStep, WorkerTakesStub, WorkerNullStub, WorkerSubscribe, WorkerBadContext, WorkerLoop,
     WorkerReadFails, WorkerFinishSilently, WorkerContextFreed, WorkerTestsCallback, WorkerCalls,
     WorkerPushDangling, WorkerExits, WorkerGoes, Dies
<1>3. \A g \in Handlers : g # w => worker'[g] = worker[g]
  BY <1>2 DEF TypeOK
<1>4. /\ \A g \in Handlers : AfterNotify(g)' = AfterNotify(g)
      /\ \/ worker'[w] = worker[w]
         \/ worker[w] = "spawned" /\ worker'[w] = "subscribing"
         \/ worker[w] = "subscribing" /\ worker'[w] = "loop"
         \/ worker[w] = "loop" /\ worker'[w] \in {"reading", "finishing"}
         \/ worker[w] = "reading" /\ worker'[w] = "finishing"
         \/ worker[w] = "finishing" /\ worker'[w] = "exiting"
         \/ worker[w] = "testing" /\ worker'[w] = "calling"
         \/ worker[w] = "calling" /\ worker'[w] = "pushing"
         \/ worker[w] = "exiting" /\ worker'[w] = "exited"
  BY <1>1, <1>2 DEF TypeOK, AfterNotify
<1>5. ASSUME NEW g \in Handlers
      PROVE  /\ worker'[g] = "none" => worker[g] = "none"
             /\ Notifying(g)' => Notifying(g)
             /\ ReadsOn(g)' => ReadsOn(g)
  <2>1. CASE g = w
    BY <1>4, <2>1 DEF Notifying, ReadsOn
  <2>2. CASE g # w
    BY <1>3, <1>4, <2>2 DEF Notifying, ReadsOn
  <2> QED
    BY <2>1, <2>2
<1> QED
  BY <1>1, <1>5

\* The steps of a worker keep the invariant.
LEMMA WorkerOnce ==
  ASSUME OnceInv, NEW w \in Handlers, WorkerStep(w)
  PROVE  ReadOnce' /\ AllKnown' /\ AllApart'
<1>0. TypeOK /\ ReadOnce
  BY DEF OnceInv, TypeInv
<1>1. CASE QuietStep(w)
  BY <1>0, <1>1, QuietSteps, QuietOnce
<1>2. CASE WorkerRead(w)
  <2> DEFINE n == read[w] + 1
  <2>1. n \in Nat /\ read[w] < n /\ n <= Len(source[w])
    BY <1>0, <1>2 DEF WorkerRead, HasNext, TypeOK
  <2>2. /\ worker[w] = "reading" /\ worker' = [worker EXCEPT ![w] = "testing"]
        /\ read' = [read EXCEPT ![w] = n] /\ held' = [held EXCEPT ![w] = ResultOf(w, n)]
        /\ UNCHANGED <<source, queue, sent>> /\ n = read[w] + 1
    BY <1>2 DEF WorkerRead, handler
  <2> HIDE DEF n
  <2> QED
    BY <2>1, <2>2, ReadsNew
<1>3. CASE WorkerFinishError(w)
  <2> DEFINE n == Len(source[w])
  <2>1. n \in Nat /\ read[w] < n /\ n <= Len(source[w]) /\ source[w][n] \notin Results
    BY <1>0, <1>3, FinishReadsOn
  <2>2. /\ worker[w] = "finishing" /\ worker' = [worker EXCEPT ![w] = "testing"]
        /\ read' = [read EXCEPT ![w] = n] /\ held' = [held EXCEPT ![w] = ResultOf(w, n)]
        /\ UNCHANGED <<source, queue, sent>>
    BY <1>3 DEF WorkerFinishError, handler
  <2> HIDE DEF n
  <2> QED
    BY <2>1, <2>2, ReadsNew
<1>4. CASE WorkerPush(w) \/ WorkerDrops(w)
  BY <1>4, NotifyOnce
<1> QED
  BY <1>1, <1>2, <1>3, <1>4 DEF WorkerStep, QuietStep

\* Driver and clients move no result.
LEMMA EnvironmentQuiet ==
  ASSUME TypeOK, Environment
  PROVE  /\ UNCHANGED <<read, queue, sent, held, worker>>
         /\ \A h \in Handlers : \A n \in 1..read[h] : source'[h][n] = source[h][n]
<1> USE DEF members, call, threads, stream, handler
<1>1. UNCHANGED <<read, queue, sent, held, worker>>
  BY DEF Environment, Arrive, ClientCancels, DriverSends, DriverEnds
<1>2. CASE source' = source
  BY <1>1, <1>2
<1>3. ASSUME NEW w \in Handlers, NEW m, source' = [source EXCEPT ![w] = Append(@, m)],
             m \in Results \union Statuses
      PROVE  \A h \in Handlers : \A n \in 1..read[h] : source'[h][n] = source[h][n]
  <2>1. \A h \in Handlers : source[h] \in Seq(Results \union Statuses) /\ read[h] \in Nat
                              /\ read[h] <= Len(source[h])
    BY DEF TypeOK
  <2>2. \A h \in Handlers : source'[h] = IF h = w THEN Append(source[h], m) ELSE source[h]
    BY <1>3 DEF TypeOK
  <2>3. \A n \in 1..Len(source[w]) : Append(source[w], m)[n] = source[w][n]
    BY <1>3, <2>1
  <2>4. ASSUME NEW h \in Handlers, NEW n \in 1..read[h]
        PROVE  source'[h][n] = source[h][n]
    <3>1. CASE h = w
      <4>1. n \in 1..Len(source[w])
        BY <2>1, <3>1
      <4> QED
        BY <2>2, <2>3, <3>1, <4>1
    <3>2. CASE h # w
      BY <2>2, <3>2
    <3> QED
      BY <3>1, <3>2
  <2> QED
    BY <2>4
<1> QED
  BY <1>1, <1>2, <1>3 DEF Environment, Arrive, ClientCancels, DriverSends, DriverEnds

LEMMA EnvironmentOnce ==
  ASSUME OnceInv, Environment
  PROVE  ReadOnce' /\ AllKnown' /\ AllApart'
<1>0. TypeOK
  BY DEF OnceInv, TypeInv
<1>1. /\ UNCHANGED <<read, queue, sent, held, worker>>
      /\ \A h \in Handlers : \A n \in 1..read[h] : source'[h][n] = source[h][n]
  BY <1>0, EnvironmentQuiet
<1>2. ASSUME NEW w \in Handlers
      PROVE  (Notifying(w)' => Notifying(w)) /\ (ReadsOn(w)' => ReadsOn(w))
  <2>1. Notifying(w) => AfterNotify(w)' = AfterNotify(w)
    <3> SUFFICES ASSUME Notifying(w) PROVE source'[w][read'[w]] = source[w][read[w]]
      BY DEF AfterNotify
    <3>1. read[w] \in 1..read[w]
      BY <1>0 DEF TypeOK
    <3> QED
      BY <1>1, <3>1
  <2> QED
    BY <1>1, <2>1 DEF Notifying, ReadsOn
<1> QED
  BY <1>1, <1>2, QuietOnce

LEMMA OnceHolds ==
  /\ Init => OnceInv
  /\ OnceInv /\ [Next]_vars => OnceInv'
<1>1. Init => OnceInv
  <2> SUFFICES ASSUME Init PROVE ReadOnce /\ AllKnown /\ AllApart
    BY TypeHolds DEF OnceInv
  <2> QED
    BY DEF Init, ReadOnce, AllKnown, AllApart, Notifying
<1>2. OnceInv /\ [Next]_vars => OnceInv'
  <2> SUFFICES ASSUME OnceInv, [Next]_vars PROVE OnceInv'
    OBVIOUS
  <2>0. TypeInv'
    BY TypeHolds DEF OnceInv
  <2>1. CASE \E h \in Handlers : HandlerStep(h)
    BY <2>0, <2>1, HandlerOnce DEF OnceInv
  <2>2. CASE \E w \in Handlers : WorkerStep(w)
    BY <2>0, <2>2, WorkerOnce DEF OnceInv
  <2>3. CASE Environment
    BY <2>0, <2>3, EnvironmentOnce DEF OnceInv
  <2>4. CASE UNCHANGED vars
    <3>1. \A w \in Handlers : (ReadsOn(w)' <=> ReadsOn(w)) /\ (Notifying(w)' <=> Notifying(w))
      BY <2>4 DEF ReadsOn, Notifying, AfterNotify, vars, threads, stream
    <3>2. UNCHANGED <<read, queue, sent, held, source, worker>>
      BY <2>4 DEF vars, threads, stream, handler
    <3> QED
      BY <2>0, <3>1, <3>2, QuietOnce DEF OnceInv
  <2> QED
    BY <2>1, <2>2, <2>3, <2>4 DEF Next, Stopped
<1> QED
  BY <1>1, <1>2

\* A result read from the driver reaches the output or the queue of at most one
\* call, and at most once, for any number of calls that overlap on the shared
\* subscriber in any interleaving.
THEOREM OverlapAtMostOnce == Spec => []AtMostOnce
<1>1. OnceInv => AtMostOnce
  <2> SUFFICES ASSUME OnceInv, NEW p \in Place, NEW q \in Place,
                      p[3] <= Len(ResultsAt(p)), q[3] <= Len(ResultsAt(q)),
                      ResultsAt(p)[p[3]] = ResultsAt(q)[q[3]]
               PROVE  p = q
    BY DEF AtMostOnce
  <2>1. AllApart
    BY DEF OnceInv
  <2>2. /\ p[1] \in Handlers /\ p[2] \in {"sent", "queue"} /\ p[3] \in Nat /\ p[3] >= 1
        /\ q[1] \in Handlers /\ q[2] \in {"sent", "queue"} /\ q[3] \in Nat /\ q[3] >= 1
        /\ p = <<p[1], p[2], p[3]>> /\ q = <<q[1], q[2], q[3]>>
    BY ConstantsAssumption DEF Place, ConstantsAssumption
  <2>3. p[1] = q[1] /\ p[2] = q[2] /\ p[3] = q[3]
    <3>1. CASE p[2] = "sent" /\ q[2] = "sent"
      BY <2>1, <2>2, <3>1 DEF AllApart, ResultsAt
    <3>2. CASE p[2] = "queue" /\ q[2] = "queue"
      BY <2>1, <2>2, <3>2 DEF AllApart, ResultsAt
    <3>3. CASE p[2] = "sent" /\ q[2] = "queue"
      BY <2>1, <2>2, <3>3 DEF AllApart, ResultsAt
    <3>4. CASE p[2] = "queue" /\ q[2] = "sent"
      BY <2>1, <2>2, <3>4 DEF AllApart, ResultsAt
    <3> QED
      BY <2>2, <3>1, <3>2, <3>3, <3>4
  <2> QED
    BY <2>2, <2>3
<1> QED
  BY <1>1, OnceHolds, PTL DEF Spec

-----------------------------------------------------------------------------
(* Overlapping calls: the results of one stream keep their order.          *)

Before(r, q) == r.from = q.from => r.n < q.n

\* Whatever streams the results come from that one client is given, those of
\* the same stream come in its order.
GivenInOrder ==
  \A h \in Handlers : \A i, j \in 1..Len(sent[h]) :
    i < j => Before(sent[h][i], sent[h][j])

\* What was written, what waits behind it, and the results at hand.
Ordered(s, q) ==
  /\ \A i, j \in 1..Len(s) : i < j => Before(s[i], s[j])
  /\ \A i, j \in 1..Len(q) : i < j => Before(q[i], q[j])
  /\ \A i \in 1..Len(s), j \in 1..Len(q) : Before(s[i], q[j])

AllBefore(s, q, r) ==
  /\ \A i \in 1..Len(s) : Before(s[i], r)
  /\ \A i \in 1..Len(q) : Before(q[i], r)

AllInOrder ==
  \A h \in Handlers :
    /\ Ordered(sent[h], queue[h])
    /\ \A w \in Handlers : Notifying(w) => AllBefore(sent[h], queue[h], held[w])

\* Queues that only lose their heads keep the order.
LEMMA ShorterInOrder ==
  ASSUME TypeOK, AllInOrder, NEW d \in [Handlers -> {0, 1}], Shifted(d),
         sent' = sent, NoneTaken
  PROVE  AllInOrder'
<1>0. ASSUME NEW h \in Handlers
      PROVE  /\ Ordered(sent'[h], queue'[h])
             /\ \A r : AllBefore(sent[h], queue[h], r) => AllBefore(sent'[h], queue'[h], r)
  <2>1. /\ sent'[h] = sent[h] /\ d[h] \in {0, 1}
        /\ \A i \in 1..Len(queue'[h]) :
             i + d[h] \in 1..Len(queue[h]) /\ queue'[h][i] = queue[h][i + d[h]]
    BY <1>0 DEF Shifted
  <2>2. /\ \A i, j \in 1..Len(sent[h]) : i < j => Before(sent[h][i], sent[h][j])
        /\ \A i, j \in 1..Len(queue[h]) : i < j => Before(queue[h][i], queue[h][j])
        /\ \A i \in 1..Len(sent[h]), j \in 1..Len(queue[h]) : Before(sent[h][i], queue[h][j])
    BY <1>0 DEF AllInOrder, Ordered
  <2>3. ASSUME NEW i \in 1..Len(queue'[h]), NEW j \in 1..Len(queue'[h]), i < j
        PROVE  Before(queue'[h][i], queue'[h][j])
    <3>1. /\ i + d[h] \in 1..Len(queue[h]) /\ j + d[h] \in 1..Len(queue[h])
          /\ queue'[h][i] = queue[h][i + d[h]] /\ queue'[h][j] = queue[h][j + d[h]]
      BY <2>1
    <3>2. i + d[h] < j + d[h]
      BY <2>1, <2>3
    <3> QED
      BY <2>2, <3>1, <3>2
  <2>4. \A i \in 1..Len(sent'[h]), j \in 1..Len(queue'[h]) : Before(sent'[h][i], queue'[h][j])
    BY <2>1, <2>2
  <2>5. Ordered(sent'[h], queue'[h])
    BY <2>1, <2>2, <2>3, <2>4 DEF Ordered
  <2>6. ASSUME NEW r, AllBefore(sent[h], queue[h], r) PROVE AllBefore(sent'[h], queue'[h], r)
    BY <2>1, <2>6 DEF AllBefore
  <2> QED
    BY <2>5, <2>6
<1>1. ASSUME NEW h \in Handlers, NEW w \in Handlers, Notifying(w)'
      PROVE  AllBefore(sent'[h], queue'[h], held'[w])
  <2>1. held'[w] = held[w] /\ AllBefore(sent[h], queue[h], held[w])
    BY <1>1 DEF NoneTaken, AllInOrder
  <2> QED
    BY <1>0, <2>1
<1> QED
  BY <1>0, <1>1 DEF AllInOrder, Ordered, AllBefore, Before

\* The head of a queue comes after everything that was given and before
\* everything that waits.
LEMMA DeliverInOrder ==
  ASSUME TypeOK, AllInOrder, NEW h \in Handlers, queue[h] # <<>>,
         queue' = [queue EXCEPT ![h] = Tail(queue[h])],
         sent' = [sent EXCEPT ![h] = Append(sent[h], Head(queue[h]))],
         NoneTaken
  PROVE  AllInOrder'
<1> DEFINE n == Len(sent[h])  x == queue[h][1]
<1>1. /\ n \in Nat /\ Len(queue[h]) \in Nat /\ 1 \in 1..Len(queue[h])
      /\ Len(sent'[h]) = n + 1 /\ sent'[h][n + 1] = x
      /\ \A i \in 1..n : sent'[h][i] = sent[h][i]
      /\ \A g \in Handlers : g # h => sent'[g] = sent[g] /\ queue'[g] = queue[g]
  BY DEF TypeOK
<1>2. \A i \in 1..Len(queue'[h]) : i + 1 \in 1..Len(queue[h]) /\ queue'[h][i] = queue[h][i + 1]
  <2> DEFINE e == [g \in Handlers |-> IF g = h THEN 1 ELSE 0]
  <2>1. Shifted(e) /\ e[h] = 1
    BY PopShifts
  <2> HIDE DEF e
  <2>2. \A i \in 1..Len(queue'[h]) :
          i + e[h] \in 1..Len(queue[h]) /\ queue'[h][i] = queue[h][i + e[h]]
    BY <2>1 DEF Shifted
  <2> QED
    BY <2>1, <2>2
<1>3. /\ \A i, j \in 1..n : i < j => Before(sent[h][i], sent[h][j])
      /\ \A i, j \in 1..Len(queue[h]) : i < j => Before(queue[h][i], queue[h][j])
      /\ \A i \in 1..n, j \in 1..Len(queue[h]) : Before(sent[h][i], queue[h][j])
  BY DEF AllInOrder, Ordered
<1> HIDE DEF n, x
<1>4. \A i \in 1..Len(sent'[h]) :
        \/ i \in 1..n /\ sent'[h][i] = sent[h][i]
        \/ i = n + 1 /\ sent'[h][i] = x
  BY <1>1
<1>5. ASSUME NEW i \in 1..Len(sent'[h]), NEW j \in 1..Len(sent'[h]), i < j
      PROVE  Before(sent'[h][i], sent'[h][j])
  <2>1. i \in 1..n /\ sent'[h][i] = sent[h][i]
    BY <1>1, <1>4, <1>5
  <2>2. CASE j \in 1..n /\ sent'[h][j] = sent[h][j]
    BY <1>3, <1>5, <2>1, <2>2
  <2>3. CASE j = n + 1 /\ sent'[h][j] = x
    BY <1>1, <1>3, <2>1, <2>3 DEF x
  <2> QED
    BY <1>4, <2>2, <2>3
<1>6. ASSUME NEW i \in 1..Len(queue'[h]), NEW j \in 1..Len(queue'[h]), i < j
      PROVE  Before(queue'[h][i], queue'[h][j])
  <2>1. i + 1 \in 1..Len(queue[h]) /\ j + 1 \in 1..Len(queue[h]) /\ i + 1 < j + 1
    BY <1>2, <1>6
  <2> QED
    BY <1>2, <1>3, <2>1
<1>7. ASSUME NEW i \in 1..Len(sent'[h]), NEW j \in 1..Len(queue'[h])
      PROVE  Before(sent'[h][i], queue'[h][j])
  <2>1. j + 1 \in 1..Len(queue[h]) /\ queue'[h][j] = queue[h][j + 1] /\ 1 < j + 1
    BY <1>2
  <2>2. CASE i \in 1..n /\ sent'[h][i] = sent[h][i]
    BY <1>3, <2>1, <2>2
  <2>3. CASE sent'[h][i] = x
    BY <1>1, <1>3, <2>1, <2>3 DEF x
  <2> QED
    BY <1>4, <2>2, <2>3
<1>8. ASSUME NEW r, AllBefore(sent[h], queue[h], r)
      PROVE  AllBefore(sent'[h], queue'[h], r)
  <2>1. /\ \A i \in 1..n : Before(sent[h][i], r)
        /\ \A i \in 1..Len(queue[h]) : Before(queue[h][i], r)
    BY <1>8 DEF AllBefore, n
  <2>2. Before(x, r)
    BY <1>1, <2>1 DEF x
  <2>3. \A i \in 1..Len(sent'[h]) : Before(sent'[h][i], r)
    BY <1>4, <2>1, <2>2
  <2>4. \A i \in 1..Len(queue'[h]) : Before(queue'[h][i], r)
    BY <1>2, <2>1
  <2> QED
    BY <2>3, <2>4 DEF AllBefore
<1>9. ASSUME NEW g \in Handlers
      PROVE  /\ Ordered(sent'[g], queue'[g])
             /\ \A r : AllBefore(sent[g], queue[g], r) => AllBefore(sent'[g], queue'[g], r)
  <2>1. CASE g = h
    BY <1>5, <1>6, <1>7, <1>8, <2>1 DEF Ordered
  <2>2. CASE g # h
    <3>1. sent'[g] = sent[g] /\ queue'[g] = queue[g] /\ Ordered(sent[g], queue[g])
      BY <1>1, <2>2 DEF AllInOrder
    <3> QED
      BY <3>1
  <2> QED
    BY <2>1, <2>2
<1>10. ASSUME NEW g \in Handlers, NEW w \in Handlers, Notifying(w)'
       PROVE  AllBefore(sent'[g], queue'[g], held'[w])
  <2>1. held'[w] = held[w] /\ AllBefore(sent[g], queue[g], held[w])
    BY <1>10 DEF NoneTaken, AllInOrder
  <2> QED
    BY <1>9, <2>1
<1> QED
  BY <1>9, <1>10 DEF AllInOrder, Ordered, AllBefore, Before

\* What a worker reads comes after everything it has read of its stream.
LEMMA ReadInOrder ==
  ASSUME OnceInv, AllInOrder, NEW w \in Handlers, NEW n \in Nat, read[w] < n,
         worker' = [worker EXCEPT ![w] = "testing"],
         held' = [held EXCEPT ![w] = ResultOf(w, n)], UNCHANGED <<queue, sent>>
  PROVE  AllInOrder'
<1>1. /\ held'[w].from = w /\ held'[w].n = n
      /\ \A g \in Handlers : g # w => worker'[g] = worker[g] /\ held'[g] = held[g]
  BY DEF OnceInv, TypeInv, TypeOK, ResultOf
<1>2. ASSUME NEW r, Known(r) PROVE Before(r, held'[w])
  <2>1. read[r.from] \in Nat /\ r.n \in 1..read[r.from]
    BY <1>2 DEF OnceInv, TypeInv, TypeOK, Known
  <2> QED
    BY <1>1, <2>1 DEF Before
<1>3. ASSUME NEW h \in Handlers, NEW g \in Handlers, Notifying(g)'
      PROVE  AllBefore(sent'[h], queue'[h], held'[g])
  <2>1. CASE g = w
    BY <1>2, <2>1 DEF OnceInv, AllKnown, AllBefore
  <2>2. CASE g # w
    <3>1. Notifying(g) /\ held'[g] = held[g]
      BY <1>1, <1>3, <2>2 DEF Notifying
    <3> QED
      BY <3>1 DEF AllInOrder
  <2> QED
    BY <2>1, <2>2
<1>4. \A h \in Handlers : Ordered(sent'[h], queue'[h])
  BY DEF AllInOrder
<1> QED
  BY <1>3, <1>4 DEF AllInOrder, Ordered, AllBefore, Before

\* notify() puts what the worker holds behind what waits.
LEMMA NotifyInOrder ==
  ASSUME OnceInv, AllInOrder, NEW w \in Handlers, WorkerPush(w) \/ WorkerDrops(w)
  PROVE  AllInOrder'
<1>0. TypeOK
  BY DEF OnceInv, TypeInv
<1>1. /\ Notifying(w) /\ ~Notifying(w)' /\ UNCHANGED <<read, source, sent>>
      /\ \A g \in Handlers : g # w => worker'[g] = worker[g] /\ held'[g] = held[g]
      /\ \/ queue' = queue
         \/ \E c \in Handlers : queue' = [queue EXCEPT ![c] = Append(queue[c], held[w])]
  BY <1>0, NotifyMoves
<1>2. \A g \in Handlers : Notifying(g)' => g # w /\ Notifying(g) /\ held'[g] = held[g]
  BY <1>1 DEF Notifying
<1>3. CASE queue' = queue
  <2>1. \A h, g \in Handlers : Notifying(g)' => AllBefore(sent'[h], queue'[h], held'[g])
    BY <1>1, <1>2, <1>3 DEF AllInOrder
  <2>2. \A h \in Handlers : Ordered(sent'[h], queue'[h])
    BY <1>1, <1>3 DEF AllInOrder
  <2> QED
    BY <2>1, <2>2 DEF AllInOrder, Ordered, AllBefore, Before
<1>4. ASSUME NEW c \in Handlers, queue' = [queue EXCEPT ![c] = Append(queue[c], held[w])]
      PROVE  AllInOrder'
  <2> DEFINE m == Len(queue[c])  x == held[w]
  <2>3. queue[c] \in Seq(Result \union {NoResult}) /\ m \in Nat
    BY <1>0 DEF TypeOK
  <2>4. /\ queue'[c] = Append(queue[c], x)
        /\ \A g \in Handlers : g # c => queue'[g] = queue[g]
    BY <1>0, <1>4 DEF TypeOK
  <2>5. /\ Len(queue'[c]) = m + 1 /\ queue'[c][m + 1] = x
        /\ \A i \in 1..m : queue'[c][i] = queue[c][i]
    BY <2>3, <2>4
  <2>6. /\ \A i, j \in 1..Len(sent[c]) : i < j => Before(sent[c][i], sent[c][j])
        /\ \A i, j \in 1..m : i < j => Before(queue[c][i], queue[c][j])
        /\ \A i \in 1..Len(sent[c]), j \in 1..m : Before(sent[c][i], queue[c][j])
        /\ \A i \in 1..Len(sent[c]) : Before(sent[c][i], x)
        /\ \A i \in 1..m : Before(queue[c][i], x)
    BY <1>1 DEF AllInOrder, Ordered, AllBefore
  <2>14. \A g \in Handlers : Notifying(g)' => Before(x, held'[g])
    <3>1. x.from = w /\ \A g \in Handlers : Notifying(g)' => held'[g].from # w
      BY <1>1, <1>2 DEF OnceInv, AllKnown
    <3> QED
      BY <3>1 DEF Before
  <2> HIDE DEF m, x
  <2>7. \A i \in 1..Len(queue'[c]) :
          \/ i \in 1..m /\ queue'[c][i] = queue[c][i]
          \/ i = m + 1 /\ queue'[c][i] = x
    BY <2>3, <2>5
  <2>8. ASSUME NEW i \in 1..Len(queue'[c]), NEW j \in 1..Len(queue'[c]), i < j
        PROVE  Before(queue'[c][i], queue'[c][j])
    <3>1. i \in 1..m /\ queue'[c][i] = queue[c][i]
      BY <2>3, <2>5, <2>7, <2>8
    <3>2. CASE j \in 1..m /\ queue'[c][j] = queue[c][j]
      BY <2>6, <2>8, <3>1, <3>2
    <3>3. CASE queue'[c][j] = x
      BY <2>6, <3>1, <3>3
    <3> QED
      BY <2>7, <3>2, <3>3
  <2>9. \A i \in 1..Len(sent[c]), j \in 1..Len(queue'[c]) : Before(sent[c][i], queue'[c][j])
    BY <2>6, <2>7
  <2>10. Ordered(sent'[c], queue'[c])
    BY <1>1, <2>6, <2>8, <2>9 DEF Ordered
  <2>11. ASSUME NEW g \in Handlers, Notifying(g)' PROVE AllBefore(sent'[c], queue'[c], held'[g])
    <3>1. AllBefore(sent[c], queue[c], held'[g]) /\ Before(x, held'[g])
      BY <1>2, <2>11, <2>14 DEF AllInOrder
    <3>2. \A i \in 1..Len(queue'[c]) : Before(queue'[c][i], held'[g])
      BY <2>7, <3>1 DEF AllBefore, m
    <3> QED
      BY <1>1, <3>1, <3>2 DEF AllBefore
  <2>12. ASSUME NEW h \in Handlers
         PROVE  /\ Ordered(sent'[h], queue'[h])
                /\ \A g \in Handlers : Notifying(g)' => AllBefore(sent'[h], queue'[h], held'[g])
    <3>1. CASE h = c
      BY <2>10, <2>11, <3>1
    <3>2. CASE h # c
      <4>1. sent'[h] = sent[h] /\ queue'[h] = queue[h]
        BY <1>1, <2>4, <3>2
      <4> QED
        BY <1>2, <4>1 DEF AllInOrder
    <3> QED
      BY <3>1, <3>2
  <2> QED
    BY <2>12 DEF AllInOrder, Ordered, AllBefore, Before
<1> QED
  BY <1>1, <1>3, <1>4

LEMMA HandlerInOrder ==
  ASSUME OnceInv, AllInOrder, NEW h \in Handlers, HandlerStep(h)
  PROVE  AllInOrder'
<1>0. TypeInv /\ TypeOK /\ ReadOnce
  BY DEF OnceInv, TypeInv
<1>1. NoneTaken
  BY <1>0, HandlerReads
<1>3. CASE sent' = sent /\ queue' \in {queue, [queue EXCEPT ![h] = <<>>]}
  <2>1. \A g \in Handlers : queue'[g] = queue[g] \/ queue'[g] = <<>>
    BY <1>0, <1>3 DEF TypeOK
  <2>2. Shifted([g \in Handlers |-> 0])
    BY <2>1 DEF Shifted
  <2>3. [g \in Handlers |-> 0] \in [Handlers -> {0, 1}]
    OBVIOUS
  <2> QED
    BY <1>0, <1>1, <1>3, <2>2, <2>3, ShorterInOrder
<1>4. CASE sent' = sent /\ queue[h] # <<>> /\ queue' = [queue EXCEPT ![h] = Tail(queue[h])]
  <2>1. Shifted([g \in Handlers |-> IF g = h THEN 1 ELSE 0])
    BY <1>0, <1>4, PopShifts
  <2>2. [g \in Handlers |-> IF g = h THEN 1 ELSE 0] \in [Handlers -> {0, 1}]
    OBVIOUS
  <2> QED
    BY <1>0, <1>1, <1>4, <2>1, <2>2, ShorterInOrder
<1>5. CASE /\ queue[h] # <<>> /\ queue' = [queue EXCEPT ![h] = Tail(queue[h])]
           /\ sent' = [sent EXCEPT ![h] = Append(sent[h], Head(queue[h]))]
  BY <1>0, <1>1, <1>5, DeliverInOrder
<1> QED
  BY <1>0, <1>3, <1>4, <1>5, HandlerFrame

LEMMA NextInOrder ==
  ASSUME OnceInv, AllInOrder, [Next]_vars
  PROVE  AllInOrder'
<1>0. TypeOK /\ ReadOnce
  BY DEF OnceInv, TypeInv
<1>1. ASSUME NEW h \in Handlers, HandlerStep(h) PROVE AllInOrder'
  BY <1>1, HandlerInOrder
<1>2. ASSUME NEW w \in Handlers, WorkerRead(w) PROVE AllInOrder'
  <2> DEFINE n == read[w] + 1
  <2>1. n \in Nat /\ read[w] < n
    BY <1>0 DEF TypeOK
  <2>2. /\ worker' = [worker EXCEPT ![w] = "testing"]
        /\ held' = [held EXCEPT ![w] = ResultOf(w, n)] /\ UNCHANGED <<queue, sent>>
    BY <1>2 DEF WorkerRead, handler
  <2> HIDE DEF n
  <2> QED
    BY <2>1, <2>2, ReadInOrder
<1>3. ASSUME NEW w \in Handlers, WorkerFinishError(w) PROVE AllInOrder'
  <2> DEFINE n == Len(source[w])
  <2>1. n \in Nat /\ read[w] < n
    BY <1>0, <1>3, FinishReadsOn
  <2>2. /\ worker' = [worker EXCEPT ![w] = "testing"]
        /\ held' = [held EXCEPT ![w] = ResultOf(w, n)] /\ UNCHANGED <<queue, sent>>
    BY <1>3 DEF WorkerFinishError, handler
  <2> HIDE DEF n
  <2> QED
    BY <2>1, <2>2, ReadInOrder
<1>4. ASSUME NEW w \in Handlers, WorkerPush(w) \/ WorkerDrops(w) PROVE AllInOrder'
  BY <1>4, NotifyInOrder
<1>5. ASSUME UNCHANGED <<queue, sent, held>>, \A w \in Handlers : Notifying(w)' => Notifying(w)
      PROVE  AllInOrder'
  <2>1. \A h \in Handlers : Ordered(sent'[h], queue'[h])
    BY <1>5 DEF AllInOrder
  <2>2. \A h, w \in Handlers : Notifying(w)' => AllBefore(sent'[h], queue'[h], held'[w])
    BY <1>5 DEF AllInOrder
  <2> QED
    BY <2>1, <2>2 DEF AllInOrder, Ordered, AllBefore, Before
<1>6. ASSUME NEW w \in Handlers, QuietStep(w) PROVE AllInOrder'
  BY <1>0, <1>5, <1>6, QuietSteps
<1>7. CASE Environment
  <2>1. UNCHANGED <<queue, sent, held, worker>>
    BY <1>0, <1>7, EnvironmentQuiet
  <2> QED
    BY <1>5, <2>1 DEF Notifying
<1>8. CASE UNCHANGED vars
  BY <1>5, <1>8 DEF Notifying, vars, threads, handler
<1> QED
  BY <1>1, <1>2, <1>3, <1>4, <1>6, <1>7, <1>8 DEF Next, WorkerStep, QuietStep, Stopped

\* Any number of calls may overlap on the shared subscriber, and a client may be
\* given results of another one's stream: those of one stream come in its order.
THEOREM OverlapInOrder == Spec => []GivenInOrder
<1>1. Init => OnceInv /\ AllInOrder
  <2> SUFFICES ASSUME Init PROVE OnceInv /\ AllInOrder
    OBVIOUS
  <2>1. OnceInv
    BY OnceHolds
  <2>2. \A h \in Handlers : sent[h] = <<>> /\ queue[h] = <<>>
    BY DEF Init
  <2>3. \A w \in Handlers : ~Notifying(w)
    BY DEF Init, Notifying
  <2>4. AllInOrder
    <3> SUFFICES ASSUME NEW h \in Handlers
                 PROVE  1..Len(sent[h]) = {} /\ 1..Len(queue[h]) = {}
      BY <2>3 DEF AllInOrder, Ordered
    <3> QED
      BY <2>2
  <2> QED
    BY <2>1, <2>4
<1>2. OnceInv /\ AllInOrder /\ [Next]_vars => OnceInv' /\ AllInOrder'
  BY OnceHolds, NextInOrder
<1>3. AllInOrder => GivenInOrder
  BY DEF AllInOrder, Ordered, GivenInOrder
<1> QED
  BY <1>1, <1>2, <1>3, PTL DEF Spec

-----------------------------------------------------------------------------
(* Overlapping calls never wait for each other in a circle.  That who can  *)
(* go on does is what AllCancelledReturn adds, and TLC checks.             *)

Joining == {"startJoining", "stopJoining"}

\* Where a handler waits, and for what: for a result or the cancellation of its
\* call, and for the thread it joins.
HandlerCanGo(h) ==
  /\ InFlight(h)
  /\ pc[h] = "loop" => cancelled[h] \/ queue[h] # <<>>
  /\ pc[h] \in Joining => worker[thread] = "exited"

\* Where a worker waits: for the driver, or the cancellation of its call to it.
WorkerCanGo(w) ==
  /\ worker[w] \notin {"none", "exited"}
  /\ worker[w] = "reading" => CallCancelled(w) \/ HasNext(w)
  /\ worker[w] = "finishing" => CallCancelled(w) \/ Ended(w)

\* When the clients of all the calls in flight have left, some thread can go on.
NeverStuck ==
  /\ fault = "none"
  /\ \E h \in Handlers : InFlight(h)
  /\ \A h \in Handlers : InFlight(h) => cancelled[h]
  => \E h \in Handlers : HandlerCanGo(h) \/ WorkerCanGo(h)

\* One handler at a time is inside join(), and it joins a thread that was
\* started: its own, or that of a call which has started in the meantime.
JoinsWorker ==
  /\ \A h \in Handlers :
       /\ pc[h] \in Joining => joiner = h /\ thread # NoHandler
       /\ pc[h] = "assign" => worker[h] # "none"
  /\ thread # NoHandler => worker[thread] # "none"

\* A context whose call nobody has cancelled yet is that of a handler which has
\* its own TryCancel, or its reset, before it.
HasCancel == {"setRunning", "spawn", "assign", "loop", "close", "stop", "testContext", "cancel",
              "resetContext"}

WillCancel == context # NoHandler /\ ~tried => pc[context] \in HasCancel

\* What a handler's step does to worker_ and to who joins it.
LEMMA HandlerJoins ==
  ASSUME TypeOK, NEW g \in Handlers, HandlerStep(g)
  PROVE  \/ UNCHANGED <<thread, joiner>> /\ (pc'[g] \in Joining => pc[g] \in Joining)
         \/ joiner' = g /\ thread # NoHandler /\ thread' = thread /\ joiner = NoHandler
         \/ /\ pc[g] \in Joining /\ thread' = NoHandler /\ joiner' = NoHandler
            /\ pc'[g] \notin Joining
         \/ pc[g] = "assign" /\ thread' = g /\ joiner' = joiner /\ pc'[g] = "loop"
<1> USE DEF Goto, HandlerOnly, Return, Dies, Join, Joined, JoinThrows, handler, members, Joining,
            TypeOK
<1>1. CASE StartStep(g)
  BY <1>1 DEF StartStep, StartIgnored, StartTest, StartJoinable, StartJoin, StartJoined,
     StartJoinThrows, StartSetStub, StartSetCallback, StartSetContext, StartSetRunning,
     StartSpawn, StartSpawnFails, StartAssign, StartAssignTerminates
<1>2. CASE LoopStep(g)
  BY <1>2 DEF LoopStep, Deliver, WriteFails, SeesCancel, Close
<1>3. CASE StopStep(g)
  BY <1>3 DEF StopStep, StopRunning, StopTestContext, StopCancel, StopCancelNull, StopJoinable,
     StopJoin, StopJoined, StopJoinThrows, StopResetContext, StopResetStub, StopResetCallback
<1> QED
  BY <1>1, <1>2, <1>3 DEF HandlerStep

\* And to context_: a handler that goes on past its TryCancel leaves a context
\* that was cancelled, or none, or the one of another handler.
LEMMA HandlerCancels ==
  ASSUME TypeOK, NEW g \in Handlers, HandlerStep(g)
  PROVE  \/ context' = NoHandler
         \/ context' = g /\ pc'[g] = "setRunning"
         \/ context' = context /\ tried'
         \/ /\ context' = context /\ tried' = tried
            /\ context = g /\ pc[g] \in HasCancel => pc'[g] \in HasCancel
<1> USE DEF Goto, HandlerOnly, Return, Dies, Join, Joined, JoinThrows, handler, members, call,
            HasCancel, TypeOK
<1>1. CASE StartStep(g)
  BY <1>1 DEF StartStep, StartIgnored, StartTest, StartJoinable, StartJoin, StartJoined,
     StartJoinThrows, StartSetStub, StartSetCallback, StartSetContext, StartSetRunning,
     StartSpawn, StartSpawnFails, StartAssign, StartAssignTerminates
<1>2. CASE LoopStep(g)
  BY <1>2 DEF LoopStep, Deliver, WriteFails, SeesCancel, Close
<1>3. CASE StopStep(g)
  BY <1>3, ConstantsAssumption DEF ConstantsAssumption, StopStep, StopRunning, StopTestContext,
     StopCancel, StopCancelNull, StopJoinable,
     StopJoin, StopJoined, StopJoinThrows, StopResetContext, StopResetStub, StopResetCallback
<1> QED
  BY <1>1, <1>2, <1>3 DEF HandlerStep

LEMMA NextJoins ==
  ASSUME TypeInv, JoinsWorker, WillCancel, [Next]_vars
  PROVE  JoinsWorker' /\ WillCancel'
<1>0. TypeOK /\ NoHandler \notin Handlers
  BY ConstantsAssumption DEF TypeInv, ConstantsAssumption
<1>1. ASSUME NEW g \in Handlers, HandlerStep(g)
      PROVE  JoinsWorker' /\ WillCancel'
  <2>1. /\ \A h \in Handlers : h # g => pc'[h] = pc[h]
        /\ \A w \in Handlers : worker[w] # "none" => worker'[w] # "none"
        /\ pc'[g] = "assign" /\ pc[g] # "assign" => worker'[g] # "none"
    <3>1. /\ pc' = [pc EXCEPT ![g] = pc'[g]]
          /\ \/ worker' = worker
             \/ /\ pc[g] = "spawn" /\ pc'[g] = "assign"
                /\ worker' = [worker EXCEPT ![g] = "spawned"]
      BY <1>0, <1>1, HandlerFrame
    <3>2. pc'[g] = "assign" /\ pc[g] # "assign" => worker' = [worker EXCEPT ![g] = "spawned"]
      BY <1>0, <1>1 DEF HandlerStep, StartStep, LoopStep, StopStep, StartIgnored, StartTest,
         StartJoinable, StartJoin, StartJoined, StartJoinThrows, StartSetStub, StartSetCallback,
         StartSetContext, StartSetRunning, StartSpawn, StartSpawnFails, StartAssign,
         StartAssignTerminates, Deliver, WriteFails, SeesCancel, Close, StopRunning,
         StopTestContext, StopCancel, StopCancelNull, StopJoinable, StopJoin, StopJoined,
         StopJoinThrows, StopResetContext, StopResetStub, StopResetCallback, Goto, HandlerOnly,
         Return, Dies, Join, Joined, JoinThrows, handler, TypeOK
    <3>3. \A h \in Handlers : h # g => pc'[h] = pc[h]
      BY <1>0, <3>1 DEF TypeOK
    <3>4. \A w \in Handlers : worker[w] # "none" => worker'[w] # "none"
      BY <1>0, <3>1 DEF TypeOK
    <3>5. pc'[g] = "assign" /\ pc[g] # "assign" => worker'[g] # "none"
      BY <1>0, <3>2 DEF TypeOK
    <3> QED
      BY <3>3, <3>4, <3>5
  <2>2. /\ \A h \in Handlers : pc[h] \in Joining => joiner = h /\ thread # NoHandler
        /\ \A h \in Handlers : pc[h] = "assign" => worker[h] # "none"
        /\ thread \in Handlers => worker[thread] # "none"
        /\ thread \in Handlers \union {NoHandler}
    BY <1>0 DEF JoinsWorker, TypeOK, Maybe
  <2>3. \A h \in Handlers : pc'[h] = "assign" => worker'[h] # "none"
    BY <2>1, <2>2
  <2>4. /\ \A h \in Handlers : pc'[h] \in Joining => joiner' = h /\ thread' # NoHandler
        /\ thread' # NoHandler => worker'[thread'] # "none"
    <3>1. CASE UNCHANGED <<thread, joiner>> /\ (pc'[g] \in Joining => pc[g] \in Joining)
      BY <1>0, <2>1, <2>2, <3>1
    <3>2. CASE joiner' = g /\ thread # NoHandler /\ thread' = thread /\ joiner = NoHandler
      BY <1>0, <2>1, <2>2, <3>2
    <3>3. CASE /\ pc[g] \in Joining /\ thread' = NoHandler /\ joiner' = NoHandler
               /\ pc'[g] \notin Joining
      BY <1>0, <2>1, <2>2, <3>3
    <3>4. CASE pc[g] = "assign" /\ thread' = g /\ joiner' = joiner /\ pc'[g] = "loop"
      BY <1>0, <2>1, <2>2, <3>4 DEF Joining
    <3> QED
      BY <1>0, <1>1, <3>1, <3>2, <3>3, <3>4, HandlerJoins
  <2>5. context' # NoHandler /\ ~tried' => pc'[context'] \in HasCancel
    <3>1. context \in Handlers \union {NoHandler}
      BY <1>0 DEF TypeOK, Maybe
    <3> QED
      BY <1>0, <1>1, <2>1, <3>1, HandlerCancels DEF WillCancel, HasCancel
  <2> QED
    BY <2>3, <2>4, <2>5 DEF JoinsWorker, WillCancel
<1>2. ASSUME NEW w \in Handlers, WorkerStep(w)
      PROVE  JoinsWorker' /\ WillCancel'
  <2>1. UNCHANGED <<context, tried, thread, joiner, pc>>
    BY <1>2 DEF WorkerStep, WorkerTakesStub, WorkerNullStub, WorkerSubscribe, WorkerBadContext,
       WorkerLoop, WorkerRead, WorkerReadFails, WorkerFinishSilently, WorkerFinishError,
       WorkerContextFreed, WorkerTestsCallback, WorkerDrops, WorkerCalls, WorkerPush,
       WorkerPushDangling, WorkerExits, WorkerGoes, Dies, members, call, handler
  <2>2. \A g \in Handlers : worker[g] # "none" => worker'[g] # "none"
    <3>1. CASE QuietStep(w)
      BY <1>0, <3>1, QuietSteps
    <3>2. CASE WorkerRead(w) \/ WorkerFinishError(w)
      BY <1>0, <3>2 DEF WorkerRead, WorkerFinishError, TypeOK
    <3>3. CASE WorkerPush(w) \/ WorkerDrops(w)
      BY <1>0, <3>3, NotifyMoves DEF AfterNotify
    <3> QED
      BY <1>2, <3>1, <3>2, <3>3 DEF WorkerStep, QuietStep
  <2>3. thread \in Handlers \union {NoHandler}
    BY <1>0 DEF TypeOK, Maybe
  <2> QED
    BY <2>1, <2>2, <2>3 DEF JoinsWorker, WillCancel
<1>3. CASE Environment
  <2>1. UNCHANGED <<context, tried, thread, joiner, worker>>
    BY <1>3 DEF Environment, Arrive, ClientCancels, DriverSends, DriverEnds, members, call, threads
  <2>2. \A h \in Handlers : pc'[h] = pc[h] \/ (pc[h] = "idle" /\ pc'[h] = "start")
    BY <1>0, <1>3 DEF Environment, Arrive, ClientCancels, DriverSends, DriverEnds, handler,
                Goto, TypeOK
  <2>3. context \in Handlers \union {NoHandler}
    BY <1>0 DEF TypeOK, Maybe
  <2> QED
    BY <2>1, <2>2, <2>3 DEF JoinsWorker, WillCancel, Joining, HasCancel
<1>4. CASE UNCHANGED vars
  BY <1>4 DEF JoinsWorker, WillCancel, vars, members, call, threads, handler
<1> QED
  BY <1>1, <1>2, <1>3, <1>4 DEF Next, Stopped

\* However any number of calls overlap on the shared subscriber, and whichever
\* stop() or start() joins whose worker, also one that was started after it had
\* tested running_: when their clients have left, some thread can go on until
\* the last call has returned.  No join is for a worker that reads from a call
\* which nobody is going to cancel.
THEOREM OverlapNeverStuck == Spec => []NeverStuck
<1>1. Init => TypeInv /\ JoinsWorker /\ WillCancel
  <2>1. Init => JoinsWorker /\ WillCancel
    BY DEF Init, JoinsWorker, WillCancel, Joining
  <2> QED
    BY <2>1, TypeHolds
<1>2. TypeInv /\ JoinsWorker /\ WillCancel /\ [Next]_vars => (TypeInv /\ JoinsWorker /\ WillCancel)'
  BY NextJoins, TypeHolds
<1>3. TypeInv /\ JoinsWorker /\ WillCancel => NeverStuck
  <2> SUFFICES ASSUME TypeInv, JoinsWorker, WillCancel, NEW h \in Handlers, InFlight(h),
                      \A g \in Handlers : InFlight(g) => cancelled[g],
                      ~HandlerCanGo(h)
               PROVE  \E g \in Handlers : HandlerCanGo(g) \/ WorkerCanGo(g)
    BY DEF NeverStuck
  <2>1. /\ pc[h] \in Joining /\ worker[thread] # "exited"
        /\ thread \in Handlers /\ worker[thread] # "none"
    BY DEF HandlerCanGo, JoinsWorker, TypeInv, TypeOK, Maybe
  <2>2. CASE WorkerCanGo(thread)
    BY <2>1, <2>2
  <2>3. CASE ~WorkerCanGo(thread)
    <3>1. ~CallCancelled(thread) /\ worker[thread] \in {"reading", "finishing"}
      BY <2>1, <2>3 DEF WorkerCanGo
    <3>2. context = uses[thread] /\ ~tried
      BY <3>1 DEF CallCancelled
    <3>3. uses[thread] # NoHandler /\ uses[thread] \in Handlers
      BY <2>1, <3>1 DEF TypeInv, TypeOK, Maybe
    <3>4. pc[context] \in HasCancel
      BY <3>2, <3>3 DEF WillCancel
    <3>5. HandlerCanGo(context)
      BY <3>2, <3>3, <3>4 DEF HandlerCanGo, InFlight, HasCancel, Joining
    <3> QED
      BY <3>2, <3>3, <3>5
  <2> QED
    BY <2>2, <2>3
<1> QED
  BY <1>1, <1>2, <1>3, PTL DEF Spec
=============================================================================
