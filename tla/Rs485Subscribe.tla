--------------------------- MODULE Rs485Subscribe ---------------------------
(***************************************************************************)
(* The Subscribe path of the RS-485 microservice: the gRPC handlers        *)
(* Rs485ServiceImpl::Subscribe (one thread per call), the single           *)
(* Rs485Subscriber they all share through one Rs485DriverClient, its       *)
(* worker thread, and the stream the driver serves to that worker.         *)
(*                                                                         *)
(* The subscriber has no mutex: start() and stop() are sequences of steps  *)
(* other handlers can run between.  What undefined behaviour and           *)
(* std::terminate lead to is the variable fault; the process does nothing  *)
(* more once it is set.                                                    *)
(***************************************************************************)
EXTENDS Naturals, Sequences

CONSTANTS
  Handlers,     \* the Subscribe calls the service may receive, one id per call
  NoHandler,    \* "no handler": an empty callback_, nobody joining the worker
  MaxResults,   \* bound: results the driver sends on one stream
  Results,      \* the kinds of result it may send
  Statuses,     \* the statuses it may close a stream with
  Callers       \* who calls Subscribe: see MayArrive

ASSUME ConstantsAssumption ==
  /\ NoHandler \notin Handlers
  /\ MaxResults \in Nat
  /\ Results \subseteq {"data", "driver_error"}
  /\ Statuses \subseteq {"OK", "UNAVAILABLE", "INTERNAL"}
  /\ Callers \in {"serial", "one_client", "many"}

VARIABLES
  running,      \* Rs485Subscriber::running_
  stub,         \* stub_ is set
  callback,     \* callback_: the handler whose locals it captures
  context,      \* context_: the handler whose start() made it
  called,       \* a call to the driver was made with context_
  tried,        \* TryCancel() was called on context_
  thread,       \* worker_: the handler whose start() made the thread
  joiner,       \* the handler inside worker_.join()
  worker,       \* per handler, where the thread it made is in receiveLoop()
  uses,         \* per worker, the context of the call to the driver it is in
  target,       \* per worker, the handler whose callback it is executing
  held,         \* per worker, the result it is about to hand over
  source,       \* per worker, what the driver wrote on its stream
  read,         \* per worker, how many elements of source it consumed
  pc,           \* where each handler is
  accepting,    \* accepting_results of each handler
  queue,        \* result_queue of each handler
  sent,         \* what each handler wrote to its client
  cancelled,    \* ServerContext::IsCancelled of each call
  fault         \* "none", or how the process died

call == <<context, called, tried>>
members == <<running, stub, callback, call, thread, joiner>>
threads == <<worker, uses, target, held>>
stream == <<source, read>>
handler == <<pc, accepting, queue, sent, cancelled>>
vars == <<members, threads, stream, handler, fault>>

\* The code the service derives from a result: a driver error is reported by
\* its message, the end of a stream as "gRPC error <n>".
CodeOf(m) ==
  CASE m = "data"         -> "NO_ERROR"
    [] m = "driver_error" -> "DRIVER_ERROR"
    [] m = "UNAVAILABLE"  -> "DRIVER_NOT_CONNECTED"
    [] OTHER              -> "INTERNAL_ERROR"

\* The n-th element of the stream of h, as a ReceiveDataResult.
ResultOf(h, n) == [from |-> h, n |-> n, code |-> CodeOf(source[h][n])]

Codes == {"NO_ERROR", "DRIVER_ERROR", "DRIVER_NOT_CONNECTED", "INTERNAL_ERROR"}
Result == [from : Handlers, n : Nat, code : Codes]
NoResult == [from |-> NoHandler, n |-> 0, code |-> "NO_ERROR"]

InFlight(h) == pc[h] \notin {"idle", "returned"}

\* The driver has closed the stream of w.
Ended(w) == source[w] # <<>> /\ source[w][Len(source[w])] \in Statuses

\* The next thing Read() would return on the stream of w.
HasNext(w) == read[w] < Len(source[w])
Next_(w) == source[w][read[w] + 1]

Goto(h, l) == pc' = [pc EXCEPT ![h] = l]

\* A step of h that touches none of its locals, nor the workers.
HandlerOnly(h, l) ==
  /\ Goto(h, l)
  /\ UNCHANGED <<threads, stream, accepting, queue, sent, cancelled, fault>>

\* Subscribe returns: its locals, the queue and accepting_results, are gone.
Return(h) ==
  /\ Goto(h, "returned")
  /\ accepting' = [accepting EXCEPT ![h] = FALSE]
  /\ queue' = [queue EXCEPT ![h] = <<>>]
  /\ UNCHANGED <<threads, stream, sent, cancelled, fault>>

\* Undefined behaviour, or std::terminate: the process is gone.
Dies(f) ==
  /\ fault' = f
  /\ UNCHANGED <<members, threads, stream, handler>>

\* std::thread::join on worker_.  A thread has one joiner at most: a second
\* join, and one of a worker_ joined in the meantime, throws std::system_error.
Join(h, from, to) ==
  /\ pc[h] = from /\ thread # NoHandler /\ joiner = NoHandler
  /\ joiner' = h
  /\ HandlerOnly(h, to)
  /\ UNCHANGED <<running, stub, callback, call, thread>>

Joined(h, from, to) ==
  /\ pc[h] = from /\ worker[thread] = "exited"
  /\ thread' = NoHandler /\ joiner' = NoHandler
  /\ HandlerOnly(h, to)
  /\ UNCHANGED <<running, stub, callback, call>>

JoinThrows(h, from) ==
  /\ pc[h] = from /\ (thread = NoHandler \/ joiner # NoHandler)
  /\ Return(h)
  /\ UNCHANGED members

-----------------------------------------------------------------------------
(* Rs485Subscriber::start, called by the handler through startSubscribe.   *)

\* "serial": one call at a time.  "one_client": one GUI, which calls again once
\* it has cancelled its last call, whether or not the handler has noticed.
\* "many": any number of clients.
MayArrive ==
  \A g \in Handlers : InFlight(g) =>
    Callers = "many" \/ (Callers = "one_client" /\ cancelled[g])

Arrive(h) ==
  /\ pc[h] = "idle"
  /\ MayArrive
  /\ Goto(h, "start")
  /\ accepting' = [accepting EXCEPT ![h] = TRUE]
  /\ UNCHANGED <<members, threads, stream, queue, sent, cancelled, fault>>

\* start() returns at once, and says nothing, when a subscription is running.
StartIgnored(h) ==
  /\ pc[h] = "start" /\ running
  /\ HandlerOnly(h, "loop")
  /\ UNCHANGED members

StartTest(h) ==
  /\ pc[h] = "start" /\ ~running
  /\ HandlerOnly(h, "joinable")
  /\ UNCHANGED members

StartJoinable(h) ==
  /\ pc[h] = "joinable"
  /\ HandlerOnly(h, IF thread = NoHandler THEN "setStub" ELSE "startJoin")
  /\ UNCHANGED members

\* The worker may be one that another call has started since StartTest.
StartJoin(h) == Join(h, "startJoin", "startJoining")

StartJoined(h) == Joined(h, "startJoining", "setStub")

\* startSubscribe turns std::system_error into Rs485StreamException and
\* Subscribe returns INTERNAL.
StartJoinThrows(h) == JoinThrows(h, "startJoin")

StartSetStub(h) ==
  /\ pc[h] = "setStub"
  /\ stub' = TRUE
  /\ HandlerOnly(h, "setCallback")
  /\ UNCHANGED <<running, callback, call, thread, joiner>>

StartSetCallback(h) ==
  /\ pc[h] = "setCallback"
  /\ callback' = h
  /\ HandlerOnly(h, "setContext")
  /\ UNCHANGED <<running, stub, call, thread, joiner>>

\* The context that was there, if any, is destroyed.
StartSetContext(h) ==
  /\ pc[h] = "setContext"
  /\ context' = h /\ called' = FALSE /\ tried' = FALSE
  /\ HandlerOnly(h, "setRunning")
  /\ UNCHANGED <<running, stub, callback, thread, joiner>>

StartSetRunning(h) ==
  /\ pc[h] = "setRunning"
  /\ running' = TRUE
  /\ HandlerOnly(h, "spawn")
  /\ UNCHANGED <<stub, callback, call, thread, joiner>>

\* The thread runs before worker_ holds it.
StartSpawn(h) ==
  /\ pc[h] = "spawn"
  /\ worker' = [worker EXCEPT ![h] = "spawned"]
  /\ Goto(h, "assign")
  /\ UNCHANGED <<members, uses, target, held, stream,
                 accepting, queue, sent, cancelled, fault>>

\* Mutant: the failed thread creation is swallowed, the handler polls its queue.
StartSpawnFailsSwallowed(h) ==
  /\ pc[h] = "spawn"
  /\ running' = FALSE
  /\ HandlerOnly(h, "loop")
  /\ UNCHANGED <<stub, callback, call, thread, joiner>>

\* The thread cannot be created: start() undoes its work, with the resets of
\* stop(), and rethrows.
StartSpawnFails(h) ==
  /\ pc[h] = "spawn"
  /\ running' = FALSE
  /\ HandlerOnly(h, "resetContext")
  /\ UNCHANGED <<stub, callback, call, thread, joiner>>

StartAssign(h) ==
  /\ pc[h] = "assign" /\ thread = NoHandler
  /\ thread' = h
  /\ HandlerOnly(h, "loop")
  /\ UNCHANGED <<running, stub, callback, call, joiner>>

\* Assigning a thread to a joinable std::thread terminates the process.
StartAssignTerminates(h) ==
  /\ pc[h] = "assign" /\ thread # NoHandler
  /\ Dies("terminate")

-----------------------------------------------------------------------------
(* The loop of Rs485ServiceImpl::Subscribe.  An expired wait_for changes   *)
(* nothing and is a stuttering step.                                       *)

\* Mutant: the newest result is taken instead of the oldest one.
DeliverNewest(h) ==
  /\ pc[h] = "loop" /\ ~cancelled[h] /\ queue[h] # <<>>
  /\ queue' = [queue EXCEPT ![h] = SubSeq(@, 1, Len(@) - 1)]
  /\ sent' = [sent EXCEPT ![h] = Append(@, queue[h][Len(queue[h])])]
  /\ UNCHANGED <<members, threads, stream, pc, accepting, cancelled, fault>>

\* Mutant: the result is written but not popped.
DeliverWithoutPop(h) ==
  /\ pc[h] = "loop" /\ ~cancelled[h] /\ queue[h] # <<>> /\ sent[h] = <<>>
  /\ sent' = [sent EXCEPT ![h] = Append(@, Head(queue[h]))]
  /\ UNCHANGED <<members, threads, stream, pc, accepting, queue, cancelled, fault>>

\* Mutant: no break after DRIVER_NOT_CONNECTED.
DeliverWithoutBreak(h) ==
  /\ pc[h] = "loop" /\ ~cancelled[h] /\ queue[h] # <<>>
  /\ queue' = [queue EXCEPT ![h] = Tail(@)]
  /\ sent' = [sent EXCEPT ![h] = Append(@, Head(queue[h]))]
  /\ UNCHANGED <<members, threads, stream, pc, accepting, cancelled, fault>>

Deliver(h) ==
  /\ pc[h] = "loop" /\ ~cancelled[h] /\ queue[h] # <<>>
  /\ queue' = [queue EXCEPT ![h] = Tail(@)]
  /\ sent' = [sent EXCEPT ![h] = Append(@, Head(queue[h]))]
  /\ Goto(h, IF Head(queue[h]).code = "DRIVER_NOT_CONNECTED" THEN "close"
                                                              ELSE "loop")
  /\ UNCHANGED <<members, threads, stream, accepting, cancelled, fault>>

\* The client leaves after the check of IsCancelled and before Write.
WriteFails(h) ==
  /\ pc[h] = "loop" /\ cancelled[h] /\ queue[h] # <<>>
  /\ queue' = [queue EXCEPT ![h] = Tail(@)]
  /\ Goto(h, "close")
  /\ UNCHANGED <<members, threads, stream, accepting, sent, cancelled, fault>>

\* Mutant: an expired wait_for ends the loop like a cancellation.
SeesTimeout(h) ==
  /\ pc[h] = "loop" /\ (cancelled[h] \/ queue[h] = <<>>)
  /\ Goto(h, "close")
  /\ UNCHANGED <<members, threads, stream, accepting, queue, sent, cancelled, fault>>

SeesCancel(h) ==
  /\ pc[h] = "loop" /\ cancelled[h]
  /\ Goto(h, "close")
  /\ UNCHANGED <<members, threads, stream, accepting, queue, sent, cancelled, fault>>

Close(h) ==
  /\ pc[h] = "close"
  /\ accepting' = [accepting EXCEPT ![h] = FALSE]
  /\ Goto(h, "stop")
  /\ UNCHANGED <<members, threads, stream, queue, sent, cancelled, fault>>

-----------------------------------------------------------------------------
(* Rs485Subscriber::stop, called by the handler through stopSubscribe.     *)

StopRunning(h) ==
  /\ pc[h] = "stop"
  /\ running' = FALSE
  /\ HandlerOnly(h, "testContext")
  /\ UNCHANGED <<stub, callback, call, thread, joiner>>

StopTestContext(h) ==
  /\ pc[h] = "testContext"
  /\ HandlerOnly(h, IF context = NoHandler THEN "stopJoinable" ELSE "cancel")
  /\ UNCHANGED members

\* Mutant: stop() joins without TryCancel.
StopWithoutCancel(h) ==
  /\ pc[h] = "cancel"
  /\ HandlerOnly(h, "stopJoinable")
  /\ UNCHANGED members

\* It may no longer be the context that was tested.
StopCancel(h) ==
  /\ pc[h] = "cancel" /\ context # NoHandler
  /\ tried' = TRUE
  /\ HandlerOnly(h, "stopJoinable")
  /\ UNCHANGED <<running, stub, callback, context, called, thread, joiner>>

\* Another call has reset context_ since the test.
StopCancelNull(h) ==
  /\ pc[h] = "cancel" /\ context = NoHandler
  /\ Dies("null_context")

StopJoinable(h) ==
  /\ pc[h] = "stopJoinable"
  /\ HandlerOnly(h, IF thread = NoHandler THEN "resetContext" ELSE "stopJoin")
  /\ UNCHANGED members

\* Mutant: stop() does not wait for the worker.
StopWithoutJoin(h) ==
  /\ pc[h] = "stopJoin" /\ thread # NoHandler /\ joiner = NoHandler
  /\ HandlerOnly(h, "resetContext")
  /\ UNCHANGED members

StopJoin(h) == Join(h, "stopJoin", "stopJoining")

StopJoined(h) == Joined(h, "stopJoining", "resetContext")

\* std::system_error leaves stop() before its resets; Subscribe catches it.
StopJoinThrows(h) == JoinThrows(h, "stopJoin")

StopResetContext(h) ==
  /\ pc[h] = "resetContext"
  /\ context' = NoHandler /\ called' = FALSE /\ tried' = FALSE
  /\ HandlerOnly(h, "resetStub")
  /\ UNCHANGED <<running, stub, callback, thread, joiner>>

StopResetStub(h) ==
  /\ pc[h] = "resetStub"
  /\ stub' = FALSE
  /\ HandlerOnly(h, "resetCallback")
  /\ UNCHANGED <<running, callback, call, thread, joiner>>

\* Mutant: stop() leaves callback_ in place.
StopKeepsCallback(h) ==
  /\ pc[h] = "resetCallback"
  /\ Return(h)
  /\ UNCHANGED members

StopResetCallback(h) ==
  /\ pc[h] = "resetCallback"
  /\ callback' = NoHandler
  /\ Return(h)
  /\ UNCHANGED <<running, stub, call, thread, joiner>>

-----------------------------------------------------------------------------
(* Rs485Subscriber::receiveLoop, on the thread w made.                     *)

\* A step of the worker that consumes nothing and calls nobody.
WorkerGoes(w, l) ==
  /\ worker' = [worker EXCEPT ![w] = l]
  /\ UNCHANGED <<stub, callback, context, tried, thread, joiner,
                 target, stream, handler, fault>>

WorkerTakesStub(w) ==
  /\ worker[w] = "spawned" /\ stub
  /\ WorkerGoes(w, "subscribing")
  /\ UNCHANGED <<running, called, uses, held>>

\* Another handler's stop() cleared stub_ before the thread read it.
WorkerNullStub(w) ==
  /\ worker[w] = "spawned" /\ ~stub
  /\ Dies("null_stub")

WorkerSubscribe(w) ==
  /\ worker[w] = "subscribing"
  /\ context # NoHandler /\ ~called
  /\ called' = TRUE
  /\ uses' = [uses EXCEPT ![w] = context]
  /\ WorkerGoes(w, "loop")
  /\ UNCHANGED <<running, held>>

\* The context was reset, or another worker has made its call with it.
WorkerBadContext(w) ==
  /\ worker[w] = "subscribing"
  /\ context = NoHandler \/ called
  /\ Dies(IF context = NoHandler THEN "null_context" ELSE "reused_context")

\* while (running_ && Read()): running_ is seen only between two reads.
WorkerLoop(w) ==
  /\ worker[w] = "loop"
  /\ WorkerGoes(w, IF running THEN "reading" ELSE "finishing")
  /\ UNCHANGED <<running, called, uses, held>>

\* The call of w was cancelled: by TryCancel, or because its context is gone.
CallCancelled(w) == uses[w] # context \/ tried

\* Read() returns a result.  What arrived before TryCancel may still come.
WorkerRead(w) ==
  /\ worker[w] = "reading"
  /\ HasNext(w) /\ Next_(w) \in Results
  /\ read' = [read EXCEPT ![w] = @ + 1]
  /\ held' = [held EXCEPT ![w] = ResultOf(w, read[w] + 1)]
  /\ worker' = [worker EXCEPT ![w] = "testing"]
  /\ UNCHANGED <<members, uses, target, source, handler, fault>>

\* Read() fails: the call was cancelled or the driver closed the stream.
WorkerReadFails(w) ==
  /\ worker[w] = "reading"
  /\ CallCancelled(w) \/ (HasNext(w) /\ Next_(w) \in Statuses)
  /\ WorkerGoes(w, "finishing")
  /\ UNCHANGED <<running, called, uses, held>>

\* Finish() returns CANCELLED, or OK: nothing is notified.
WorkerFinishSilently(w) ==
  /\ worker[w] = "finishing"
  /\ \/ CallCancelled(w)
     \/ Ended(w) /\ source[w][Len(source[w])] = "OK"
  /\ WorkerGoes(w, "exiting")
  /\ UNCHANGED <<running, called, uses, held>>

\* Finish() returns another status: it becomes one last result.
WorkerFinishError(w) ==
  /\ worker[w] = "finishing"
  /\ Ended(w) /\ source[w][Len(source[w])] # "OK"
  /\ read' = [read EXCEPT ![w] = Len(source[w])]
  /\ held' = [held EXCEPT ![w] = ResultOf(w, Len(source[w]))]
  /\ worker' = [worker EXCEPT ![w] = "testing"]
  /\ UNCHANGED <<members, uses, target, source, handler, fault>>

\* The context of the call was destroyed under it.
WorkerContextFreed(w) ==
  /\ worker[w] \in {"reading", "finishing"} /\ uses[w] # context
  /\ Dies("freed_context")

\* notify(): the last result is that of the status of the stream.
AfterNotify(w) == IF source[w][read[w]] \in Statuses THEN "exiting" ELSE "loop"

WorkerTestsCallback(w) ==
  /\ worker[w] = "testing" /\ callback # NoHandler
  /\ WorkerGoes(w, "calling")
  /\ UNCHANGED <<running, called, uses, held>>

\* An empty callback_ loses the result, at the test and, by an exception that
\* notify() swallows, at the call.
WorkerDrops(w) ==
  /\ worker[w] \in {"testing", "calling"} /\ callback = NoHandler
  /\ held' = [held EXCEPT ![w] = NoResult]
  /\ WorkerGoes(w, AfterNotify(w))
  /\ UNCHANGED <<running, called, uses>>

WorkerCalls(w) ==
  /\ worker[w] = "calling" /\ callback # NoHandler
  /\ target' = [target EXCEPT ![w] = callback]
  /\ worker' = [worker EXCEPT ![w] = "pushing"]
  /\ UNCHANGED <<members, uses, held, stream, handler, fault>>

\* The callback pushes into the queue of its handler while that accepts.
WorkerPush(w) ==
  /\ worker[w] = "pushing" /\ pc[target[w]] # "returned"
  /\ queue' = IF accepting[target[w]]
              THEN [queue EXCEPT ![target[w]] = Append(@, held[w])]
              ELSE queue
  /\ held' = [held EXCEPT ![w] = NoResult]
  /\ target' = [target EXCEPT ![w] = NoHandler]
  /\ worker' = [worker EXCEPT ![w] = AfterNotify(w)]
  /\ UNCHANGED <<members, uses, stream, pc, accepting, sent, cancelled, fault>>

\* The callback was replaced while it runs, or its handler has returned.
WorkerPushDangling(w) ==
  /\ worker[w] = "pushing"
  /\ callback # target[w] \/ pc[target[w]] = "returned"
  /\ Dies("dangling_callback")

WorkerExits(w) ==
  /\ worker[w] = "exiting"
  /\ running' = FALSE
  /\ uses' = [uses EXCEPT ![w] = NoHandler]
  /\ WorkerGoes(w, "exited")
  /\ UNCHANGED <<called, held>>

-----------------------------------------------------------------------------
(* The environment: the driver's side of the stream, and the clients.      *)

StreamOpen(w) ==
  /\ worker[w] \in {"loop", "reading", "testing", "calling", "pushing"}
  /\ ~CallCancelled(w) /\ ~Ended(w)

DriverSends(w, m) ==
  /\ StreamOpen(w) /\ Len(source[w]) < MaxResults
  /\ source' = [source EXCEPT ![w] = Append(@, m)]
  /\ UNCHANGED <<members, threads, read, handler, fault>>

DriverEnds(w, status) ==
  /\ StreamOpen(w)
  /\ source' = [source EXCEPT ![w] = Append(@, status)]
  /\ UNCHANGED <<members, threads, read, handler, fault>>

\* The client cancels its call or its connection is lost.
ClientCancels(h) ==
  /\ InFlight(h) /\ ~cancelled[h]
  /\ cancelled' = [cancelled EXCEPT ![h] = TRUE]
  /\ UNCHANGED <<members, threads, stream, pc, accepting, queue, sent, fault>>

-----------------------------------------------------------------------------
Init ==
  /\ running = FALSE /\ stub = FALSE
  /\ callback = NoHandler
  /\ context = NoHandler /\ called = FALSE /\ tried = FALSE
  /\ thread = NoHandler /\ joiner = NoHandler
  /\ worker = [h \in Handlers |-> "none"]
  /\ uses = [h \in Handlers |-> NoHandler]
  /\ target = [h \in Handlers |-> NoHandler]
  /\ held = [h \in Handlers |-> NoResult]
  /\ source = [h \in Handlers |-> <<>>]
  /\ read = [h \in Handlers |-> 0]
  /\ pc = [h \in Handlers |-> "idle"]
  /\ accepting = [h \in Handlers |-> FALSE]
  /\ queue = [h \in Handlers |-> <<>>]
  /\ sent = [h \in Handlers |-> <<>>]
  /\ cancelled = [h \in Handlers |-> FALSE]
  /\ fault = "none"

StartStep(h) ==
  \/ StartIgnored(h) \/ StartTest(h) \/ StartJoinable(h)
  \/ StartJoin(h) \/ StartJoined(h) \/ StartJoinThrows(h)
  \/ StartSetStub(h) \/ StartSetCallback(h) \/ StartSetContext(h) \/ StartSetRunning(h)
  \/ StartSpawn(h) \/ StartSpawnFails(h)
  \/ StartAssign(h) \/ StartAssignTerminates(h)

LoopStep(h) == Deliver(h) \/ WriteFails(h) \/ SeesCancel(h) \/ Close(h)

StopStep(h) ==
  \/ StopRunning(h) \/ StopTestContext(h) \/ StopCancel(h) \/ StopCancelNull(h)
  \/ StopJoinable(h) \/ StopJoin(h) \/ StopJoined(h) \/ StopJoinThrows(h)
  \/ StopResetContext(h) \/ StopResetStub(h) \/ StopResetCallback(h)

HandlerStep(h) == StartStep(h) \/ LoopStep(h) \/ StopStep(h)

WorkerStep(w) ==
  \/ WorkerTakesStub(w) \/ WorkerNullStub(w) \/ WorkerSubscribe(w) \/ WorkerBadContext(w)
  \/ WorkerLoop(w) \/ WorkerRead(w) \/ WorkerReadFails(w)
  \/ WorkerFinishSilently(w) \/ WorkerFinishError(w) \/ WorkerContextFreed(w)
  \/ WorkerTestsCallback(w) \/ WorkerDrops(w) \/ WorkerCalls(w)
  \/ WorkerPush(w) \/ WorkerPushDangling(w) \/ WorkerExits(w)

Environment ==
  \/ \E h \in Handlers : Arrive(h) \/ ClientCancels(h)
  \/ \E w \in Handlers, m \in Results : DriverSends(w, m)
  \/ \E w \in Handlers, s \in Statuses : DriverEnds(w, s)

\* Every call of the bound has returned, or the process is dead.
Stopped ==
  /\ fault # "none" \/ \A h \in Handlers : pc[h] = "returned"
  /\ UNCHANGED vars

Next ==
  \/ fault = "none" /\ (\E h \in Handlers : HandlerStep(h))
  \/ fault = "none" /\ (\E w \in Handlers : WorkerStep(w))
  \/ fault = "none" /\ Environment
  \/ Stopped

Spec == Init /\ [][Next]_vars

\* The operating system schedules every thread; nothing obliges a client to
\* call or to cancel, nor the driver to send.
ThreadFairness ==
  \A h \in Handlers :
    /\ WF_vars(fault = "none" /\ HandlerStep(h))
    /\ WF_vars(fault = "none" /\ WorkerStep(h))

FairSpec == Spec /\ ThreadFairness
=============================================================================
