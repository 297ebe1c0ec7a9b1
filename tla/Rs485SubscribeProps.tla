------------------------ MODULE Rs485SubscribeProps ------------------------
(***************************************************************************)
(* What the Subscribe path of the RS-485 microservice is meant to          *)
(* guarantee.  "Serial" below means Callers = "serial": a call arrives     *)
(* only when no other one is in flight.                                    *)
(***************************************************************************)
EXTENDS Rs485Subscribe

WorkerPlaces == {"none", "spawned", "subscribing", "loop", "reading", "testing",
                 "calling", "pushing", "finishing", "exiting", "exited"}
HandlerPlaces == {"idle", "start", "joinable", "startJoin", "startJoining",
                  "setStub", "setCallback", "setContext", "setRunning", "spawn", "assign",
                  "loop", "close", "stop", "testContext", "cancel",
                  "stopJoinable", "stopJoin", "stopJoining",
                  "resetContext", "resetStub", "resetCallback", "returned"}
Faults == {"none", "terminate", "null_stub", "null_context", "reused_context",
           "freed_context", "dangling_callback"}
Maybe == Handlers \union {NoHandler}

\* A worker in notify() holds a result.
Notifying(w) == worker[w] \in {"testing", "calling", "pushing"}

\* The state has its types.
TypeOK ==
  /\ running \in BOOLEAN /\ stub \in BOOLEAN
  /\ callback \in Maybe /\ context \in Maybe
  /\ thread \in Maybe /\ joiner \in Maybe
  /\ called \in BOOLEAN /\ tried \in BOOLEAN
  /\ worker \in [Handlers -> WorkerPlaces]
  /\ uses \in [Handlers -> Maybe]
  /\ \A w \in Handlers : 
       uses[w] = NoHandler <=> worker[w] \in {"none", "spawned", "subscribing", "exited"}
  /\ target \in [Handlers -> Maybe]
  /\ \A w \in Handlers : target[w] \in Handlers <=> worker[w] = "pushing"
  /\ held \in [Handlers -> Result \union {NoResult}]
  /\ source \in [Handlers -> Seq(Results \union Statuses)]
  /\ read \in [Handlers -> Nat]
  /\ \A h \in Handlers : read[h] <= Len(source[h])
  /\ \A h \in Handlers : Notifying(h) => read[h] > 0
  /\ pc \in [Handlers -> HandlerPlaces]
  /\ accepting \in [Handlers -> BOOLEAN]
  /\ queue \in [Handlers -> Seq(Result \union {NoResult})]
  /\ sent \in [Handlers -> Seq(Result \union {NoResult})]
  /\ cancelled \in [Handlers -> BOOLEAN]
  /\ fault \in Faults

\* Serial calls never meet undefined behaviour or std::terminate: the worker
\* never runs on a null stub or a destroyed context, never calls back into a
\* handler that returned, and is joined before the next thread is created.
NoFault == fault = "none"

\* When no call is in flight the shared subscriber is back in its initial
\* condition, whatever way the last call ended: no thread, no context, no
\* callback into a dead stack frame, so the next start() is not ignored.
ReturnsClean ==
  (fault = "none" /\ \A h \in Handlers : ~InFlight(h)) =>
    /\ thread = NoHandler /\ joiner = NoHandler
    /\ \A w \in Handlers : worker[w] \in {"none", "exited"}
    /\ ~running /\ ~stub /\ context = NoHandler /\ callback = NoHandler

\* A call that waits for results and was not cancelled has a worker that calls
\* back into it, or the driver has closed the stream: no call polls an empty
\* queue for ever because nobody is subscribed on its behalf.
WaitingCallIsFed ==
  \A h \in Handlers :
    (fault = "none" /\ pc[h] = "loop" /\ ~cancelled[h]) =>
      callback = h /\ thread = h /\ (worker[h] \notin {"exiting", "exited"} \/ Ended(h))

\* Between the driver's stream and the client nothing is lost, doubled or
\* reordered while the call is served: what was written, what is queued and
\* what the worker holds are exactly the results read so far.
Held(h) == IF Notifying(h) THEN <<held[h]>> ELSE <<>>

NothingLost ==
  \A h \in Handlers :
    (fault = "none" /\ pc[h] = "loop") =>
      sent[h] \o queue[h] \o Held(h) = [n \in 1..read[h] |-> ResultOf(h, n)]

\* The Subscribe path implements the pipe: per call the client is given the
\* driver's results in order, each once, none skipped, and nothing after
\* DRIVER_NOT_CONNECTED.
Input == [h \in Handlers |-> [n \in 1..Len(source[h]) |-> ResultOf(h, n)]]
PipeItems == [from : Handlers, n : 1..(MaxResults + 1), code : Codes]

Pipe == INSTANCE ResultPipe WITH
  Subscribers <- Handlers,
  Items <- PipeItems,
  Final <- {r \in PipeItems : r.code = "DRIVER_NOT_CONNECTED"},
  input <- Input,
  output <- sent

PipeSpec == Pipe!Spec

\* A result read from the driver reaches the output or the queue of at most one
\* call, and at most once, even when calls overlap on the shared subscriber.
Place == Handlers \X {"sent", "queue"} \X (1..(MaxResults + 1))
ResultsAt(p) == IF p[2] = "sent" THEN sent[p[1]] ELSE queue[p[1]]

AtMostOnce ==
  \A p, q \in Place :
    /\ p[3] <= Len(ResultsAt(p)) /\ q[3] <= Len(ResultsAt(q))
    /\ ResultsAt(p)[p[3]] = ResultsAt(q)[q[3]]
    => p = q

-----------------------------------------------------------------------------
\* A cancelled call returns, whatever the worker and the driver are doing:
\* stop() does not wait for ever in join() (unless the process died).
CancelEndsCall ==
  \A h \in Handlers :
    cancelled[h] ~> (pc[h] = "returned" \/ fault # "none")

\* When all the overlapping calls are cancelled all of them return: stop() of
\* one call may wait for the worker of another one, never both for each other.
AllCancelledReturn ==
  (\A h \in Handlers : cancelled[h]) ~>
    ((\A h \in Handlers : pc[h] = "returned") \/ fault # "none")

\* When the connection to the driver is lost (UNAVAILABLE) the call ends by
\* itself, after the client was told.
DriverLossEndsCall ==
  \A h \in Handlers :
    (Ended(h) /\ source[h][Len(source[h])] = "UNAVAILABLE") ~>
      /\ pc[h] = "returned"
      /\ \/ cancelled[h]
         \/ sent[h] # <<>> /\ sent[h][Len(sent[h])].code = "DRIVER_NOT_CONNECTED"

\* Every result the driver sent is written to the client, unless the client
\* has cancelled.
EverythingDelivered ==
  \A h \in Handlers : \A n \in 1..MaxResults :
    (Len(source[h]) >= n /\ source[h][n] \in Results) ~>
      (Len(sent[h]) >= n \/ cancelled[h])

\* The end of the gRPC stream from the driver ends the subscription, however
\* the driver ended it (rs/README.md names "ending of the subscription when the
\* gRPC stream breaks" among the behaviours of Subscribe).
StreamEndEndsCall ==
  \A h \in Handlers : Ended(h) ~> pc[h] = "returned"

\* A subscriber whose call is accepted receives a packet (the integration test
\* of Subscribe reads one), if the driver keeps sending while a stream is open
\* and closes none.
SubscriberReceives ==
  \A h \in Handlers :
    pc[h] = "loop" ~>
      \/ sent[h] # <<>> \/ cancelled[h]
      \/ fault # "none" \/ \E g \in Handlers : Ended(g)
=============================================================================
