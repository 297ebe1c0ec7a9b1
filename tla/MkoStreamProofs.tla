---------------------------- MODULE MkoStreamProofs ----------------------------
(***************************************************************************)
(* Theorems about the streaming calls of the MKO service, for any number   *)
(* of calls of either kind and any length of the driver's streams.         *)
(*                                                                         *)
(* The inductive invariant counts.  The driver numbers its items, so what  *)
(* each of the four places holds is determined by how many items passed    *)
(* it: a client that was given n items was given 1, ..., n, the handler    *)
(* holds the next one, the decorator the one after, the reader the last.   *)
(***************************************************************************)
EXTENDS MkoStreamProps, SequenceTheorems, TLAPS

Served(c) == handler[c] \in {"wait", "send"}

InHandler(c) == IF handler[c] = "send" THEN 1 ELSE 0
InLogger(c) == IF logger[c] = "push" THEN 1 ELSE 0
InReader(c) == IF reader[c] = "push" THEN 1 ELSE 0

Given(c) == Len(received[c]) + InHandler(c)

\* Before the two goroutines are started there is nothing of the stream.
NotStarted(c) ==
  handler[c] \in {"idle", "open"} =>
    /\ reader[c] = "none" /\ logger[c] = "none"
    /\ read[c] = 0 /\ received[c] = <<>>

\* Nothing is given twice, and nothing that was not read.
InOrder(c) ==
  /\ Len(received[c]) <= read[c]
  /\ \A i \in 1..Len(received[c]) : received[c][i] = i

\* Who holds what while the call is served.
Held(c) ==
  /\ handler[c] = "send" => sending[c] = Len(received[c]) + 1
  /\ logger[c] = "push" => logged[c] = Given(c) + 1
  /\ Given(c) + InLogger(c) <= read[c]
  /\ (logger[c] \in {"wait", "push"} /\ reader[c] \in {"recv", "push"})
       => read[c] = Given(c) + InLogger(c) + InReader(c)

\* While the call is live a goroutine ends only when it has handed on all.
EndsInTurn(c) ==
  /\ reader[c] # "none" /\ logger[c] # "none"
  /\ logger[c] = "exited" => reader[c] = "exited"
  /\ reader[c] = "exited" => read[c] = Given(c) + InLogger(c)

Order(c) ==
  /\ NotStarted(c)
  /\ InOrder(c)
  /\ produced[c] <= MaxItems
  /\ Returned(c) => context[c] = "done"
  /\ Served(c) => Held(c)
  /\ (Served(c) /\ context[c] = "live") => EndsInTurn(c)

Inv == TypeOK /\ \A c \in Calls : Order(c)

-----------------------------------------------------------------------------
(* The types.                                                              *)

LEMMA InitType == Init => TypeOK
BY DEF Init, TypeOK, Codes

LEMMA ReturnType ==
  ASSUME TypeOK, NEW c \in Calls, NEW code \in Codes, Return(c, code),
         UNCHANGED <<server, kind, cancelled, source, chain>>
  PROVE  TypeOK'
BY DEF TypeOK, Return, At, source, chain

LEMMA HandlerType ==
  ASSUME TypeOK, NEW c \in Calls, HandlerStep(c)
  PROVE  TypeOK'
<1> USE DEF call, source, chain
<1>1. CASE Open(c)
  BY <1>1 DEF TypeOK, Open, At
<1>2. CASE OpenFails(c)
  <2>1. (IF kind[c] = "KK" THEN "FAILED_PRECONDITION" ELSE "UNAVAILABLE") \in Codes
    BY DEF Codes
  <2> QED
    BY <1>2, <2>1, ReturnType DEF OpenFails
<1>3. CASE OpenCancelled(c)
  BY <1>3, ReturnType DEF OpenCancelled, Codes
<1>4. CASE HandlerTakes(c)
  BY <1>4 DEF TypeOK, HandlerTakes, At
<1>5. CASE Send(c)
  <2>1. Append(received[c], sending[c]) \in Seq(Nat)
    BY DEF TypeOK
  <2> QED
    BY <1>5, <2>1 DEF TypeOK, Send, At
<1>6. CASE SendFails(c)
  BY <1>6, ReturnType DEF SendFails, Codes
<1>7. CASE HandlerEnds(c)
  BY <1>7, ReturnType DEF HandlerEnds, Codes
<1>8. CASE HandlerCancelled(c)
  BY <1>8, ReturnType DEF HandlerCancelled, Codes
<1> QED
  BY <1>1, <1>2, <1>3, <1>4, <1>5, <1>6, <1>7, <1>8 DEF HandlerStep

LEMMA GoroutineType ==
  ASSUME TypeOK, NEW c \in Calls, ReaderStep(c) \/ LoggerStep(c)
  PROVE  TypeOK'
<1> USE DEF call, source, chain
<1>1. CASE ReaderReceives(c)
  <2>1. read' \in [Calls -> Nat] /\ \A d \in Calls : read'[d] <= produced'[d]
    BY <1>1 DEF TypeOK, ReaderReceives, At
  <2> QED
    BY <1>1, <2>1 DEF TypeOK, ReaderReceives, At
<1>2. CASE ReaderEnds(c)
  BY <1>2 DEF TypeOK, ReaderEnds, At
<1>3. CASE ReaderGivesUp(c)
  BY <1>3 DEF TypeOK, ReaderGivesUp, At
<1>4. CASE LoggerTakes(c)
  BY <1>4 DEF TypeOK, LoggerTakes, At
<1>5. CASE LoggerEnds(c)
  BY <1>5 DEF TypeOK, LoggerEnds, At
<1>6. CASE LoggerCancelled(c)
  BY <1>6 DEF TypeOK, LoggerCancelled, At
<1> QED
  BY <1>1, <1>2, <1>3, <1>4, <1>5, <1>6 DEF ReaderStep, LoggerStep

LEMMA EnvironmentType ==
  ASSUME TypeOK, NEW c \in Calls, Environment(c)
  PROVE  TypeOK'
<1> USE DEF call, source, chain
<1>1. CASE Arrive(c)
  BY <1>1 DEF TypeOK, Arrive, At
<1>4. CASE ClientCancels(c)
  BY <1>4 DEF TypeOK, ClientCancels, At
<1>2. CASE DriverSends(c)
  <2>1. produced' \in [Calls -> Nat] /\ \A d \in Calls : read'[d] <= produced'[d]
    BY <1>2 DEF TypeOK, DriverSends, At
  <2> QED
    BY <1>2, <2>1 DEF TypeOK, DriverSends, At
<1>3. CASE DriverEnds(c)
  BY <1>3 DEF TypeOK, DriverEnds, At
<1> QED
  BY <1>1, <1>2, <1>3, <1>4 DEF Environment

LEMMA NextType == TypeOK /\ [Next]_vars => TypeOK'
<1> SUFFICES ASSUME TypeOK, [Next]_vars PROVE TypeOK'
  OBVIOUS
<1>1. CASE \E c \in Calls :
             Running(ReaderStep(c) \/ LoggerStep(c) \/ HandlerStep(c) \/ Environment(c))
  BY <1>1, HandlerType, GoroutineType, EnvironmentType DEF Running
<1>2. CASE Signal \/ GracefulStop
  BY <1>2 DEF TypeOK, Signal, GracefulStop, call, source, chain
<1>3. CASE Stopped \/ UNCHANGED vars
  BY <1>3 DEF TypeOK, Stopped, vars, call, source, chain
<1> QED
  BY <1>1, <1>2, <1>3 DEF Next

\* Every variable of every streaming call keeps its type, and no goroutine
\* reads more than the driver sent.
THEOREM TypeCorrect == Spec => []TypeOK
BY InitType, NextType, PTL DEF Spec

-----------------------------------------------------------------------------
(* The order of the items.                                                 *)

LEMMA InitOrder == Init => \A c \in Calls : Order(c)
<1> SUFFICES ASSUME Init, NEW c \in Calls PROVE Order(c)
  OBVIOUS
<1>1. /\ handler[c] = "idle" /\ produced[c] = 0 /\ read[c] = 0
      /\ reader[c] = "none" /\ logger[c] = "none" /\ received[c] = <<>>
  BY DEF Init
<1> QED
  BY <1>1, ConstantsAssumption DEF Order, NotStarted, InOrder, Served, Returned

\* What a step of another call leaves of a call.
Untouched(c) ==
  /\ handler'[c] = handler[c] /\ context'[c] = context[c] /\ produced'[c] = produced[c]
  /\ reader'[c] = reader[c] /\ read'[c] = read[c]
  /\ logger'[c] = logger[c] /\ logged'[c] = logged[c]
  /\ sending'[c] = sending[c] /\ received'[c] = received[c]

LEMMA UntouchedOrder ==
  ASSUME NEW c \in Calls, Order(c), Untouched(c)
  PROVE  Order(c)'
BY DEF Untouched, Order, NotStarted, InOrder, Returned, Served, Held, EndsInTurn,
       Given, InHandler, InLogger, InReader

LEMMA CountTypes ==
  ASSUME TypeOK, NEW c \in Calls
  PROVE  /\ Len(received[c]) \in Nat /\ read[c] \in Nat
         /\ Given(c) \in Nat /\ InLogger(c) \in Nat /\ InReader(c) \in Nat
BY DEF TypeOK, Given, InHandler, InLogger, InReader

\* A handler that returns only keeps what it has given.
LEMMA ReturnOrder ==
  ASSUME TypeOK, NEW c \in Calls, Order(c), NEW code, Return(c, code),
         UNCHANGED <<server, kind, cancelled, source, chain>>
  PROVE  Order(c)'
<1>1. /\ handler'[c] = "returned" /\ context'[c] = "done"
      /\ UNCHANGED <<produced, read, received>>
  BY DEF Return, At, TypeOK, source, chain
<1> QED
  BY <1>1 DEF Order, NotStarted, InOrder, Returned, Served

LEMMA SendOrder ==
  ASSUME TypeOK, NEW c \in Calls, Order(c), Send(c)
  PROVE  Order(c)'
<1> DEFINE s == received[c]  t == received'[c]  n == Len(s)
<1>1. /\ handler[c] = "send" /\ handler'[c] = "wait"
      /\ t = Append(s, sending[c])
      /\ UNCHANGED <<context, produced, reader, read, logger, logged>>
  BY DEF Send, At, TypeOK, source, chain
<1>2. s \in Seq(Nat) /\ sending[c] \in Nat /\ n \in Nat
  BY DEF TypeOK
<1>3. sending[c] = n + 1 /\ Given(c) = n + 1 /\ n + 1 <= read[c]
      /\ \A i \in 1..n : s[i] = i
  BY <1>1, <1>2 DEF Order, Held, Served, Given, InHandler, InLogger, InOrder, TypeOK
<1>4. Len(t) = n + 1 /\ \A i \in 1..(n + 1) : t[i] = IF i <= n THEN s[i] ELSE n + 1
  BY <1>1, <1>2, <1>3
<1>5. InOrder(c)'
  <2>1. Len(t) <= read'[c]
    BY <1>1, <1>3, <1>4
  <2>2. \A i \in 1..Len(t) : t[i] = i
    <3> TAKE i \in 1..Len(t)
    <3>1. CASE i <= n
      BY <1>2, <1>3, <1>4, <3>1
    <3>2. CASE i = n + 1
      BY <1>2, <1>4, <3>2
    <3> QED
      BY <1>2, <1>4, <3>1, <3>2
  <2> QED
    BY <2>1, <2>2 DEF InOrder
<1>6. Given(c)' = Given(c) /\ InLogger(c)' = InLogger(c) /\ InReader(c)' = InReader(c)
  BY <1>1, <1>3, <1>4 DEF Given, InHandler, InLogger, InReader
<1>7. Held(c)'
  BY <1>1, <1>6 DEF Held, Order, Served
<1>8. (context[c] = "live" => EndsInTurn(c))'
  BY <1>1, <1>6 DEF EndsInTurn, Order, Served
<1> QED
  BY <1>1, <1>5, <1>7, <1>8 DEF Order, NotStarted, Returned, Served

LEMMA HandlerOrder ==
  ASSUME TypeOK, NEW c \in Calls, Order(c), HandlerStep(c)
  PROVE  Order(c)'
<1>1. CASE Open(c)
  <2>1. /\ handler'[c] = "wait" /\ reader'[c] = "recv" /\ logger'[c] = "wait"
        /\ read'[c] = 0 /\ received'[c] = <<>> /\ UNCHANGED produced
    BY <1>1 DEF Open, At, TypeOK, source, Order, NotStarted
  <2> QED
    BY <2>1 DEF Order, NotStarted, InOrder, Returned, Served, Held, EndsInTurn,
                Given, InHandler, InLogger, InReader
<1>2. CASE OpenFails(c) \/ OpenCancelled(c) \/ SendFails(c) \/ HandlerEnds(c)
           \/ HandlerCancelled(c)
  BY <1>2, ReturnOrder
     DEF OpenFails, OpenCancelled, SendFails, HandlerEnds, HandlerCancelled
<1>3. CASE HandlerTakes(c)
  <2>1. /\ handler[c] = "wait" /\ handler'[c] = "send"
        /\ logger[c] = "push" /\ logger'[c] = "wait"
        /\ sending'[c] = logged[c]
        /\ UNCHANGED <<context, produced, reader, read, received>>
    BY <1>3 DEF HandlerTakes, At, TypeOK, source
  <2>2. /\ Given(c) = Len(received[c]) /\ Given(c)' = Given(c) + 1
        /\ InLogger(c) = 1 /\ InLogger(c)' = 0 /\ InReader(c)' = InReader(c)
    BY <2>1, CountTypes DEF Given, InHandler, InLogger, InReader
  <2> QED
    BY <2>1, <2>2, CountTypes
       DEF Order, NotStarted, InOrder, Returned, Served, Held, EndsInTurn
<1> QED
  BY <1>1, <1>2, <1>3, SendOrder DEF HandlerStep

LEMMA ReaderOrder ==
  ASSUME TypeOK, NEW c \in Calls, Order(c), ReaderStep(c)
  PROVE  Order(c)'
<1> USE DEF source, call
<1>1. /\ Len(received[c]) \in Nat /\ read[c] \in Nat
      /\ Given(c) \in Nat /\ InLogger(c) \in Nat /\ InReader(c) \in Nat
  BY CountTypes
<1>2. CASE ReaderReceives(c)
  <2>1. /\ reader[c] = "recv" /\ reader'[c] = "push" /\ read'[c] = read[c] + 1
        /\ UNCHANGED <<handler, context, produced, logger, logged, sending, received>>
    BY <1>2 DEF ReaderReceives, At, TypeOK
  <2>2. /\ Given(c)' = Given(c) /\ InLogger(c)' = InLogger(c)
        /\ InReader(c) = 0 /\ InReader(c)' = 1
    BY <2>1 DEF Given, InHandler, InLogger, InReader
  <2> QED
    BY <1>1, <2>1, <2>2
       DEF Order, NotStarted, InOrder, Returned, Served, Held, EndsInTurn
<1>3. CASE ReaderEnds(c)
  <2>1. /\ reader[c] = "recv" /\ reader'[c] = "exited"
        /\ UNCHANGED <<handler, context, produced, read, logger, logged, sending, received>>
    BY <1>3 DEF ReaderEnds, At, TypeOK
  <2>2. (Served(c) /\ context[c] = "live") =>
           /\ logger[c] \in {"wait", "push"}
           /\ read[c] = Given(c) + InLogger(c)
    <3>1. InReader(c) = 0 /\ logger[c] \in {"none", "wait", "push", "exited"}
      BY <2>1 DEF InReader, TypeOK
    <3> QED
      BY <1>1, <2>1, <3>1 DEF Order, Held, EndsInTurn
  <2>3. Given(c)' = Given(c) /\ InLogger(c)' = InLogger(c)
    BY <2>1 DEF Given, InHandler, InLogger
  <2> QED
    BY <1>1, <2>1, <2>2, <2>3
       DEF Order, NotStarted, InOrder, Returned, Served, Held, EndsInTurn
<1>4. CASE ReaderGivesUp(c)
  <2>1. /\ reader[c] = "push" /\ reader'[c] = "exited" /\ context[c] = "done"
        /\ UNCHANGED <<handler, context, produced, read, logger, logged, sending, received>>
    BY <1>4 DEF ReaderGivesUp, At, TypeOK
  <2>2. Given(c)' = Given(c) /\ InLogger(c)' = InLogger(c)
    BY <2>1 DEF Given, InHandler, InLogger
  <2> QED
    BY <1>1, <2>1, <2>2
       DEF Order, NotStarted, InOrder, Returned, Served, Held, EndsInTurn
<1> QED
  BY <1>2, <1>3, <1>4 DEF ReaderStep

LEMMA LoggerOrder ==
  ASSUME TypeOK, NEW c \in Calls, Order(c), LoggerStep(c)
  PROVE  Order(c)'
<1> USE DEF source, call
<1>1. /\ Len(received[c]) \in Nat /\ read[c] \in Nat
      /\ Given(c) \in Nat /\ InLogger(c) \in Nat /\ InReader(c) \in Nat
  BY CountTypes
<1>2. CASE LoggerTakes(c)
  <2>1. /\ reader[c] = "push" /\ reader'[c] = "recv"
        /\ logger[c] = "wait" /\ logger'[c] = "push" /\ logged'[c] = read[c]
        /\ UNCHANGED <<handler, context, produced, read, sending, received>>
    BY <1>2 DEF LoggerTakes, At, TypeOK
  <2>2. /\ Given(c)' = Given(c) /\ InLogger(c) = 0 /\ InLogger(c)' = 1
        /\ InReader(c) = 1 /\ InReader(c)' = 0
    BY <2>1 DEF Given, InHandler, InLogger, InReader
  <2> QED
    BY <1>1, <2>1, <2>2
       DEF Order, NotStarted, InOrder, Returned, Served, Held, EndsInTurn
<1>3. CASE LoggerEnds(c) \/ LoggerCancelled(c)
  <2>1. /\ logger[c] \in {"wait", "push"} /\ logger'[c] = "exited"
        /\ context[c] = "done" \/ (logger[c] = "wait" /\ reader[c] = "exited")
        /\ UNCHANGED <<handler, context, produced, reader, read, logged, sending, received>>
    BY <1>3 DEF LoggerEnds, LoggerCancelled, At, TypeOK
  <2>2. /\ Given(c)' = Given(c) /\ InLogger(c)' = 0 /\ InReader(c)' = InReader(c)
        /\ logger[c] = "wait" => InLogger(c) = 0
    BY <2>1 DEF Given, InHandler, InLogger, InReader
  <2> QED
    BY <1>1, <2>1, <2>2
       DEF Order, NotStarted, InOrder, Returned, Served, Held, EndsInTurn
<1> QED
  BY <1>2, <1>3 DEF LoggerStep

LEMMA EnvironmentOrder ==
  ASSUME TypeOK, NEW c \in Calls, Order(c), Environment(c)
  PROVE  Order(c)'
<1> USE DEF source, call, chain
<1>1. CASE Arrive(c)
  <2>1. /\ handler[c] = "idle" /\ handler'[c] = "open"
        /\ UNCHANGED <<context, produced, reader, read, logger, logged, sending, received>>
    BY <1>1 DEF Arrive, At, TypeOK
  <2> QED
    BY <2>1 DEF Order, NotStarted, InOrder, Returned, Served
<1>2. CASE DriverSends(c) \/ DriverEnds(c)
  <2>1. /\ produced'[c] <= MaxItems
        /\ UNCHANGED <<handler, context, reader, read, logger, logged, sending, received>>
    BY <1>2, ConstantsAssumption DEF DriverSends, DriverEnds, At, TypeOK, Order
  <2> QED
    BY <2>1 DEF Order, NotStarted, InOrder, Returned, Served, Held, EndsInTurn,
                Given, InHandler, InLogger, InReader
<1>3. CASE ClientCancels(c)
  <2>1. /\ context'[c] = "done"
        /\ UNCHANGED <<handler, produced, reader, read, logger, logged, sending, received>>
    BY <1>3 DEF ClientCancels, At, TypeOK
  <2> QED
    BY <2>1 DEF Order, NotStarted, InOrder, Returned, Served, Held, EndsInTurn,
                Given, InHandler, InLogger, InReader
<1> QED
  BY <1>1, <1>2, <1>3 DEF Environment

\* A call works on its own channels only.
LEMMA OthersUntouched ==
  ASSUME TypeOK, NEW c \in Calls, NEW d \in Calls, d # c,
         ReaderStep(c) \/ LoggerStep(c) \/ HandlerStep(c) \/ Environment(c)
  PROVE  Untouched(d)
<1> USE DEF source, call, chain, Untouched, At, TypeOK
<1>1. CASE ReaderStep(c)
  BY <1>1 DEF ReaderStep, ReaderReceives, ReaderEnds, ReaderGivesUp
<1>2. CASE LoggerStep(c)
  BY <1>2 DEF LoggerStep, LoggerTakes, LoggerEnds, LoggerCancelled
<1>3. CASE HandlerStep(c)
  BY <1>3 DEF HandlerStep, Open, OpenFails, OpenCancelled, HandlerTakes, Send,
              SendFails, HandlerEnds, HandlerCancelled, Return
<1>4. CASE Environment(c)
  BY <1>4 DEF Environment, Arrive, DriverSends, DriverEnds, ClientCancels
<1> QED
  BY <1>1, <1>2, <1>3, <1>4

LEMMA NextOrder == Inv /\ [Next]_vars => Inv'
<1> SUFFICES ASSUME Inv, [Next]_vars PROVE \A d \in Calls : Order(d)'
  BY NextType DEF Inv
<1> TAKE d \in Calls
<1>1. TypeOK /\ Order(d)
  BY DEF Inv
<1>2. ASSUME NEW c \in Calls,
             ReaderStep(c) \/ LoggerStep(c) \/ HandlerStep(c) \/ Environment(c)
      PROVE  Order(d)'
  <2>1. CASE d = c
    BY <1>1, <1>2, <2>1, ReaderOrder, LoggerOrder, HandlerOrder, EnvironmentOrder
  <2>2. CASE d # c
    BY <1>1, <1>2, <2>2, OthersUntouched, UntouchedOrder
  <2> QED
    BY <2>1, <2>2
<1>3. CASE Signal \/ GracefulStop \/ Stopped \/ UNCHANGED vars
  <2>1. Untouched(d)
    BY <1>3 DEF Signal, GracefulStop, Stopped, vars, call, source, chain, Untouched
  <2> QED
    BY <1>1, <2>1, UntouchedOrder
<1> QED
  BY <1>2, <1>3 DEF Next, Running

LEMMA Invariance == Spec => []Inv
<1>1. Init => Inv
  BY InitType, InitOrder DEF Inv
<1> QED
  BY <1>1, NextOrder, PTL DEF Spec

-----------------------------------------------------------------------------
(* What the client is given.                                               *)

Numbers(n) == [i \in 1..n |-> i]

LEMMA NumbersAppend ==
  ASSUME NEW n \in Nat
  PROVE  /\ Numbers(n) \in Seq(Nat) /\ Len(Numbers(n)) = n
         /\ Append(Numbers(n), n + 1) = Numbers(n + 1)
<1>1. Numbers(n) \in Seq(Nat) /\ Len(Numbers(n)) = n
  BY DEF Numbers
<1>2. Numbers(n + 1) \in Seq(Nat) /\ Len(Numbers(n + 1)) = n + 1
  BY DEF Numbers
<1>3. /\ Append(Numbers(n), n + 1) \in Seq(Nat)
      /\ Len(Append(Numbers(n), n + 1)) = n + 1
      /\ \A i \in 1..(n + 1) :
           Append(Numbers(n), n + 1)[i] = IF i <= n THEN Numbers(n)[i] ELSE n + 1
  BY <1>1
<1>4. \A i \in 1..(n + 1) : Append(Numbers(n), n + 1)[i] = Numbers(n + 1)[i]
  <2> TAKE i \in 1..(n + 1)
  <2>1. CASE i <= n
    BY <1>3, <2>1 DEF Numbers
  <2>2. CASE i = n + 1
    BY <1>3, <2>2 DEF Numbers
  <2>3. i <= n \/ i = n + 1
    OBVIOUS
  <2> QED
    BY <2>1, <2>2, <2>3
<1>5. Append(Numbers(n), n + 1) = Numbers(n + 1)
  BY ONLY <1>2, <1>3, <1>4, SeqEqual
<1> QED
  BY <1>1, <1>5

LEMMA NumbersMore ==
  ASSUME NEW n \in Nat
  PROVE  /\ Numbers(n) \o <<n + 1>> = Numbers(n + 1)
         /\ Numbers(n) \o << >> = Numbers(n)
<1>1. Numbers(n) \o <<n + 1>> = Append(Numbers(n), n + 1)
  BY NumbersAppend
<1>2. Numbers(n) \o << >> = Numbers(n)
  BY NumbersAppend
<1> QED
  BY <1>1, <1>2, NumbersAppend

LEMMA ReceivedIsNumbers ==
  ASSUME Inv, NEW c \in Calls
  PROVE  received[c] = Numbers(Len(received[c]))
<1> DEFINE s == received[c]  n == Len(s)
<1>1. s \in Seq(Nat) /\ n \in Nat /\ \A i \in 1..n : s[i] = i
  BY DEF Inv, TypeOK, Order, InOrder
<1>2. Numbers(n) \in Seq(Nat) /\ Len(Numbers(n)) = n
  BY <1>1, NumbersAppend
<1>3. \A i \in 1..n : s[i] = Numbers(n)[i]
  BY <1>1 DEF Numbers
<1> HIDE DEF s, n
<1>4. s = Numbers(n)
  BY ONLY <1>1, <1>2, <1>3, SeqEqual DEF n
<1> QED
  BY <1>4 DEF s, n

LEMMA InvNothingLost == Inv => NothingLost
<1> SUFFICES ASSUME Inv, NEW c \in Calls, context[c] = "live"
    PROVE  received[c] \o When(handler[c] = "send", sending[c])
                       \o When(logger[c] = "push", logged[c])
                       \o When(reader[c] = "push", read[c]) = Numbers(read[c])
  BY DEF NothingLost, Numbers
<1> DEFINE n == Len(received[c])  g == Given(c)  p == Given(c) + InLogger(c)
<1>1. TypeOK /\ Order(c) /\ ~Returned(c)
  BY DEF Inv, Order
<1>2. n \in Nat /\ g \in Nat /\ p \in Nat /\ read[c] \in Nat
  BY <1>1, CountTypes
<1>3. Served(c) \/ handler[c] \in {"idle", "open"}
  BY <1>1 DEF TypeOK, Returned, Served
<1>4. handler[c] = "send" => sending[c] = n + 1
  BY <1>1, <1>3 DEF Order, Served, Held
<1>5. logger[c] = "push" => logged[c] = g + 1
  BY <1>1, <1>3 DEF Order, Served, Held, NotStarted
<1>6. read[c] = IF reader[c] = "push" THEN p + 1 ELSE p
  <2>1. CASE handler[c] \in {"idle", "open"}
    <3>1. /\ received[c] = << >> /\ logger[c] = "none" /\ handler[c] # "send"
          /\ read[c] = 0 /\ reader[c] = "none"
      BY <1>1, <2>1 DEF Order, NotStarted
    <3>2. Len(received[c]) = 0 /\ InHandler(c) = 0 /\ InLogger(c) = 0
      BY <3>1 DEF InHandler, InLogger
    <3>3. p = 0
      BY <3>2 DEF Given
    <3> QED
      BY <3>1, <3>3
  <2>2. CASE Served(c)
    <3>1. /\ logger[c] \in {"wait", "push", "exited"}
          /\ reader[c] \in {"recv", "push", "exited"}
          /\ Held(c) /\ EndsInTurn(c)
      BY <1>1, <2>2 DEF Order, TypeOK, EndsInTurn
    <3>2. InReader(c) = IF reader[c] = "push" THEN 1 ELSE 0
      BY DEF InReader
    <3>3. CASE reader[c] = "exited"
      BY <3>1, <3>3 DEF EndsInTurn
    <3>4. CASE reader[c] # "exited"
      <4>1. read[c] = p + InReader(c)
        BY <3>1, <3>4 DEF EndsInTurn, Held
      <4> HIDE DEF p
      <4> QED
        BY <1>2, <3>2, <4>1
    <3> QED
      BY <3>3, <3>4
  <2> QED
    BY <1>3, <2>1, <2>2
<1>7. g = IF handler[c] = "send" THEN n + 1 ELSE n
  <2>1. CASE handler[c] = "send"
    BY <1>2, <2>1 DEF Given, InHandler
  <2>2. CASE handler[c] # "send"
    BY <1>2, <2>2 DEF Given, InHandler
  <2> QED
    BY <2>1, <2>2
<1>8. p = IF logger[c] = "push" THEN g + 1 ELSE g
  BY <1>2 DEF InLogger
<1>9. received[c] \o When(handler[c] = "send", sending[c]) = Numbers(g)
  <2>1. received[c] = Numbers(n)
    BY ReceivedIsNumbers
  <2> HIDE DEF n, g, p
  <2>2. CASE handler[c] = "send"
    <3>1. sending[c] = n + 1 /\ g = n + 1
      BY <2>2, <1>4, <1>7
    <3>2. When(handler[c] = "send", sending[c]) = <<n + 1>>
      BY <2>2, <3>1 DEF When
    <3> QED
      BY <1>2, <2>1, <3>1, <3>2, NumbersMore
  <2>3. CASE ~(handler[c] = "send")
    <3>1. When(handler[c] = "send", sending[c]) = << >>
      BY <2>3 DEF When
    <3>2. g = n
      BY <2>3, <1>4, <1>7
    <3> QED
      BY <1>2, <2>1, <3>1, <3>2, NumbersMore
  <2> QED
    BY <2>2, <2>3
<1>10. Numbers(g) \o When(logger[c] = "push", logged[c]) = Numbers(p)
  <2> HIDE DEF n, g, p
  <2>2. CASE logger[c] = "push"
    <3>1. logged[c] = g + 1 /\ p = g + 1
      BY <2>2, <1>5, <1>8
    <3>2. When(logger[c] = "push", logged[c]) = <<g + 1>>
      BY <2>2, <3>1 DEF When
    <3> QED
      BY <1>2, <3>1, <3>2, NumbersMore
  <2>3. CASE ~(logger[c] = "push")
    <3>1. When(logger[c] = "push", logged[c]) = << >>
      BY <2>3 DEF When
    <3>2. p = g
      BY <2>3, <1>5, <1>8
    <3> QED
      BY <1>2, <3>1, <3>2, NumbersMore
  <2> QED
    BY <2>2, <2>3
<1>11. Numbers(p) \o When(reader[c] = "push", read[c]) = Numbers(read[c])
  <2> HIDE DEF n, g, p
  <2>2. CASE reader[c] = "push"
    <3>1. read[c] = p + 1 /\ read[c] = p + 1
      BY <2>2, <1>6
    <3>2. When(reader[c] = "push", read[c]) = <<p + 1>>
      BY <2>2, <3>1 DEF When
    <3> QED
      BY <1>2, <3>1, <3>2, NumbersMore
  <2>3. CASE ~(reader[c] = "push")
    <3>1. When(reader[c] = "push", read[c]) = << >>
      BY <2>3 DEF When
    <3>2. read[c] = p
      BY <2>3, <1>6
    <3> QED
      BY <1>2, <3>1, <3>2, NumbersMore
  <2> QED
    BY <2>2, <2>3
<1> QED
  BY <1>9, <1>10, <1>11

\* While a call is served, the client and the three places on the way to it
\* hold exactly the items read from the driver, in order.
THEOREM StreamNothingLost == Spec => []NothingLost
BY Invariance, InvNothingLost, PTL

-----------------------------------------------------------------------------
(* A call that ended well was complete.                                    *)

\* The context of a call ends by its client or by its return only, and a
\* reader stops a live call only at the end of the driver's stream.
EndsWell(c) ==
  /\ cancelled[c] \/ Returned(c) \/ context[c] = "live"
  /\ status[c] = "OK" => Returned(c)
  /\ (Served(c) /\ context[c] = "live" /\ reader[c] = "exited")
       => driver[c] # "open" /\ read[c] = produced[c]
  /\ (status[c] = "OK" /\ ~cancelled[c])
       => driver[c] # "open" /\ Len(received[c]) = produced[c]

\* Unless its client left, a call returns OK only when the driver has ended
\* its stream and the client was given the whole of it.
OkMeansComplete ==
  \A c \in Calls :
    (status[c] = "OK" /\ ~cancelled[c])
      => driver[c] # "open" /\ received[c] = Numbers(produced[c])

EndInv == Inv /\ \A c \in Calls : EndsWell(c)

\* What else a step of another call leaves of a call.
UntouchedEnd(c) ==
  /\ status'[c] = status[c] /\ cancelled'[c] = cancelled[c] /\ driver'[c] = driver[c]

LEMMA OthersUntouchedEnd ==
  ASSUME TypeOK, NEW c \in Calls, NEW d \in Calls, d # c,
         ReaderStep(c) \/ LoggerStep(c) \/ HandlerStep(c) \/ Environment(c)
  PROVE  UntouchedEnd(d)
<1> USE DEF source, call, chain, UntouchedEnd, At, TypeOK
<1>1. CASE ReaderStep(c)
  BY <1>1 DEF ReaderStep, ReaderReceives, ReaderEnds, ReaderGivesUp
<1>2. CASE LoggerStep(c)
  BY <1>2 DEF LoggerStep, LoggerTakes, LoggerEnds, LoggerCancelled
<1>3. CASE HandlerStep(c)
  BY <1>3 DEF HandlerStep, Open, OpenFails, OpenCancelled, HandlerTakes, Send,
              SendFails, HandlerEnds, HandlerCancelled, Return
<1>4. CASE Environment(c)
  BY <1>4 DEF Environment, Arrive, DriverSends, DriverEnds, ClientCancels
<1> QED
  BY <1>1, <1>2, <1>3, <1>4

LEMMA UntouchedEndsWell ==
  ASSUME NEW c \in Calls, EndsWell(c), Untouched(c), UntouchedEnd(c)
  PROVE  EndsWell(c)'
BY DEF Untouched, UntouchedEnd, EndsWell, Returned, Served

\* A handler that returns anything but OK promises nothing.
LEMMA ReturnEndsWell ==
  ASSUME TypeOK, NEW c \in Calls, NEW code \in Codes, code # "OK", Return(c, code),
         UNCHANGED <<server, kind, cancelled, source, chain>>
  PROVE  EndsWell(c)'
<1>1. handler'[c] = "returned" /\ status'[c] = code
  BY DEF Return, At, TypeOK
<1> QED
  BY <1>1 DEF EndsWell, Returned, Served

LEMMA HandlerEndsWell ==
  ASSUME TypeOK, NEW c \in Calls, Order(c), EndsWell(c), HandlerStep(c)
  PROVE  EndsWell(c)'
<1> USE DEF source, call, chain
<1>1. CASE Open(c)
  <2>1. /\ handler[c] = "open" /\ handler'[c] = "wait" /\ reader'[c] = "recv"
        /\ UNCHANGED <<status, context, cancelled>>
    BY <1>1 DEF Open, At, TypeOK
  <2> QED
    BY <2>1 DEF EndsWell, Returned, Served
<1>2. CASE OpenFails(c)
  <2>1. (IF kind[c] = "KK" THEN "FAILED_PRECONDITION" ELSE "UNAVAILABLE")
          \in Codes \ {"OK"}
    BY DEF Codes
  <2> QED
    BY <1>2, <2>1, ReturnEndsWell DEF OpenFails
<1>3. CASE OpenCancelled(c)
  BY <1>3, ReturnEndsWell DEF OpenCancelled, Codes
<1>4. CASE SendFails(c) \/ HandlerCancelled(c)
  BY <1>4, ReturnEndsWell DEF SendFails, HandlerCancelled, Codes
<1>5. CASE HandlerTakes(c)
  <2>1. /\ handler[c] = "wait" /\ handler'[c] = "send"
        /\ UNCHANGED <<status, context, cancelled, produced, driver, reader, read, received>>
    BY <1>5 DEF HandlerTakes, At, TypeOK
  <2> QED
    BY <2>1 DEF EndsWell, Returned, Served
<1>6. CASE Send(c)
  <2>1. /\ handler[c] = "send" /\ handler'[c] = "wait"
        /\ UNCHANGED <<status, context, cancelled, produced, driver, reader, read>>
    BY <1>6 DEF Send, At, TypeOK
  <2> QED
    BY <2>1 DEF EndsWell, Returned, Served
<1>7. CASE HandlerEnds(c)
  <2>1. /\ handler[c] = "wait" /\ logger[c] = "exited"
        /\ handler'[c] = "returned"
        /\ UNCHANGED <<cancelled, produced, driver, read, received>>
    BY <1>7 DEF HandlerEnds, Return, At, TypeOK
  <2>2. ASSUME ~cancelled[c]
        PROVE  driver[c] # "open" /\ Len(received[c]) = produced[c]
    <3>1. Served(c) /\ context[c] = "live" /\ EndsInTurn(c)
      BY <2>1, <2>2 DEF EndsWell, Returned, Served, Order
    <3>2. /\ reader[c] = "exited" /\ read[c] = Given(c) + InLogger(c)
          /\ driver[c] # "open" /\ read[c] = produced[c]
      BY <2>1, <3>1 DEF EndsInTurn, EndsWell
    <3>3. Given(c) = Len(received[c]) /\ InLogger(c) = 0 /\ Len(received[c]) \in Nat
      BY <2>1, CountTypes DEF Given, InHandler, InLogger
    <3> QED
      BY <3>2, <3>3
  <2> QED
    BY <2>1, <2>2 DEF EndsWell, Returned, Served
<1> QED
  BY <1>1, <1>2, <1>3, <1>4, <1>5, <1>6, <1>7 DEF HandlerStep

LEMMA GoroutineEndsWell ==
  ASSUME TypeOK, NEW c \in Calls, Order(c), EndsWell(c), ReaderStep(c) \/ LoggerStep(c)
  PROVE  EndsWell(c)'
<1> USE DEF source, call, chain
<1>1. CASE ReaderReceives(c)
  <2>1. /\ reader'[c] = "push"
        /\ UNCHANGED <<handler, status, context, cancelled, produced, driver, received>>
    BY <1>1 DEF ReaderReceives, At, TypeOK
  <2> QED
    BY <2>1 DEF EndsWell, Returned, Served
<1>2. CASE ReaderEnds(c)
  <2>1. /\ context[c] = "done" \/ (driver[c] # "open" /\ read[c] = produced[c])
        /\ UNCHANGED <<handler, status, context, cancelled, produced, driver, read, received>>
    BY <1>2 DEF ReaderEnds
  <2> QED
    BY <2>1 DEF EndsWell, Returned, Served
<1>3. CASE ReaderGivesUp(c)
  <2>1. /\ context[c] = "done"
        /\ UNCHANGED <<handler, status, context, cancelled, produced, driver, read, received>>
    BY <1>3 DEF ReaderGivesUp
  <2> QED
    BY <2>1 DEF EndsWell, Returned, Served
<1>4. CASE LoggerTakes(c)
  <2>1. /\ reader'[c] = "recv"
        /\ UNCHANGED <<handler, status, context, cancelled, produced, driver, read, received>>
    BY <1>4 DEF LoggerTakes, At, TypeOK
  <2> QED
    BY <2>1 DEF EndsWell, Returned, Served
<1>5. CASE LoggerEnds(c) \/ LoggerCancelled(c)
  <2>1. UNCHANGED <<handler, status, context, cancelled, produced, driver, reader, read, received>>
    BY <1>5 DEF LoggerEnds, LoggerCancelled
  <2> QED
    BY <2>1 DEF EndsWell, Returned, Served
<1> QED
  BY <1>1, <1>2, <1>3, <1>4, <1>5 DEF ReaderStep, LoggerStep

LEMMA EnvironmentEndsWell ==
  ASSUME TypeOK, NEW c \in Calls, Order(c), EndsWell(c), Environment(c)
  PROVE  EndsWell(c)'
<1> USE DEF source, call, chain
<1>1. CASE Arrive(c)
  <2>1. /\ handler[c] = "idle" /\ handler'[c] = "open"
        /\ UNCHANGED <<status, context, cancelled>>
    BY <1>1 DEF Arrive, At, TypeOK
  <2> QED
    BY <2>1 DEF EndsWell, Returned, Served
<1>2. CASE DriverSends(c) \/ DriverEnds(c)
  <2>1. /\ reader[c] \in {"recv", "push"} /\ context[c] = "live" /\ driver[c] = "open"
        /\ UNCHANGED <<handler, status, context, cancelled, reader, read, received>>
    BY <1>2 DEF DriverSends, DriverEnds, StreamOpen
  <2>2. status[c] # "OK"
    BY <2>1 DEF EndsWell, Order
  <2> QED
    BY <2>1, <2>2 DEF EndsWell, Returned, Served
<1>3. CASE ClientCancels(c)
  <2>1. /\ cancelled'[c] = TRUE /\ context'[c] = "done"
        /\ UNCHANGED <<handler, status>>
    BY <1>3 DEF ClientCancels, At, TypeOK
  <2> QED
    BY <2>1 DEF EndsWell, Returned, Served
<1> QED
  BY <1>1, <1>2, <1>3 DEF Environment

LEMMA NextEndsWell == EndInv /\ [Next]_vars => EndInv'
<1> SUFFICES ASSUME EndInv, [Next]_vars PROVE \A d \in Calls : EndsWell(d)'
  BY NextOrder DEF EndInv
<1> TAKE d \in Calls
<1>1. TypeOK /\ Order(d) /\ EndsWell(d)
  BY DEF EndInv, Inv
<1>2. ASSUME NEW c \in Calls,
             ReaderStep(c) \/ LoggerStep(c) \/ HandlerStep(c) \/ Environment(c)
      PROVE  EndsWell(d)'
  <2>1. CASE d = c
    BY <1>1, <1>2, <2>1, GoroutineEndsWell, HandlerEndsWell, EnvironmentEndsWell
  <2>2. CASE d # c
    BY <1>1, <1>2, <2>2, OthersUntouched, OthersUntouchedEnd, UntouchedEndsWell
  <2> QED
    BY <2>1, <2>2
<1>3. CASE Signal \/ GracefulStop \/ Stopped \/ UNCHANGED vars
  <2>1. Untouched(d) /\ UntouchedEnd(d)
    BY <1>3 DEF Signal, GracefulStop, Stopped, vars, call, source, chain,
                Untouched, UntouchedEnd
  <2> QED
    BY <1>1, <2>1, UntouchedEndsWell
<1> QED
  BY <1>2, <1>3 DEF Next, Running

\* OK is the whole of the driver's stream, for either kind of call and however
\* that stream ended; only a client that left may be told OK of a part of it.
THEOREM OkIsComplete == Spec => []OkMeansComplete
<1>1. Init => EndInv
  <2> SUFFICES ASSUME Init PROVE EndInv
    OBVIOUS
  <2>1. \A c \in Calls : EndsWell(c)
    BY DEF Init, EndsWell, Returned, Served
  <2> QED
    BY <2>1, InitType, InitOrder DEF EndInv, Inv
<1>2. EndInv => OkMeansComplete
  BY ReceivedIsNumbers DEF EndInv, EndsWell, OkMeansComplete
<1> QED
  BY <1>1, <1>2, NextEndsWell, PTL DEF Spec

-----------------------------------------------------------------------------
(* How long a call lasts once its stream has ended: the three stages wait  *)
(* for each other on unbuffered channels, and never in a circle.  That Go  *)
(* runs a goroutine which can run is what EndIsDelivered, CancelEndsCall   *)
(* and LeavesNothing add, and TLC checks.                                  *)

Ended(c) == context[c] = "done" \/ driver[c] # "open"

\* The steps of a call, at most, until nothing of it is left.  An item costs
\* four: received, taken twice, and sent.
StepsLeft(c) ==
  4 * (produced[c] - read[c])
    + [none |-> 0, recv |-> 1, push |-> 4, exited |-> 0][reader[c]]
    + [none |-> 0, wait |-> 1, push |-> 3, exited |-> 0][logger[c]]
    + [idle |-> 0, open |-> 4, wait |-> 1, send |-> 2, returned |-> 0][handler[c]]

\* While the client waits for its call some stage can go on, and afterwards
\* each of the goroutines can on its own, except the KK reader that pushes.
CanGoOn(c) ==
  /\ Served(c) /\ Ended(c) =>
       \/ handler[c] = "send"
       \/ logger[c] \in {"push", "exited"}
       \/ logger[c] = "wait" /\ reader[c] \in {"push", "exited"}
       \/ reader[c] = "recv" /\ (read[c] < produced[c] \/ context[c] = "done"
                                   \/ (driver[c] # "open" /\ read[c] = produced[c]))
  /\ Returned(c) => context[c] = "done"

AllGoOn == \A c \in Calls : CanGoOn(c)

Moves(c) == <<handler[c], reader[c], logger[c]>>' # <<handler[c], reader[c], logger[c]>>

EndCountsDown ==
  [][\A c \in Calls : handler[c] # "idle" /\ Ended(c) /\ Moves(c) =>
       StepsLeft(c)' < StepsLeft(c)]_vars

\* The two goroutines are started together, and end but do not vanish.
Started(c) == Served(c) => reader[c] # "none" /\ logger[c] # "none"

StartedInv == Inv /\ \A c \in Calls : Started(c)

LEMMA StepStarted ==
  ASSUME TypeOK, NEW c \in Calls, Started(c),
         ReaderStep(c) \/ LoggerStep(c) \/ HandlerStep(c) \/ Environment(c)
  PROVE  Started(c)'
<1> USE DEF source, call, chain, Started, Served, At, TypeOK
<1>1. CASE ReaderStep(c)
  BY <1>1 DEF ReaderStep, ReaderReceives, ReaderEnds, ReaderGivesUp
<1>2. CASE LoggerStep(c)
  BY <1>2 DEF LoggerStep, LoggerTakes, LoggerEnds, LoggerCancelled
<1>3. CASE HandlerStep(c)
  BY <1>3 DEF HandlerStep, Open, OpenFails, OpenCancelled, HandlerTakes, Send,
              SendFails, HandlerEnds, HandlerCancelled, Return
<1>4. CASE Environment(c)
  BY <1>4 DEF Environment, Arrive, DriverSends, DriverEnds, ClientCancels
<1> QED
  BY <1>1, <1>2, <1>3, <1>4

LEMMA NextStarted == StartedInv /\ [Next]_vars => StartedInv'
<1> SUFFICES ASSUME StartedInv, [Next]_vars PROVE \A d \in Calls : Started(d)'
  BY NextOrder DEF StartedInv
<1> TAKE d \in Calls
<1>1. TypeOK /\ Started(d)
  BY DEF StartedInv, Inv
<1>2. ASSUME NEW c \in Calls,
             ReaderStep(c) \/ LoggerStep(c) \/ HandlerStep(c) \/ Environment(c)
      PROVE  Started(d)'
  <2>1. CASE d = c
    BY <1>1, <1>2, <2>1, StepStarted
  <2>2. CASE d # c
    <3>1. Untouched(d)
      BY <1>1, <1>2, <2>2, OthersUntouched
    <3> QED
      BY <1>1, <3>1 DEF Untouched, Started, Served
  <2> QED
    BY <2>1, <2>2
<1>3. CASE Signal \/ GracefulStop \/ Stopped \/ UNCHANGED vars
  BY <1>1, <1>3 DEF Signal, GracefulStop, Stopped, vars, call, chain, Started, Served
<1> QED
  BY <1>2, <1>3 DEF Next, Running

LEMMA StartedGoesOn ==
  ASSUME StartedInv
  PROVE  AllGoOn
<1> SUFFICES ASSUME NEW c \in Calls PROVE CanGoOn(c)
  BY DEF AllGoOn
<1>1. TypeOK /\ Order(c) /\ Started(c)
  BY DEF StartedInv, Inv
<1> QED
  BY <1>1 DEF TypeOK, Order, Started, CanGoOn, Ended

\* A step of a call whose stream has ended.
LEMMA CallCountsDown ==
  ASSUME TypeOK, NEW c \in Calls, NotStarted(c), handler[c] # "idle", Ended(c),
         ReaderStep(c) \/ LoggerStep(c) \/ HandlerStep(c) \/ Environment(c), Moves(c)
  PROVE  StepsLeft(c)' < StepsLeft(c)
<1>1. /\ produced[c] \in Nat /\ read[c] \in Nat /\ read[c] <= produced[c]
  BY DEF TypeOK
<1> USE <1>1 DEF source, call, chain, StepsLeft, At
<1>2. CASE ReaderReceives(c)
  <2>1. /\ reader[c] = "recv" /\ reader'[c] = "push" /\ read[c] < produced[c] /\ read'[c] = read[c] + 1
        /\ UNCHANGED <<produced, logger, handler>>
    BY <1>2 DEF TypeOK, ReaderReceives
  <2> QED
    BY <2>1 DEF TypeOK
<1>3. CASE ReaderEnds(c) \/ ReaderGivesUp(c)
  <2>1. /\ reader[c] \in {"recv", "push"} /\ reader'[c] = "exited"
        /\ UNCHANGED <<produced, read, logger, handler>>
    BY <1>3 DEF TypeOK, ReaderEnds, ReaderGivesUp
  <2> QED
    BY <2>1 DEF TypeOK
<1>4. CASE LoggerStep(c)
  BY <1>4 DEF TypeOK, LoggerStep, LoggerTakes, LoggerEnds, LoggerCancelled
<1>5. CASE Open(c)
  <2>1. /\ handler[c] = "open" /\ handler'[c] = "wait" /\ reader[c] = "none" /\ reader'[c] = "recv"
        /\ logger[c] = "none" /\ logger'[c] = "wait" /\ UNCHANGED <<produced, read>>
    BY <1>5 DEF TypeOK, Open, NotStarted
  <2> QED
    BY <2>1
<1>6. CASE OpenFails(c) \/ OpenCancelled(c) \/ SendFails(c) \/ HandlerEnds(c) \/ HandlerCancelled(c)
  <2>1. /\ handler[c] \in {"open", "send", "wait"} /\ handler'[c] = "returned"
        /\ UNCHANGED <<produced, read, reader, logger>>
    BY <1>6 DEF TypeOK, OpenFails, OpenCancelled, SendFails, HandlerEnds, HandlerCancelled, Return
  <2> QED
    BY <2>1 DEF TypeOK
<1>7. CASE HandlerTakes(c) \/ Send(c)
  BY <1>7 DEF TypeOK, HandlerTakes, Send
<1>8. CASE Environment(c)
  BY <1>8 DEF Environment, Arrive, DriverSends, DriverEnds, ClientCancels, Moves
<1> QED
  BY <1>2, <1>3, <1>4, <1>5, <1>6, <1>7, <1>8 DEF HandlerStep, ReaderStep

\* Of either kind, ended by its client, its driver or the loss of it: the three
\* stages of a call never block each other, and after at most four steps per
\* item on its way, and nine more, nothing of the call is left but the KK reader
\* that pushes.
THEOREM EndIsBounded == Spec => []AllGoOn /\ EndCountsDown
<1> DEFINE Down(c) == handler[c] # "idle" /\ Ended(c) /\ Moves(c) => StepsLeft(c)' < StepsLeft(c)
<1>1. Init => StartedInv
  <2>1. Init => \A c \in Calls : Started(c)
    BY DEF Init, Started, Served
  <2> QED
    BY <2>1, InitType, InitOrder DEF StartedInv, Inv
<1>2. ASSUME StartedInv, Next, NEW c \in Calls PROVE Down(c)
  <2>1. TypeOK /\ NotStarted(c)
    BY <1>2 DEF StartedInv, Inv, Order
  <2>2. ASSUME NEW d \in Calls,
               ReaderStep(d) \/ LoggerStep(d) \/ HandlerStep(d) \/ Environment(d)
        PROVE  Down(c)
    <3>1. CASE d = c
      BY <2>1, <2>2, <3>1, CallCountsDown
    <3>2. CASE d # c
      <4>1. Untouched(c)
        BY <2>1, <2>2, <3>2, OthersUntouched
      <4> QED
        BY <4>1 DEF Untouched, Moves
    <3> QED
      BY <3>1, <3>2
  <2>3. CASE Signal \/ GracefulStop \/ Stopped
    BY <2>3 DEF Signal, GracefulStop, Stopped, vars, call, chain, Moves
  <2> QED
    BY <1>2, <2>2, <2>3 DEF Next, Running
<1>3. StartedInv /\ [Next]_vars => [\A c \in Calls : Down(c)]_vars
  BY <1>2
<1>4. [][\A c \in Calls : Down(c)]_vars => EndCountsDown
  BY DEF EndCountsDown
<1> HIDE DEF Down
<1> QED
  BY <1>1, <1>3, <1>4, NextStarted, StartedGoesOn, PTL DEF Spec

-----------------------------------------------------------------------------
(* Each call implements the pipe.                                          *)

DriverInput == [c \in Calls |-> Numbers(produced[c])]

LEMMA PipeStep == Inv /\ [Next]_vars => [Pipe!Next]_(Pipe!pipe)
<1> SUFFICES ASSUME Inv, [Next]_vars PROVE [Pipe!Next]_(Pipe!pipe)
  OBVIOUS
<1> USE DEF source, call, chain
<1>1. TypeOK
  BY DEF Inv
<1>2. ASSUME NEW c \in Calls, DriverSends(c)
      PROVE  Pipe!Produce(c)
  <2> DEFINE n == produced[c]
  <2>1. n \in Nat /\ n + 1 \in 1..MaxItems
    BY <1>1, <1>2, ConstantsAssumption DEF TypeOK, DriverSends
  <2>2. produced' = [produced EXCEPT ![c] = n + 1] /\ UNCHANGED received
    BY <1>2 DEF DriverSends, At
  <2>3. Numbers(n + 1) = Append(Numbers(n), n + 1)
    BY <2>1, NumbersAppend
  <2>4. DriverInput' = [DriverInput EXCEPT ![c] = Append(@, n + 1)]
    BY <1>1, <2>2, <2>3 DEF DriverInput, TypeOK
  <2> QED
    BY <2>1, <2>2, <2>4 DEF Pipe!Produce, DriverInput, Numbers
<1>3. ASSUME NEW c \in Calls, Send(c)
      PROVE  Pipe!Give(c)
  <2> DEFINE n == Len(received[c])
  <2>1. /\ handler[c] = "send"
        /\ received' = [received EXCEPT ![c] = Append(@, sending[c])]
        /\ UNCHANGED produced
    BY <1>1, <1>3 DEF Send, At, TypeOK
  <2>2. /\ n \in Nat /\ produced[c] \in Nat /\ sending[c] = n + 1
        /\ n + 1 <= produced[c]
    <3>1. Held(c) /\ Given(c) = n + 1
      BY <2>1, CountTypes DEF Inv, Order, Served, Given, InHandler
    <3>2. /\ InLogger(c) \in Nat /\ read[c] \in Nat /\ read[c] <= produced[c]
          /\ n \in Nat /\ produced[c] \in Nat
      BY <1>1, CountTypes DEF TypeOK
    <3> QED
      BY <2>1, <3>1, <3>2 DEF Held
  <2>3. /\ DriverInput[c] = Numbers(produced[c])
        /\ Len(DriverInput[c]) = produced[c] /\ DriverInput[c][n + 1] = n + 1
    BY <2>2, NumbersAppend DEF DriverInput, Numbers
  <2>4. [d \in Calls |-> [k \in 1..produced[d] |-> k]] = DriverInput
    BY DEF DriverInput, Numbers
  <2>5. Pipe!Give(c) =
          /\ Len(received[c]) < Len(DriverInput[c])
          /\ received[c] # << >> => received[c][Len(received[c])] \notin {}
          /\ received' = [received EXCEPT ![c] =
                            Append(@, DriverInput[c][Len(received[c]) + 1])]
          /\ UNCHANGED DriverInput
    BY ONLY DEF Pipe!Give, DriverInput, Numbers
  <2>6. UNCHANGED DriverInput
    BY <2>1 DEF DriverInput
  <2>7. Len(received[c]) < Len(DriverInput[c])
    BY <2>2, <2>3
  <2> QED
    BY <2>1, <2>2, <2>3, <2>5, <2>6, <2>7
<1>4. ASSUME NEW c \in Calls,
             ReaderStep(c) \/ LoggerStep(c) \/ HandlerStep(c) \/ Environment(c),
             ~DriverSends(c), ~Send(c)
      PROVE  UNCHANGED <<produced, received>>
  <2>1. CASE ReaderStep(c)
    BY <2>1 DEF ReaderStep, ReaderReceives, ReaderEnds, ReaderGivesUp
  <2>2. CASE LoggerStep(c)
    BY <2>2 DEF LoggerStep, LoggerTakes, LoggerEnds, LoggerCancelled
  <2>3. CASE HandlerStep(c)
    BY <1>4, <2>3 DEF HandlerStep, Open, OpenFails, OpenCancelled, HandlerTakes,
                      SendFails, HandlerEnds, HandlerCancelled
  <2>4. CASE Environment(c)
    BY <1>4, <2>4 DEF Environment, Arrive, DriverEnds, ClientCancels
  <2> QED
    BY <1>4, <2>1, <2>2, <2>3, <2>4
<1>5. CASE \E c \in Calls : DriverSends(c) \/ Send(c)
  BY <1>2, <1>3, <1>5 DEF Pipe!Next
<1>6. CASE ~\E c \in Calls : DriverSends(c) \/ Send(c)
  <2>1. UNCHANGED <<produced, received>>
    BY <1>4, <1>6 DEF Next, Running, Signal, GracefulStop, Stopped, vars
  <2> QED
    BY <2>1 DEF Pipe!pipe
<1> QED
  BY <1>5, <1>6

\* The chain of goroutines of a call, cancelled or not, with or without an end
\* of the driver's stream, implements the pipe: in order, once, none skipped.
THEOREM StreamImplementsPipe == Spec => PipeSpec
<1>1. Init => Pipe!Init
  <2> SUFFICES ASSUME Init PROVE Pipe!Init
    OBVIOUS
  <2>1. \A c \in Calls : [n \in 1..produced[c] |-> n] = << >>
    <3> TAKE c \in Calls
    <3>1. produced[c] = 0
      BY DEF Init
    <3>2. Numbers(0) \in Seq(Nat) /\ Len(Numbers(0)) = 0
      BY NumbersAppend
    <3> QED
      BY <3>1, <3>2 DEF Numbers
  <2> QED
    BY <2>1 DEF Init, Pipe!Init
<1> QED
  BY <1>1, Invariance, PipeStep, PTL DEF Spec, PipeSpec, Pipe!Spec
-----------------------------------------------------------------------------
(* End to end: pipes in series are a pipe.  A client that shows what it is *)
(* sent through a pipe of its own, as the MKO tab does                     *)
(* (MkoGuiProofs!TabImplementsPipe), shows the driver's items.             *)

VARIABLE log    \* per call, what its client shows of it

\* The client, from what the handler wrote to what is shown.
Client == INSTANCE ResultPipe WITH
  Subscribers <- Calls,
  Items <- Nat,
  Final <- {},
  input <- received,
  output <- log

\* The whole way, from the driver's stream to what is shown.
EndToEnd == INSTANCE ResultPipe WITH
  Subscribers <- Calls,
  Items <- 1..MaxItems,
  Final <- {},
  input <- DriverInput,
  output <- log

\* The driver and the client are different processes: no step is of both.
Interleaved == [][DriverInput' = DriverInput \/ log' = log]_<<DriverInput, log>>

LogInv ==
  /\ log = [c \in Calls |-> log[c]]
  /\ \A c \in Calls :
       /\ log[c] \in Seq(Nat) /\ Len(log[c]) <= Len(received[c])
       /\ \A i \in 1..Len(log[c]) : log[c][i] = i

LEMMA LogStep ==
  ASSUME Inv, Inv', LogInv, [Client!Next]_(Client!pipe)
  PROVE  LogInv'
<1>1. \A c \in Calls :
        /\ received[c] \in Seq(Nat)
        /\ \A i \in 1..Len(received[c]) : received[c][i] = i
  BY DEF Inv, TypeOK, Order, InOrder
<1>2. received = [c \in Calls |-> received[c]]
  BY DEF Inv, TypeOK
<1>3. CASE UNCHANGED <<received, log>>
  BY <1>3 DEF LogInv
<1>4. ASSUME NEW c \in Calls, NEW i, received' = [received EXCEPT ![c] = Append(@, i)], log' = log
      PROVE  LogInv'
  <2>1. ASSUME NEW d \in Calls PROVE Len(log[d]) <= Len(received'[d])
    <3>1. Len(log[d]) \in Nat /\ Len(received[d]) \in Nat /\ Len(log[d]) <= Len(received[d])
      BY <1>1 DEF LogInv
    <3>2. received'[d] = IF d = c THEN Append(received[d], i) ELSE received[d]
      BY <1>2, <1>4
    <3>3. Len(Append(received[d], i)) = Len(received[d]) + 1
      BY <1>1
    <3> QED
      BY <3>1, <3>2, <3>3
  <2> QED
    BY <1>4, <2>1 DEF LogInv
<1>5. ASSUME NEW c \in Calls, Client!Give(c)
      PROVE  LogInv'
  <2> DEFINE n == Len(log[c])
  <2>1. /\ log[c] \in Seq(Nat) /\ n \in Nat /\ Len(received[c]) \in Nat
        /\ \A i \in 1..n : log[c][i] = i
    BY <1>1 DEF LogInv
  <2>2. /\ n + 1 \in 1..Len(received[c]) /\ UNCHANGED received
        /\ log' = [log EXCEPT ![c] = Append(@, received[c][n + 1])]
    BY <1>5, <2>1 DEF Client!Give
  <2>3. received[c][n + 1] = n + 1
    BY <1>1, <2>2
  <2>4. /\ log'[c] = Append(log[c], n + 1) /\ log' = [d \in Calls |-> log'[d]]
        /\ \A d \in Calls : d # c => log'[d] = log[d]
    BY <2>2, <2>3 DEF LogInv
  <2> HIDE DEF n
  <2>5. /\ log'[c] \in Seq(Nat) /\ Len(log'[c]) = n + 1
        /\ \A i \in 1..(n + 1) : log'[c][i] = IF i = n + 1 THEN n + 1 ELSE log[c][i]
    BY <2>1, <2>4 DEF n
  <2>6. \A i \in 1..(n + 1) : log'[c][i] = i
    BY <2>1, <2>5
  <2>7. n + 1 <= Len(received'[c])
    BY <2>1, <2>2
  <2> QED
    BY <2>2, <2>4, <2>5, <2>6, <2>7 DEF LogInv
<1> QED
  BY <1>3, <1>4, <1>5 DEF Client!Next, Client!Produce, Client!pipe

LEMMA EndToEndStep ==
  ASSUME Inv, LogInv, [Next]_vars, [Client!Next]_(Client!pipe),
         [DriverInput' = DriverInput \/ log' = log]_<<DriverInput, log>>
  PROVE  [EndToEnd!Next]_(EndToEnd!pipe)
<1>0. [c \in Calls |-> [n \in 1..produced[c] |-> n]] = DriverInput
  BY DEF DriverInput, Numbers
<1>1. CASE log' = log
  <2>1. [Pipe!Next]_(Pipe!pipe)
    BY PipeStep
  <2>2. ASSUME NEW c \in Calls, Pipe!Produce(c) PROVE EndToEnd!Next
    <3>1. \E i \in 1..MaxItems : DriverInput' = [DriverInput EXCEPT ![c] = Append(@, i)]
      BY <2>2 DEF Pipe!Produce, DriverInput, Numbers
    <3> QED
      BY <1>1, <3>1 DEF EndToEnd!Produce, EndToEnd!Next
  <2>3. ASSUME NEW c \in Calls, Pipe!Give(c) PROVE UNCHANGED DriverInput
    BY <2>3 DEF Pipe!Give, DriverInput, Numbers
  <2>4. ASSUME UNCHANGED Pipe!pipe PROVE UNCHANGED DriverInput
    BY <2>4 DEF Pipe!pipe, DriverInput, Numbers
  <2> QED
    BY <1>1, <2>1, <2>2, <2>3, <2>4 DEF Pipe!Next, EndToEnd!pipe
<1>2. CASE log' # log
  <2>1. DriverInput' = DriverInput
    BY <1>2
  <2>2. PICK c \in Calls : Client!Give(c)
    BY <1>2 DEF Client!Next, Client!Produce, Client!pipe
  <2> DEFINE n == Len(log[c])
  <2>3. /\ n < Len(received[c])
        /\ log' = [log EXCEPT ![c] = Append(@, received[c][n + 1])]
    BY <2>2 DEF Client!Give
  <2>4. /\ n \in Nat /\ Len(received[c]) \in Nat /\ produced[c] \in Nat
        /\ Len(received[c]) <= produced[c]
        /\ \A i \in 1..Len(received[c]) : received[c][i] = i
    <3>1. /\ read[c] \in Nat /\ read[c] <= produced[c] /\ Len(received[c]) <= read[c]
          /\ \A i \in 1..Len(received[c]) : received[c][i] = i
      BY DEF Inv, TypeOK, Order, InOrder
    <3>2. n \in Nat /\ Len(received[c]) \in Nat /\ produced[c] \in Nat
      BY DEF Inv, TypeOK, LogInv
    <3> QED
      BY <3>1, <3>2
  <2> HIDE DEF n
  <2>5. n + 1 \in 1..produced[c] /\ received[c][n + 1] = n + 1
    BY <2>3, <2>4
  <2>6. Len(DriverInput[c]) = produced[c] /\ DriverInput[c][n + 1] = n + 1
    BY <2>4, <2>5, NumbersAppend DEF DriverInput, Numbers
  <2>7. n < Len(DriverInput[c])
    BY <2>4, <2>5, <2>6
  <2>8. EndToEnd!Give(c)
    BY <2>1, <2>3, <2>5, <2>6, <2>7 DEF EndToEnd!Give, n
  <2> QED
    BY <2>8 DEF EndToEnd!Next
<1> QED
  BY <1>1, <1>2

\* For any calls of either kind, cancelled or not, and any client that is itself
\* a pipe: what is shown are the driver's items in order, each once, none
\* skipped.
THEOREM StreamEndToEnd == Spec /\ Client!Spec /\ Interleaved => EndToEnd!Spec
<1>1. Init /\ Client!Init => Inv /\ LogInv /\ EndToEnd!Init
  <2> SUFFICES ASSUME Init, Client!Init PROVE LogInv /\ EndToEnd!Init
    BY InitType, InitOrder DEF Inv
  <2>1. log = [c \in Calls |-> <<>>] /\ received = [c \in Calls |-> <<>>]
    BY DEF Client!Init
  <2>2. DriverInput = [c \in Calls |-> <<>>]
    <3>1. Numbers(0) = <<>>
      BY NumbersAppend
    <3>2. \A c \in Calls : produced[c] = 0
      BY DEF Init
    <3> QED
      BY <3>1, <3>2 DEF DriverInput
  <2>3. <<>> \in Seq(Nat) /\ Len(<<>>) = 0
    OBVIOUS
  <2> QED
    BY <2>1, <2>2, <2>3 DEF LogInv, EndToEnd!Init
<1>2. Inv /\ LogInv /\ [Next]_vars /\ [Client!Next]_(Client!pipe) => Inv' /\ LogInv'
  BY NextOrder, LogStep
<1>3. Inv /\ LogInv /\ [Next]_vars /\ [Client!Next]_(Client!pipe)
        /\ [DriverInput' = DriverInput \/ log' = log]_<<DriverInput, log>>
        => [EndToEnd!Next]_(EndToEnd!pipe)
  BY EndToEndStep
<1> QED
  BY <1>1, <1>2, <1>3, PTL DEF Spec, Client!Spec, Interleaved, EndToEnd!Spec
=============================================================================
