----------------------------- MODULE MkoTabProofs -----------------------------
(***************************************************************************)
(* Theorems about the unary calls of the MKO service, for any number of    *)
(* calls, whatever they ask and whatever the driver answers; and about the *)
(* tab in front of them: whatever is typed, loaded and reset in whatever   *)
(* order, for any number of calls of the tab and of other clients.         *)
(***************************************************************************)
EXTENDS MkoTabProps, FiniteSetTheorems, SequenceTheorems, TLAPS

-----------------------------------------------------------------------------
(* The calls.                                                              *)

\* The fields of a request are numbers.
Numeric(r) ==
  r.index \in Int /\ r.address \in Int /\ r.subaddress \in Int /\ r.words \in Int

RequestsNumeric == DOMAIN request = Calls /\ \A c \in Calls : Numeric(request[c])

\* A call that has not reached the service has left no trace.
Untouched(c) ==
  /\ driver[c] = "none" /\ reply[c] = "NONE" /\ code[c] = "NONE" /\ context[c] = "live"
  /\ ~connected[c] /\ clock[c] = 0 /\ working[c] = 0

\* A call on its way to the driver passed the validation.
Passed(c) == ~Invalid(request[c]) /\ sent[c] = Normalised(request[c])

\* The code of a call comes from the answer, and the answer from the driver.
Honest(c) ==
  /\ reply[c] = "SUCCESS" => applied[c] /\ driver[c] = "done"
  /\ code[c] = "OK" /\ Method(c) # "GetStatus" => reply[c] = "SUCCESS" /\ Passed(c)
  /\ code[c] = "OK" => Method(c) # "ClearBuffer"
  /\ connected[c] => stage[c] = "ping" /\ reply[c] = "SUCCESS"
  /\ code[c] = "INVALID_ARGUMENT" => driver[c] = "none"

\* On a prompt network the clock of a call is that of the driver's work.
Timed(c) ==
  /\ prompt => clock[c] = working[c] /\ working[c] <= DriverWait
  /\ prompt /\ context[c] = "expired" => KK(c)

CallInv(c) ==
  /\ place[c] \in {"idle", "editing"} => Untouched(c)
  /\ place[c] = "calling" =>
       /\ Passed(c) /\ Method(c) # "ClearBuffer" /\ ~connected[c] /\ driver[c] # "none"
       /\ stage[c] = "only" <=> Method(c) # "GetStatus"
  /\ code[c] = "NONE" <=> place[c] # "returned"
  /\ driver[c] # "none" => Passed(c)
  /\ Honest(c) /\ Timed(c)

CommandsInv == TypeOK /\ RequestsNumeric /\ \A c \in Calls : CallInv(c)

\* Everything a step of one call does not touch.
OthersKeep(c) ==
  \A d \in Calls \ {c} :
    /\ place'[d] = place[d] /\ stage'[d] = stage[d] /\ context'[d] = context[d]
    /\ code'[d] = code[d] /\ connected'[d] = connected[d] /\ clock'[d] = clock[d]
    /\ sent'[d] = sent[d] /\ driver'[d] = driver[d] /\ working'[d] = working[d]
    /\ applied'[d] = applied[d] /\ reply'[d] = reply[d] /\ request'[d] = request[d]

LEMMA FreshInv ==
  ASSUME Fresh, RequestsNumeric, place \in [Calls -> {"idle", "editing"}]
  PROVE  CommandsInv
<1>1. TypeOK
  BY DEF Fresh, TypeOK, Answers, Codes, unaryTimeout
<1>2. ASSUME NEW c \in Calls PROVE CallInv(c)
  BY <1>2 DEF Fresh, CallInv, Untouched, Honest, Timed, DriverWait
<1> QED
  BY <1>1, <1>2 DEF CommandsInv

\* A call that no step touches keeps its part of the invariant.
LEMMA UntouchedKeeps ==
  ASSUME CommandsInv, NEW c \in Calls, OthersKeep(c), prompt' = prompt, NEW d \in Calls \ {c}
  PROVE  CallInv(d)'
<1> QED
  BY DEF CommandsInv, OthersKeep, CallInv, Untouched, Passed, Honest, Timed, Invalid, Normalised,
         Method, KK, validateSubaddress, validateOuAddress, validateWriteWords

\* The handlers: what the service does with a call.
LEMMA ServiceKeeps ==
  ASSUME CommandsInv, NEW c \in Calls, ServiceStep(c)
  PROVE  CommandsInv'
<1> USE DEF service, world
<1>1. OthersKeep(c) /\ prompt' = prompt /\ request' = request
  <2>1. CASE Reject(c)
    BY <2>1 DEF CommandsInv, TypeOK, OthersKeep, Reject, Return
  <2>2. CASE NotImplemented(c)
    BY <2>2 DEF CommandsInv, TypeOK, OthersKeep, NotImplemented, Return
  <2>3. CASE Forward(c)
    BY <2>3 DEF CommandsInv, TypeOK, OthersKeep, Forward, CallDriver
  <2>4. CASE Succeeds(c)
    BY <2>4 DEF CommandsInv, TypeOK, OthersKeep, Succeeds, Return
  <2>5. CASE Fails(c)
    BY <2>5 DEF CommandsInv, TypeOK, OthersKeep, Fails, Return
  <2>6. CASE StatusGoesOn(c)
    BY <2>6 DEF CommandsInv, TypeOK, OthersKeep, StatusGoesOn, CallDriver
  <2>7. CASE StatusCancelled(c)
    BY <2>7 DEF CommandsInv, TypeOK, OthersKeep, StatusCancelled, Return
  <2>8. CASE StatusEnds(c)
    BY <2>8 DEF CommandsInv, TypeOK, OthersKeep, StatusEnds, Return
  <2> QED
    BY <2>1, <2>2, <2>3, <2>4, <2>5, <2>6, <2>7, <2>8 DEF ServiceStep
<1>2. TypeOK' /\ CallInv(c)'
  <2> USE ConstantsAssumption
          DEF CommandsInv, TypeOK, CallInv, Untouched, Honest, Timed, Codes, Answers,
              ConstantsAssumption, Method, KK, unaryTimeout, DriverWait, RequestsNumeric, Numeric
  <2>1. CASE Reject(c)
    BY <2>1 DEF Reject, Return
  <2>2. CASE NotImplemented(c)
    BY <2>2 DEF NotImplemented, Return
  <2>3. CASE Forward(c)
    <3>1. Passed(c)' /\ sent'[c] \in Int
      BY <2>3 DEF Forward, Passed, Normalised, Invalid
    <3> QED
      BY <2>3, <3>1 DEF Forward, CallDriver
  <2>4. CASE Succeeds(c)
    BY <2>4 DEF Succeeds, Return, Answered, Passed
  <2>5. CASE Fails(c)
    <3> DEFINE told == IF KK(c) THEN KKCode(c, reply[c]) ELSE OuCode(reply[c])
    <3>1. told \in {"FAILED_PRECONDITION", "DEADLINE_EXCEEDED", "UNAVAILABLE", "UNIMPLEMENTED",
                    "INTERNAL"}
      BY DEF KKCode, OuCode
    <3>2. /\ Answered(c) /\ reply[c] # "SUCCESS" /\ Return(c, told)
          /\ UNCHANGED <<request, prompt, stage, context, connected, clock, world>>
      BY <2>5 DEF Fails
    <3> HIDE DEF told
    <3> QED
      BY <3>1, <3>2 DEF Return, Answered, Passed
  <2>6. CASE StatusGoesOn(c)
    BY <2>6 DEF StatusGoesOn, CallDriver, Answered, Passed
  <2>7. CASE StatusCancelled(c)
    BY <2>7 DEF StatusCancelled, Return, Answered, Passed
  <2>8. CASE StatusEnds(c)
    BY <2>8 DEF StatusEnds, Return, Answered, Passed
  <2> QED
    BY <2>1, <2>2, <2>3, <2>4, <2>5, <2>6, <2>7, <2>8 DEF ServiceStep
<1>3. RequestsNumeric'
  BY <1>1 DEF CommandsInv, RequestsNumeric, Numeric
<1> QED
  BY <1>1, <1>2, <1>3, UntouchedKeeps DEF CommandsInv

\* Time, the network, the driver and the caller.
LEMMA WorldKeeps ==
  ASSUME CommandsInv, NEW c \in Calls,
         Tick(c) \/ Expire(c) \/ Cancel(c) \/ Lost(c) \/ DriverStep(c)
  PROVE  CommandsInv'
<1> USE DEF service, world
<1>1. OthersKeep(c) /\ prompt' = prompt /\ request' = request
  BY DEF CommandsInv, TypeOK, OthersKeep, Tick, Expire, Cancel, Lost, DriverStep, DriverTakes,
         DriverAnswers
<1>2. TypeOK' /\ CallInv(c)'
  <2> USE ConstantsAssumption
          DEF CommandsInv, TypeOK, CallInv, Untouched, Honest, Timed, Answers, ConstantsAssumption,
              Method, KK, unaryTimeout, DriverWait, Limit, defaultKKCommandTimeout, Passed,
              RequestsNumeric, Numeric
  <2>1. CASE Tick(c)
    BY <2>1 DEF Tick
  <2>2. CASE Expire(c)
    BY <2>2 DEF Expire
  <2>3. CASE Cancel(c)
    BY <2>3 DEF Cancel
  <2>4. CASE Lost(c)
    BY <2>4 DEF Lost
  <2>5. CASE DriverTakes(c)
    BY <2>5 DEF DriverTakes
  <2>6. CASE DriverAnswers(c)
    BY <2>6 DEF DriverAnswers
  <2> QED
    BY <2>1, <2>2, <2>3, <2>4, <2>5, <2>6 DEF DriverStep
<1>3. RequestsNumeric'
  BY <1>1 DEF CommandsInv, RequestsNumeric, Numeric
<1> QED
  BY <1>1, <1>2, <1>3, UntouchedKeeps DEF CommandsInv

LEMMA IdleKeeps ==
  ASSUME CommandsInv, UNCHANGED vars
  PROVE  CommandsInv'
<1> QED
  BY DEF CommandsInv, TypeOK, RequestsNumeric, Numeric, CallInv, Untouched, Passed, Honest, Timed,
         Invalid, Normalised, Method, KK, vars, service, world

\* What is true of every call is what the properties say of it.
LEMMA CommandsInvImplies ==
  ASSUME CommandsInv
  PROVE  OuInputIsChecked /\ ToldTheTruth /\ DriverIsHeard
<1>1. OuInputIsChecked
  BY DEF CommandsInv, RequestsNumeric, Numeric, CallInv, OuInputIsChecked, OnBoard, Passed, Invalid,
         Normalised, KK, Method, validateSubaddress, validateOuAddress, validateWriteWords
<1>2. ToldTheTruth
  BY DEF CommandsInv, CallInv, Honest, ToldTheTruth
<1>3. DriverIsHeard
  BY DEF CommandsInv, CallInv, Timed, DriverIsHeard
<1> QED
  BY <1>1, <1>2, <1>3

\* The inductive invariant of the calls alone.
LEMMA CommandsInductive == Spec => []CommandsInv
<1>1. Init => CommandsInv
  <2> SUFFICES ASSUME Init PROVE CommandsInv
    OBVIOUS
  <2>1. RequestsNumeric
    BY RequestsAssumption DEF Init, RequestsAssumption, RequestsNumeric, Numeric
  <2> QED
    BY <2>1, FreshInv DEF Init
<1>2. CommandsInv /\ [Next]_vars => CommandsInv'
  BY ServiceKeeps, WorldKeeps, IdleKeeps DEF Next, Quiet
<1> QED
  BY <1>1, <1>2, PTL DEF Spec

\* Every variable of every call keeps its type.
THEOREM TypeCorrect == Spec => []TypeOK
<1>1. CommandsInv => TypeOK
  BY DEF CommandsInv
<1> QED
  BY <1>1, CommandsInductive, PTL

\* For any number of calls and any numbers in them, what the service checks for the
\* terminal reaches the driver checked.  The calls of KK, SendRawOuData and the
\* address of SetOuResponseWord are not among what it checks: a call of KK reaches
\* the driver with the index it came with.
THEOREM OuInputAlwaysChecked == Spec => []OuInputIsChecked
<1>1. CommandsInv => OuInputIsChecked
  BY CommandsInvImplies
<1> QED
  BY <1>1, CommandsInductive, PTL

\* The caller is told what happened to its call.
THEOREM AlwaysToldTheTruth == Spec => []ToldTheTruth
<1>1. CommandsInv => ToldTheTruth
  BY CommandsInvImplies
<1> QED
  BY <1>1, CommandsInductive, PTL

\* An OU call does not expire before a driver that keeps to its wait.
THEOREM DriverAlwaysHeard == Spec => []DriverIsHeard
<1>1. CommandsInv => DriverIsHeard
  BY CommandsInvImplies
<1> QED
  BY <1>1, CommandsInductive, PTL

-----------------------------------------------------------------------------
(* Numbers and texts.                                                      *)

\* A negative number wraps to one that is no address of the bus.
LEMMA CastIsExact ==
  ASSUME NEW n \in Int, -Uint32 <= 2 * n, 2 * n < Uint32, Cast(n) <= 30
  PROVE  Cast(n) = n
<1>1. Uint32 \in Nat /\ Uint32 >= 62
  BY TabAssumption DEF TabAssumption
<1>2. CASE n >= 0
  BY <1>1, <1>2 DEF Cast
<1>3. CASE n < 0
  <2>1. (n + Uint32) % Uint32 = n + Uint32
    BY <1>1, <1>3
  <2>2. n % Uint32 = (n + Uint32) % Uint32
    BY <1>1, <1>3
  <2> QED
    BY <1>1, <1>3, <2>1, <2>2 DEF Cast
<1> QED
  BY <1>2, <1>3

\* A number of a box that is not negative does not wrap.
LEMMA SmallCastIsExact ==
  ASSUME NEW n \in Int, n >= 0, 2 * n < Uint32
  PROVE  Cast(n) = n
BY TabAssumption DEF TabAssumption, Cast

\* Five octal digits make a word that is not too large.
LEMMA OctalIsSmall ==
  ASSUME NEW n \in Nat, \A p \in {1, 10, 100, 1000, 10000} : Digit(n, p) < 8
  PROVE  Octal(n) <= MAX_MKO_WORD_VALUE
<1>1. \A p \in {1, 10, 100, 1000, 10000} : Digit(n, p) \in Int /\ Digit(n, p) <= 7
  BY DEF Digit
<1> QED
  BY <1>1 DEF Octal, MAX_MKO_WORD_VALUE

\* What a cell may hold.
CellOK(x) ==
  /\ x.base \in {"dec", "hex", "zero", "part"} /\ WordValueValidator(x)
  /\ x.base = "zero" => x.n \in Nat

CellsOK(t) == \A k \in 1..TableSize : CellOK(t[k])

LEMMA LoadedCellsOK ==
  ASSUME NEW words
  PROVE  CellsOK(set_words(words))
<1> QED
  BY DEF CellsOK, CellOK, set_words, format_word, Text, WordValueValidator, MAX_MKO_WORD_VALUE

\* What is collected from a table: one word for each row, none too large, and
\* what the table shows unless a number begins with zero.
LEMMA CollectedIsShown ==
  ASSUME NEW t, CellsOK(t)
  PROVE  /\ Len(collect_words(t)) = TableSize
         /\ \A k \in 1..TableSize : collect_words(t)[k] <= MAX_MKO_WORD_VALUE
         /\ Unambiguous(t) => collect_words(t) = Shown(t)
<1>1. ASSUME NEW k \in 1..TableSize
      PROVE  /\ collect_words(t)[k] <= MAX_MKO_WORD_VALUE
             /\ t[k].base # "zero" => collect_words(t)[k] = Shown(t)[k]
  <2>1. CASE t[k].base = "zero"
    BY <1>1, <2>1, OctalIsSmall
       DEF CellsOK, CellOK, collect_words, IsNumber, toUInt, MAX_MKO_WORD_VALUE
  <2>2. CASE t[k].base # "zero"
    BY <1>1, <2>2
       DEF CellsOK, CellOK, collect_words, IsNumber, toUInt, WordValueValidator, Shown,
           MAX_MKO_WORD_VALUE
  <2> QED
    BY <2>1, <2>2
<1>2. Unambiguous(t) => collect_words(t) = Shown(t)
  BY <1>1 DEF Unambiguous, collect_words, Shown
<1>3. Len(collect_words(t)) = TableSize
  <2> DEFINE S == {collect_words(t)[k] : k \in 1..TableSize}
  <2>1. collect_words(t) \in [1..TableSize -> S] /\ TableSize \in Nat
    BY TabAssumption DEF collect_words, TabAssumption
  <2> HIDE DEF S
  <2>2. collect_words(t) \in Seq(S)
    BY <2>1, SeqDef
  <2> QED
    BY <2>1, <2>2
<1> QED
  BY <1>1, <1>2, <1>3

-----------------------------------------------------------------------------
(* The form and the calls made from it.                                    *)

\* A number box holds an int.
BoxInt == {n \in Int : -Uint32 <= 2 * n /\ 2 * n < Uint32}

FormOK ==
  /\ box \in [Boxes -> BoxInt] /\ Apart
  /\ DOMAIN table = Tables
  /\ \A t \in Tables : DOMAIN table[t] = 1..TableSize /\ CellsOK(table[t])

\* Between the press and the answer the form is the one the call was made from.
AskedInv ==
  \A c \in mine : place[c] # "editing" /\ log[c] = "none" => request[c] \in Asks

TabInv ==
  /\ CommandsInv /\ FormOK /\ AskedInv
  /\ mine \subseteq Calls /\ log \in [Calls -> {"none", "ok", "error"}]

LEMMA AsksNumeric ==
  ASSUME FormOK, NEW r \in Asks
  PROVE  Numeric(r)
<1>1. TableSize \in Int /\ Uint32 \in Nat /\ Uint32 >= 62
  BY TabAssumption DEF TabAssumption
<1>2. box.kk \in Int /\ box.ou \in Int /\ box.address \in Int /\ box.index \in Int
      /\ Cast(box.subaddress) \in Int
  BY <1>1 DEF FormOK, Boxes, IndexBoxes, BoxInt, Cast
<1>3. \A t \in Tables : Len(collect_words(table[t])) \in Int
  BY <1>1, CollectedIsShown DEF FormOK
<1>4. Len(<< >>) = 0
  OBVIOUS
<1> QED
  BY <1>2, <1>3, <1>4
     DEF Asks, Request, Numeric, ConfigureKK, ConfigureExchange, RunExchange, ConfigureOu,
         ReadOuSubaddress, WriteOuSubaddress, SendRawOuData, SetOuResponseWord, ClearBuffer

LEMMA InitTabInv == TabInit => TabInv
<1> SUFFICES ASSUME TabInit PROVE TabInv
  OBVIOUS
<1>1. TableSize \in Nat /\ Uint32 \in Nat /\ Uint32 >= 62
  BY TabAssumption DEF TabAssumption
<1>2. RequestsNumeric
  <2>1. Numeric(Request("RunExchange", 0, 0, 0, << >>))
    BY DEF Request, Numeric
  <2>2. \A r \in Requests : Numeric(r)
    BY RequestsAssumption DEF RequestsAssumption, Numeric
  <2> QED
    BY <2>1, <2>2 DEF TabInit, RequestsNumeric
<1>3. CommandsInv
  BY <1>2, FreshInv DEF TabInit
<1>4. FormOK
  <2>1. box \in [Boxes -> BoxInt] /\ Apart
    BY <1>1 DEF TabInit, Defaults, Boxes, IndexBoxes, BoxInt, Apart
  <2>2. CellsOK(Zeros) /\ DOMAIN Zeros = 1..TableSize
    BY DEF CellsOK, CellOK, Zeros, Text, WordValueValidator, MAX_MKO_WORD_VALUE
  <2> QED
    BY <2>1, <2>2 DEF TabInit, FormOK
<1>5. AskedInv
  BY DEF TabInit, AskedInv
<1> QED
  BY <1>3, <1>4, <1>5 DEF TabInit, TabInv

\* The form changes while no call of the tab is under way.
LEMMA EditKeeps ==
  ASSUME TabInv, Edit, FormOK'
  PROVE  TabInv'
<1>1. CommandsInv'
  BY IdleKeeps DEF TabInv, Edit
<1>2. AskedInv'
  BY DEF TabInv, CommandsInv, TypeOK, Edit, Busy, AskedInv, vars, service
<1> QED
  BY <1>1, <1>2 DEF TabInv, Edit

LEMMA BoxesKeep ==
  ASSUME TabInv, NEW which \in Boxes, IF which \in IndexBoxes THEN SetIndex(which) ELSE SetNumber(which)
  PROVE  TabInv'
<1>1. \A n \in Numbers : n \in BoxInt
  BY TabAssumption DEF TabAssumption, BoxInt
<1>2. 1 \in BoxInt /\ 2 \in BoxInt
  BY TabAssumption DEF TabAssumption, BoxInt
<1>3. Edit /\ table' = table
  BY DEF SetIndex, SetNumber
<1>4. box' \in [Boxes -> BoxInt] /\ Apart'
  <2>1. CASE which \in IndexBoxes
    <3>1. PICK n \in Numbers : box' = sync_mko_indices(which, [box EXCEPT ![which] = n])
      BY <2>1 DEF SetIndex
    <3> DEFINE b == [box EXCEPT ![which] = n]
    <3>2. b \in [Boxes -> BoxInt]
      BY <1>1 DEF TabInv, FormOK
    <3>3. box' = sync_mko_indices(which, b)
      BY <3>1
    <3> HIDE DEF b
    <3>4. \A m : alternate_mko_index(m) \in {1, 2} /\ alternate_mko_index(m) # m
      BY DEF alternate_mko_index
    <3> QED
      BY <1>2, <2>1, <3>2, <3>3, <3>4 DEF sync_mko_indices, Boxes, IndexBoxes, Apart
  <2>2. CASE which \notin IndexBoxes
    BY <1>1, <2>2 DEF TabInv, FormOK, SetNumber, Boxes, IndexBoxes, Apart
  <2> QED
    BY <2>1, <2>2
<1> QED
  BY <1>3, <1>4, EditKeeps DEF TabInv, FormOK

LEMMA TablesKeep ==
  ASSUME TabInv, NEW t \in Tables,
         \/ EditCell(t) \/ load_words_from_file(t) \/ save_words_to_file(t)
         \/ load_words_from_binary_file(t) \/ save_words_to_binary_file(t)
  PROVE  TabInv'
<1>1. Edit /\ box' = box
  BY DEF EditCell, load_words_from_file, save_words_to_file, load_words_from_binary_file,
         save_words_to_binary_file
<1>2. \A words : CellsOK(set_words(words)) /\ DOMAIN set_words(words) = 1..TableSize
  BY LoadedCellsOK DEF set_words
<1>3. /\ DOMAIN table' = Tables
      /\ \A s \in Tables : DOMAIN table'[s] = 1..TableSize /\ CellsOK(table'[s])
  <2>1. CASE EditCell(t)
    <3>1. PICK k \in 1..TableSize, x \in Cells :
            WordValueValidator(x) /\ table' = [table EXCEPT ![t][k] = x]
      BY <2>1 DEF EditCell
    <3>2. CellOK(x)
      BY <3>1, TabAssumption DEF TabAssumption, CellOK, WordValueValidator
    <3> QED
      BY <3>1, <3>2 DEF TabInv, FormOK, CellsOK
  <2>2. CASE load_words_from_file(t)
    <3>1. PICK words : table' = [table EXCEPT ![t] = set_words(words)]
      BY <2>2 DEF load_words_from_file
    <3> QED
      BY <1>2, <3>1 DEF TabInv, FormOK
  <2>3. CASE load_words_from_binary_file(t)
    <3>1. PICK words : table' = [table EXCEPT ![t] = set_words(words)]
      BY <2>3 DEF load_words_from_binary_file
    <3> QED
      BY <1>2, <3>1 DEF TabInv, FormOK
  <2>4. CASE save_words_to_file(t) \/ save_words_to_binary_file(t)
    BY <2>4 DEF save_words_to_file, save_words_to_binary_file, TabInv, FormOK
  <2> QED
    BY <2>1, <2>2, <2>3, <2>4
<1> QED
  BY <1>1, <1>3, EditKeeps DEF TabInv, FormOK, Apart

LEMMA ResetKeeps ==
  ASSUME TabInv, reset_parameters_to_defaults
  PROVE  TabInv'
<1>1. Uint32 \in Nat /\ Uint32 >= 62
  BY TabAssumption DEF TabAssumption
<1>2. Edit /\ box' = Defaults /\ table' = [t \in Tables |-> Zeros]
  BY DEF reset_parameters_to_defaults
<1>3. Defaults \in [Boxes -> BoxInt] /\ Defaults.kk # Defaults.ou
  BY <1>1 DEF Defaults, Boxes, IndexBoxes, BoxInt
<1>4. CellsOK(Zeros) /\ DOMAIN Zeros = 1..TableSize
  BY DEF CellsOK, CellOK, Zeros, Text, WordValueValidator, MAX_MKO_WORD_VALUE
<1> QED
  BY <1>2, <1>3, <1>4, EditKeeps DEF FormOK, Apart

-----------------------------------------------------------------------------
(* The calls.                                                              *)

\* A step of a call neither makes a call of the tab nor changes what it asks.
LEMMA CallPlaces ==
  ASSUME CommandsInv, NEW c \in Calls,
         ServiceStep(c) \/ Tick(c) \/ Expire(c) \/ Cancel(c) \/ Lost(c) \/ DriverStep(c)
  PROVE  request' = request /\ \A d \in Calls : place'[d] # "editing" => place[d] # "editing"
<1> USE DEF CommandsInv, TypeOK, Return, service, world
<1>1. CASE ServiceStep(c)
  BY <1>1 DEF ServiceStep, Reject, NotImplemented, Forward, Succeeds, Fails, StatusGoesOn,
              StatusCancelled, StatusEnds, CallDriver, Answered
<1>2. CASE Tick(c) \/ Expire(c) \/ Cancel(c) \/ Lost(c) \/ DriverStep(c)
  BY <1>2 DEF Tick, Expire, Cancel, Lost, DriverStep, DriverTakes, DriverAnswers
<1> QED
  BY <1>1, <1>2

LEMMA CallStepKeeps ==
  ASSUME TabInv, NEW c \in Calls, CallStep(c)
  PROVE  TabInv'
<1>1. ServiceStep(c) \/ Tick(c) \/ Expire(c) \/ Cancel(c) \/ Lost(c) \/ DriverStep(c)
  BY DEF CallStep
<1>2. CommandsInv'
  BY <1>1, ServiceKeeps, WorldKeeps DEF TabInv
<1>3. request' = request /\ \A d \in Calls : place'[d] # "editing" => place[d] # "editing"
  BY <1>1, CallPlaces DEF TabInv
<1>4. UNCHANGED <<mine, box, table, log>>
  BY DEF CallStep, tabVars, form
<1>5. Asks' = Asks /\ FormOK'
  BY <1>4 DEF TabInv, FormOK, Apart, Asks, ConfigureKK, ConfigureExchange, RunExchange, ConfigureOu,
              ReadOuSubaddress, WriteOuSubaddress, SendRawOuData, SetOuResponseWord, ClearBuffer
<1> QED
  BY <1>2, <1>3, <1>4, <1>5 DEF TabInv, AskedInv

LEMMA PressKeeps ==
  ASSUME TabInv, NEW c \in Calls, Press(c)
  PROVE  TabInv'
<1>1. PICK asked \in Asks : request' = [request EXCEPT ![c] = asked]
  BY DEF Press
<1>2. /\ ~Busy /\ c \in mine /\ place[c] = "editing" /\ place' = [place EXCEPT ![c] = "idle"]
      /\ UNCHANGED <<prompt, stage, context, code, connected, clock, world, tabVars>>
  BY DEF Press
<1>3. UNCHANGED <<mine, box, table, log, sent, driver, working, applied, reply>>
  BY <1>2 DEF tabVars, form, world
<1>4. Asks' = Asks /\ FormOK'
  BY <1>3 DEF TabInv, FormOK, Apart, Asks, ConfigureKK, ConfigureExchange, RunExchange, ConfigureOu,
              ReadOuSubaddress, WriteOuSubaddress, SendRawOuData, SetOuResponseWord, ClearBuffer
<1>5. request'[c] \in Asks /\ Numeric(request'[c])
  <2>1. c \in DOMAIN request
    BY DEF TabInv, CommandsInv, RequestsNumeric
  <2> QED
    BY <1>1, <2>1, AsksNumeric DEF TabInv
<1>6. OthersKeep(c)
  BY <1>1, <1>2, <1>3 DEF TabInv, CommandsInv, TypeOK, OthersKeep
<1>7. CommandsInv'
  <2>1. TypeOK'
    BY <1>2, <1>3 DEF TabInv, CommandsInv, TypeOK, Answers
  <2>2. CallInv(c)'
    BY <1>2, <1>3 DEF TabInv, CommandsInv, TypeOK, CallInv, Untouched, Honest, Timed, DriverWait
  <2>3. RequestsNumeric'
    BY <1>1, <1>5, <1>6 DEF TabInv, CommandsInv, RequestsNumeric, OthersKeep, Numeric
  <2> QED
    BY <1>2, <1>6, <2>1, <2>2, <2>3, UntouchedKeeps DEF TabInv, CommandsInv
<1>8. AskedInv'
  BY <1>2, <1>3, <1>4, <1>5, <1>6 DEF TabInv, CommandsInv, TypeOK, AskedInv, Busy, OthersKeep
<1> QED
  BY <1>3, <1>4, <1>7, <1>8 DEF TabInv

LEMMA LostKeeps ==
  ASSUME TabInv, NEW c \in Calls, ServiceLost(c)
  PROVE  TabInv'
<1>1. /\ c \in mine /\ place[c] \in {"idle", "calling"} /\ Return(c, "UNAVAILABLE")
      /\ UNCHANGED <<request, prompt, stage, context, connected, clock, world>>
      /\ UNCHANGED <<mine, box, table, log>>
  BY DEF ServiceLost, tabVars, form
<1>2. OthersKeep(c)
  BY <1>1 DEF TabInv, CommandsInv, TypeOK, OthersKeep, Return, world
<1>3. CommandsInv'
  <2>1. /\ place' = [place EXCEPT ![c] = "returned"] /\ code' = [code EXCEPT ![c] = "UNAVAILABLE"]
        /\ UNCHANGED <<request, stage, context, connected, clock, sent, driver, working, applied, reply>>
    BY <1>1 DEF Return, world
  <2>t. TypeOK'
    BY <1>1, <2>1 DEF TabInv, CommandsInv, TypeOK, Return, world, Codes, Answers
  <2>c. CallInv(c)'
    BY <1>1, <2>1 DEF TabInv, CommandsInv, TypeOK, CallInv, Untouched, Honest, Timed, Passed, Invalid,
                      Normalised, KK, Method, validateSubaddress, validateOuAddress, validateWriteWords
  <2>2. RequestsNumeric'
    BY <1>1 DEF TabInv, CommandsInv, RequestsNumeric, Numeric
  <2> QED
    BY <1>1, <1>2, <2>t, <2>c, <2>2, UntouchedKeeps DEF TabInv, CommandsInv
<1>4. Asks' = Asks /\ FormOK'
  BY <1>1 DEF TabInv, FormOK, Apart, Asks, ConfigureKK, ConfigureExchange, RunExchange, ConfigureOu,
              ReadOuSubaddress, WriteOuSubaddress, SendRawOuData, SetOuResponseWord, ClearBuffer
<1>5. AskedInv'
  BY <1>1, <1>4 DEF TabInv, CommandsInv, TypeOK, AskedInv, Return
<1> QED
  BY <1>1, <1>3, <1>4, <1>5 DEF TabInv

LEMMA ShowKeeps ==
  ASSUME TabInv, NEW c \in Calls, Show(c)
  PROVE  TabInv'
<1>1. /\ log' = [log EXCEPT ![c] = IF code[c] = "OK" THEN "ok" ELSE "error"]
      /\ UNCHANGED vars /\ UNCHANGED <<mine, box, table, request, place>>
  BY DEF Show, form, vars, service
<1>2. CommandsInv'
  BY <1>1, IdleKeeps DEF TabInv
<1>3. Asks' = Asks /\ FormOK'
  BY <1>1 DEF TabInv, FormOK, Apart, Asks, ConfigureKK, ConfigureExchange, RunExchange, ConfigureOu,
              ReadOuSubaddress, WriteOuSubaddress, SendRawOuData, SetOuResponseWord, ClearBuffer
<1> QED
  BY <1>1, <1>2, <1>3 DEF TabInv, AskedInv

LEMMA TabNextKeeps ==
  ASSUME TabInv, [TabNext]_allVars
  PROVE  TabInv'
<1>1. CASE \E c \in Calls : CallStep(c)
  BY <1>1, CallStepKeeps
<1>2. CASE TabStep
  BY <1>2, BoxesKeep, TablesKeep, ResetKeeps, LostKeeps, ShowKeeps, PressKeeps DEF TabStep
<1>3. CASE UNCHANGED allVars
  <2>1. UNCHANGED vars /\ UNCHANGED <<mine, box, table, log, request, place>>
    BY <1>3 DEF allVars, tabVars, form, vars, service
  <2>2. CommandsInv'
    BY <2>1, IdleKeeps DEF TabInv
  <2>3. Asks' = Asks /\ FormOK'
    BY <2>1 DEF TabInv, FormOK, Apart, Asks, ConfigureKK, ConfigureExchange, RunExchange,
                ConfigureOu, ReadOuSubaddress, WriteOuSubaddress, SendRawOuData,
                SetOuResponseWord, ClearBuffer
  <2> QED
    BY <2>1, <2>2, <2>3 DEF TabInv, AskedInv
<1> QED
  BY <1>1, <1>2, <1>3 DEF TabNext, TabQuiet

LEMMA TabInductive == TabSpec => []TabInv
<1>1. TabInv /\ [TabNext]_allVars => TabInv'
  BY TabNextKeeps
<1> QED
  BY <1>1, InitTabInv, PTL DEF TabSpec

-----------------------------------------------------------------------------
\* With the tab among its callers, too, what the service checks for the terminal is
\* checked, every caller is told what happened, and a prompt driver is heard.
THEOREM TabCallsAreSafe == TabSpec => [](OuInputIsChecked /\ ToldTheTruth /\ DriverIsHeard)
<1>1. TabInv => OuInputIsChecked /\ ToldTheTruth /\ DriverIsHeard
  BY CommandsInvImplies DEF TabInv
<1> QED
  BY <1>1, TabInductive, PTL

\* The boxes of KK and OU never show the same MKO.
THEOREM AlwaysApart == TabSpec => []Apart
<1>1. TabInv => Apart
  BY DEF TabInv, FormOK
<1> QED
  BY <1>1, TabInductive, PTL

\* A success in the log is about what is on the screen, for any words in the tables
\* and any ints in the boxes, but for the two exceptions of the property: a leading
\* zero is octal, and the negative subaddress of SendRawOuData has wrapped.
THEOREM OkIsAlwaysWhatWasShown == TabSpec => OkIsWhatWasShown
<1> DEFINE Same(c) ==
      LET r == request[c] IN
      /\ applied[c] /\ r.method # "ClearBuffer"
      /\ r.method \in {"ReadOuSubaddress", "WriteOuSubaddress"} => r.subaddress = box.subaddress
      /\ r.method = "SendRawOuData" /\ box.subaddress >= 0 => r.subaddress = box.subaddress
      /\ r.method = "ConfigureKK" => r.address = box.address /\ sent[c] = box.kk
      /\ r.method = "ConfigureOu" =>
           r.address = box.address /\ sent[c] = IF box.ou < 1 THEN 1 ELSE box.ou
      /\ r.method = "SetOuResponseWord" =>
           r.address = box.address /\ sent[c] = IF box.index < 1 THEN 1 ELSE box.index
      /\ \A t \in Tables : r.method = t =>
           /\ \A k \in 1..r.words : r.sd[k] <= MAX_MKO_WORD_VALUE
           /\ Unambiguous(table[t]) => r.sd = Shown(table[t])
<1>1. ASSUME TabInv, NEW c \in mine, place[c] = "returned", log[c] = "none", code[c] = "OK"
      PROVE  Same(c)
  <2>1. request[c] \in Asks /\ c \in Calls
    BY <1>1 DEF TabInv, AskedInv
  <2>2. Honest(c)
    BY <1>1, <2>1 DEF TabInv, CommandsInv, CallInv
  <2>3. request[c].method # "GetStatus"
    BY <2>1 DEF Asks, Request, ConfigureKK, ConfigureExchange, RunExchange, ConfigureOu,
                ReadOuSubaddress, WriteOuSubaddress, SendRawOuData, SetOuResponseWord, ClearBuffer
  <2>4. applied[c] /\ request[c].method # "ClearBuffer" /\ Passed(c)
    BY <1>1, <2>2, <2>3 DEF Honest, Method
  <2>5. request[c].method \in {"ReadOuSubaddress", "WriteOuSubaddress"} =>
          request[c].subaddress = box.subaddress
    <3> SUFFICES ASSUME request[c].method \in {"ReadOuSubaddress", "WriteOuSubaddress"}
                 PROVE  request[c].subaddress = box.subaddress
      OBVIOUS
    <3>1. request[c].subaddress = Cast(box.subaddress)
      BY <2>1 DEF Asks, Request, ConfigureKK, ConfigureExchange, RunExchange, ConfigureOu,
                  ReadOuSubaddress, WriteOuSubaddress, SendRawOuData, SetOuResponseWord, ClearBuffer
    <3>2. Cast(box.subaddress) <= 30
      BY <2>4, <3>1 DEF Passed, Invalid, validateSubaddress
    <3>3. /\ box.subaddress \in Int
          /\ -Uint32 <= 2 * box.subaddress /\ 2 * box.subaddress < Uint32
      BY <1>1 DEF TabInv, FormOK, Boxes, BoxInt
    <3> QED
      BY <3>1, <3>2, <3>3, CastIsExact
  <2>6. /\ request[c].method = "ConfigureOu" =>
             request[c].address = box.address /\ sent[c] = IF box.ou < 1 THEN 1 ELSE box.ou
        /\ request[c].method = "SetOuResponseWord" =>
             request[c].address = box.address /\ sent[c] = IF box.index < 1 THEN 1 ELSE box.index
        /\ request[c].method = "ConfigureKK" => request[c].address = box.address /\ sent[c] = box.kk
    <3>1. box.ou \in Int /\ box.index \in Int
      BY <1>1 DEF TabInv, FormOK, Boxes, IndexBoxes, BoxInt
    <3>2. sent[c] = Normalised(request[c])
      BY <2>4 DEF Passed
    <3> QED
      BY <2>1, <3>1, <3>2
         DEF Normalised, Asks, Request, ConfigureKK, ConfigureExchange, RunExchange, ConfigureOu,
             ReadOuSubaddress, WriteOuSubaddress, SendRawOuData, SetOuResponseWord, ClearBuffer
  <2>8. request[c].method = "SendRawOuData" /\ box.subaddress >= 0 =>
          request[c].subaddress = box.subaddress
    <3> SUFFICES ASSUME request[c].method = "SendRawOuData", box.subaddress >= 0
                 PROVE  request[c].subaddress = box.subaddress
      OBVIOUS
    <3>1. request[c].subaddress = Cast(box.subaddress)
      BY <2>1 DEF Asks, Request, ConfigureKK, ConfigureExchange, RunExchange, ConfigureOu,
                  ReadOuSubaddress, WriteOuSubaddress, SendRawOuData, SetOuResponseWord, ClearBuffer
    <3>2. box.subaddress \in Int /\ 2 * box.subaddress < Uint32
      BY <1>1 DEF TabInv, FormOK, Boxes, BoxInt
    <3> QED
      BY <3>1, <3>2, SmallCastIsExact
  <2>7. ASSUME NEW t \in Tables, request[c].method = t
        PROVE  /\ \A k \in 1..request[c].words : request[c].sd[k] <= MAX_MKO_WORD_VALUE
               /\ Unambiguous(table[t]) => request[c].sd = Shown(table[t])
    <3>1. t \in {"ConfigureExchange", "WriteOuSubaddress", "SendRawOuData"}
      BY TabAssumption DEF TabAssumption
    <3>2. Len(<< >>) = 0
      OBVIOUS
    <3>3. /\ request[c].sd = collect_words(table[t])
          /\ request[c].words = Len(collect_words(table[t]))
      BY <2>1, <2>7, <3>1, <3>2
         DEF Asks, Request, ConfigureKK, ConfigureExchange, RunExchange, ConfigureOu,
             ReadOuSubaddress, WriteOuSubaddress, SendRawOuData, SetOuResponseWord, ClearBuffer
    <3>4. CellsOK(table[t])
      BY <1>1 DEF TabInv, FormOK
    <3> QED
      BY <3>3, <3>4, CollectedIsShown
  <2> QED
    BY <2>4, <2>5, <2>6, <2>7, <2>8
<1> HIDE DEF Same
<1>2. TabInv /\ [TabNext]_allVars =>
        [\A c \in mine : log[c] = "none" /\ log'[c] = "ok" => Same(c)]_allVars
  <2> SUFFICES ASSUME TabInv, TabNext, NEW c \in mine, log[c] = "none", log'[c] = "ok"
               PROVE  Same(c)
    OBVIOUS
  <2>1. place[c] = "returned" /\ code[c] = "OK"
    <3>1. CASE \E d \in Calls : Show(d)
      BY <3>1 DEF Show, TabInv
    <3>2. CASE log' = log
      BY <3>2
    <3>3. (\E d \in Calls : Show(d)) \/ log' = log
      BY DEF TabNext, TabStep, TabQuiet, CallStep, Press, ServiceLost, SetIndex, SetNumber, EditCell,
             load_words_from_file, save_words_to_file, load_words_from_binary_file,
             save_words_to_binary_file, reset_parameters_to_defaults, Edit, allVars, tabVars
    <3> QED
      BY <3>1, <3>2, <3>3
  <2> QED
    BY <1>1, <2>1
<1>3. TabSpec => [][\A c \in mine : log[c] = "none" /\ log'[c] = "ok" => Same(c)]_allVars
  BY <1>2, TabInductive, PTL DEF TabSpec
<1> QED
  BY <1>3 DEF OkIsWhatWasShown, Same

-----------------------------------------------------------------------------
(* The files.                                                              *)

\* A file of a kind that was saved holds the words of the table it was saved
\* from, and that table was a valid one.
SavedInv ==
  /\ DOMAIN saved = {"text", "binary"}
  /\ saved.text # << >> =>
       CellsOK(saved.text) /\ textfile = lines_of(collect_words(saved.text))
  /\ saved.binary # << >> =>
       CellsOK(saved.binary) /\ binaryfile = collect_words(saved.binary)

\* The n-th of all rows is the row n.
LEMMA NthOfAll ==
  ASSUME NEW m \in Nat, NEW n \in 1..m
  PROVE  Nth(1..m, n) = n
<1>1. ASSUME NEW k \in 1..m PROVE Cardinality({i \in 1..m : i <= k}) = k
  <2>1. {i \in 1..m : i <= k} = 1..k
    OBVIOUS
  <2>2. Cardinality(1..k) = k
    BY FS_Interval
  <2> QED
    BY <2>1, <2>2
<1> QED
  BY <1>1 DEF Nth

\* The word of a saved line is the one it was made from, not its name.
LEMMA LineIsRead ==
  ASSUME NEW k, NEW n, n <= MAX_MKO_WORD_VALUE
  PROVE  LET line == <<Text("word", k), format_word(n)>> IN
         /\ \E i \in DOMAIN line : IsWord(line[i])
         /\ parse_word_line(line) = n
<1> DEFINE line == <<Text("word", k), format_word(n)>>
<1>1. DOMAIN line = 1..2 /\ line[1] = Text("word", k) /\ line[2] = format_word(n)
  OBVIOUS
<1>2. ~IsWord(Text("word", k))
  BY DEF IsWord, IsNumber, Text
<1>3. IsWord(format_word(n)) /\ toUInt(format_word(n)) = n
  BY DEF IsWord, IsNumber, toUInt, format_word, Text
<1> HIDE DEF line
<1>4. \A i \in DOMAIN line : IsWord(line[i]) <=> i = 2
  <2>1. \A i \in DOMAIN line : i = 1 \/ i = 2
    BY <1>1
  <2> QED
    BY <1>1, <1>2, <1>3, <2>1
<1>5. (CHOOSE i \in DOMAIN line :
         IsWord(line[i]) /\ \A j \in DOMAIN line : j > i => ~IsWord(line[j])) = 2
  <2>1. 2 \in DOMAIN line
    BY <1>1
  <2>2. \A j \in DOMAIN line : j > 2 => ~IsWord(line[j])
    BY <1>1
  <2> QED
    BY <1>4, <2>1, <2>2
<1>6. parse_word_line(line) = toUInt(line[2])
  BY <1>5 DEF parse_word_line
<1> QED
  BY <1>1, <1>3, <1>4, <1>6 DEF line

\* Reading the lines of a table's words gives those words.
LEMMA LinesAreRead ==
  ASSUME NEW w, DOMAIN w = 1..TableSize, \A k \in 1..TableSize : w[k] <= MAX_MKO_WORD_VALUE
  PROVE  /\ DOMAIN words_of(lines_of(w)) = 1..TableSize /\ Len(words_of(lines_of(w))) = TableSize
         /\ \A k \in 1..TableSize : words_of(lines_of(w))[k] = w[k]
<1> DEFINE file == lines_of(w)
           rows == {k \in DOMAIN file : \E i \in DOMAIN file[k] : IsWord(file[k][i])}
<1>0. TableSize \in Nat
  BY TabAssumption DEF TabAssumption
<1>1. DOMAIN file = 1..TableSize
  BY DEF lines_of
<1>2. ASSUME NEW k \in 1..TableSize
      PROVE  /\ \E i \in DOMAIN file[k] : IsWord(file[k][i])
             /\ parse_word_line(file[k]) = w[k]
  <2>1. file[k] = <<Text("word", k), format_word(w[k])>>
    BY DEF lines_of
  <2> HIDE DEF file
  <2> QED
    BY <2>1, LineIsRead
<1> HIDE DEF file
<1>3. rows = 1..TableSize
  BY <1>1, <1>2
<1>4. Cardinality(rows) = TableSize
  <2>1. Cardinality(1..TableSize) = TableSize
    BY <1>0, FS_Interval
  <2> QED
    BY <1>3, <2>1
<1>5. words_of(file) = [n \in 1..Cardinality(rows) |-> parse_word_line(file[Nth(rows, n)])]
  BY DEF words_of
<1> HIDE DEF rows
<1>6. words_of(file) = [n \in 1..TableSize |-> parse_word_line(file[Nth(1..TableSize, n)])]
  BY <1>3, <1>4, <1>5
<1>7. \A n \in 1..TableSize : Nth(1..TableSize, n) = n
  BY <1>0, NthOfAll
<1>8. Len(words_of(file)) = TableSize
  <2> DEFINE u == words_of(file)
             S == {u[n] : n \in 1..TableSize}
  <2>1. u = [n \in 1..TableSize |-> u[n]]
    BY <1>6
  <2> HIDE DEF u
  <2>2. u \in [1..TableSize -> S]
    BY <2>1
  <2> HIDE DEF S
  <2>3. u \in Seq(S)
    BY <1>0, <2>2, SeqDef
  <2>4. Len(u) = TableSize
    BY <1>0, <2>2, <2>3
  <2> QED
    BY <2>4 DEF u
<1> QED
  BY <1>2, <1>6, <1>7, <1>8 DEF file

\* A table filled with the words of another shows what that one showed.
LEMMA LoadedIsShown ==
  ASSUME NEW s, CellsOK(s), Unambiguous(s), NEW words,
         DOMAIN words = 1..TableSize, Len(words) = TableSize,
         \A k \in 1..TableSize : words[k] = collect_words(s)[k]
  PROVE  Shown(set_words(words)) = Shown(s)
<1>0. TableSize \in Nat
  BY TabAssumption DEF TabAssumption
<1>1. /\ \A k \in 1..TableSize : collect_words(s)[k] <= MAX_MKO_WORD_VALUE
      /\ collect_words(s) = Shown(s)
  BY CollectedIsShown
<1>2. ASSUME NEW k \in 1..TableSize PROVE set_words(words)[k] = format_word(Shown(s)[k])
  <2>1. k <= Len(words) /\ words[k] <= MAX_MKO_WORD_VALUE /\ words[k] = Shown(s)[k]
    BY <1>0, <1>1
  <2> QED
    BY <2>1 DEF set_words
<1>3. ASSUME NEW k \in 1..TableSize PROVE Shown(set_words(words))[k] = Shown(s)[k]
  <2>1. Shown(set_words(words))[k] =
          IF set_words(words)[k].base = "part" THEN 0 ELSE set_words(words)[k].n
    BY DEF Shown
  <2>2. \A n : format_word(n).base = "hex" /\ format_word(n).n = n
    BY DEF format_word, Text
  <2> QED
    BY <1>2, <2>1, <2>2
<1> QED
  BY <1>3 DEF Shown

\* A file changes when it is saved, and then it is of the table saved.
LEMMA SavedKept ==
  ASSUME TabInv, SavedInv, [TabNext]_allVars
  PROVE  SavedInv'
<1>1. ASSUME NEW t \in Tables, save_words_to_file(t) PROVE SavedInv'
  <2>1. /\ saved' = [saved EXCEPT !.text = table[t]]
        /\ textfile' = lines_of(collect_words(table[t])) /\ binaryfile' = binaryfile
    BY <1>1 DEF save_words_to_file
  <2>2. CellsOK(table[t])
    BY DEF TabInv, FormOK
  <2>3. saved'.text = table[t] /\ saved'.binary = saved.binary /\ DOMAIN saved' = {"text", "binary"}
    BY <2>1 DEF SavedInv
  <2> QED
    BY <2>1, <2>2, <2>3 DEF SavedInv
<1>2. ASSUME NEW t \in Tables, save_words_to_binary_file(t) PROVE SavedInv'
  <2>1. /\ saved' = [saved EXCEPT !.binary = table[t]]
        /\ binaryfile' = collect_words(table[t]) /\ textfile' = textfile
    BY <1>2 DEF save_words_to_binary_file
  <2>2. CellsOK(table[t])
    BY DEF TabInv, FormOK
  <2>3. saved'.binary = table[t] /\ saved'.text = saved.text /\ DOMAIN saved' = {"text", "binary"}
    BY <2>1 DEF SavedInv
  <2> QED
    BY <2>1, <2>2, <2>3 DEF SavedInv
<1>3. \/ UNCHANGED <<textfile, binaryfile, saved>>
      \/ \E t \in Tables : save_words_to_file(t) \/ save_words_to_binary_file(t)
  BY DEF TabNext, TabStep, TabQuiet, CallStep, Press, ServiceLost, Show, SetIndex, SetNumber,
         EditCell, load_words_from_file, load_words_from_binary_file,
         reset_parameters_to_defaults, allVars, tabVars, form
<1>4. CASE UNCHANGED <<textfile, binaryfile, saved>>
  BY <1>4 DEF SavedInv
<1> QED
  BY <1>1, <1>2, <1>3, <1>4

LEMMA InitSavedInv == TabInit => SavedInv
BY DEF TabInit, SavedInv

\* What was saved is what is loaded again, in either format and into any table,
\* for tables of any size up to 32 words: the lines with their names, the
\* hexadecimal texts and the skipping of lines lose no word and move none.
THEOREM SavedIsAlwaysLoaded == TabSpec => SavedIsLoaded
<1> DEFINE Loaded ==
      \A t \in Tables :
        /\ load_words_from_file(t) /\ saved.text # << >> /\ Unambiguous(saved.text) =>
             Shown(table'[t]) = Shown(saved.text)
        /\ load_words_from_binary_file(t) /\ saved.binary # << >> /\ Unambiguous(saved.binary) =>
             Shown(table'[t]) = Shown(saved.binary)
<1>1. ASSUME TabInv, SavedInv PROVE Loaded
  <2>0. TableSize \in Nat /\ \A t \in Tables : t \in DOMAIN table
    BY <1>1, TabAssumption DEF TabAssumption, TabInv, FormOK
  <2>a. \A s : DOMAIN collect_words(s) = 1..TableSize
    BY DEF collect_words
  <2>1. ASSUME NEW t \in Tables, load_words_from_file(t), saved.text # << >>,
               Unambiguous(saved.text)
        PROVE  Shown(table'[t]) = Shown(saved.text)
    <3> DEFINE s == saved.text
               w == collect_words(s)
               words == words_of(lines_of(w))
    <3>1. CellsOK(s) /\ textfile = lines_of(w)
      BY <1>1, <2>1 DEF SavedInv
    <3>2. \A k \in 1..TableSize : w[k] <= MAX_MKO_WORD_VALUE
      BY <3>1, CollectedIsShown
    <3>3. /\ DOMAIN words = 1..TableSize /\ Len(words) = TableSize
          /\ \A k \in 1..TableSize : words[k] = w[k]
      BY <2>a, <3>2, LinesAreRead
    <3>4. table'[t] = set_words(words)
      BY <2>0, <2>1, <3>1 DEF load_words_from_file
    <3>5. Unambiguous(s)
      BY <2>1
    <3> HIDE DEF words, s
    <3>6. Shown(set_words(words)) = Shown(s)
      BY <3>1, <3>3, <3>5, LoadedIsShown
    <3> QED
      BY <3>4, <3>6 DEF s
  <2>2. ASSUME NEW t \in Tables, load_words_from_binary_file(t), saved.binary # << >>,
               Unambiguous(saved.binary)
        PROVE  Shown(table'[t]) = Shown(saved.binary)
    <3> DEFINE s == saved.binary
               words == collect_words(s)
    <3>1. CellsOK(s) /\ binaryfile = words
      BY <1>1, <2>2 DEF SavedInv
    <3>2. DOMAIN words = 1..TableSize /\ Len(words) = TableSize
      BY <2>a, <3>1, CollectedIsShown
    <3>3. table'[t] = set_words(words)
      BY <2>0, <2>2, <3>1 DEF load_words_from_binary_file
    <3>4. Unambiguous(s)
      BY <2>2
    <3>5. Shown(set_words(words)) = Shown(s)
      BY <3>1, <3>2, <3>4, LoadedIsShown
    <3> QED
      BY <3>3, <3>5
  <2> QED
    BY <2>1, <2>2
<1> HIDE DEF Loaded
<1>2. TabInv /\ SavedInv /\ [TabNext]_allVars => TabInv' /\ SavedInv'
  BY SavedKept, TabNextKeeps
<1>3. TabInv /\ SavedInv /\ [TabNext]_allVars => [Loaded]_allVars
  BY <1>1
<1>4. TabSpec => [](TabInv /\ SavedInv)
  BY InitTabInv, InitSavedInv, <1>2, PTL DEF TabSpec
<1>5. TabSpec => [][Loaded]_allVars
  BY <1>3, <1>4, PTL DEF TabSpec
<1> QED
  BY <1>5 DEF SavedIsLoaded, Loaded

-----------------------------------------------------------------------------
(* How long a call can last: in every state it has an answer or a deadline *)
(* that still comes, and every step of it brings its end nearer.  That     *)
(* time passes and the service runs is what CallReturns adds, and TLC      *)
(* checks.                                                                 *)

\* The steps of a call, at most, until it returns.  GetStatus begins with the
\* ten of Ping in reserve.
StepsLeft(c) ==
  IF place[c] # "calling" THEN 0 ELSE
    1 + (IF stage[c] = "version" THEN 10 ELSE 0) + (Limit(c) - clock[c])
      + [live |-> 2, expired |-> 1, cancelled |-> 0][context[c]]
      + [none |-> 0, wire |-> 2, working |-> 1, done |-> 0][driver[c]]
      + (IF reply[c] = "NONE" THEN 1 ELSE 0)

\* A call without an answer has a deadline that has not passed, and a driver
\* that has not answered.
HasEnd(c) ==
  place[c] = "calling" =>
    /\ clock[c] <= Limit(c)
    /\ reply[c] = "NONE" => context[c] = "live" /\ driver[c] \in {"wire", "working"}

AllHaveEnd == \A c \in Calls : HasEnd(c)

Moves(c) ==
  <<place[c], stage[c], context[c], clock[c], driver[c], reply[c]>>'
    # <<place[c], stage[c], context[c], clock[c], driver[c], reply[c]>>

CallCountsDown ==
  [][\A c \in Calls : place[c] = "calling" /\ Moves(c) => StepsLeft(c)' < StepsLeft(c)]_allVars

\* The steps of a call itself.
LEMMA CallStepEnds ==
  ASSUME CommandsInv, NEW c \in Calls, HasEnd(c),
         ServiceStep(c) \/ Tick(c) \/ Expire(c) \/ Cancel(c) \/ Lost(c) \/ DriverStep(c)
  PROVE  /\ HasEnd(c)'
         /\ place[c] = "calling" => StepsLeft(c)' < StepsLeft(c)
<1> USE DEF CommandsInv, TypeOK, HasEnd, StepsLeft, Limit, KK, Method, unaryTimeout,
            defaultKKCommandTimeout, service, world
<1>1. CASE Reject(c) \/ NotImplemented(c)
  BY <1>1 DEF Reject, NotImplemented, Return
<1>2. CASE Forward(c)
  BY <1>2 DEF Forward, CallDriver
<1>3. CASE Succeeds(c) \/ Fails(c) \/ StatusCancelled(c) \/ StatusEnds(c)
  BY <1>3 DEF Succeeds, Fails, StatusCancelled, StatusEnds, Answered, Return
<1>4. CASE StatusGoesOn(c)
  BY <1>4 DEF StatusGoesOn, Answered, CallDriver
<1>5. CASE Tick(c)
  BY <1>5 DEF Tick
<1>6. CASE Expire(c)
  BY <1>6 DEF Expire
<1>7. CASE Cancel(c)
  BY <1>7 DEF Cancel
<1>8. CASE Lost(c)
  BY <1>8 DEF Lost
<1>9. CASE DriverTakes(c)
  BY <1>9 DEF DriverTakes
<1>10. CASE DriverAnswers(c)
  BY <1>10, ConstantsAssumption DEF DriverAnswers, ConstantsAssumption
<1> QED
  BY <1>1, <1>2, <1>3, <1>4, <1>5, <1>6, <1>7, <1>8, <1>9, <1>10 DEF ServiceStep, DriverStep

\* One call's step leaves the others alone.
LEMMA StepsApart ==
  ASSUME CommandsInv, NEW c \in Calls, NEW d \in Calls, c # d,
         ServiceStep(c) \/ Tick(c) \/ Expire(c) \/ Cancel(c) \/ Lost(c) \/ DriverStep(c)
  PROVE  ~Moves(d) /\ request'[d] = request[d]
<1> USE DEF CommandsInv, TypeOK, Moves, service, world
<1>1. CASE Reject(c) \/ NotImplemented(c) \/ Succeeds(c) \/ Fails(c) \/ StatusCancelled(c)
           \/ StatusEnds(c)
  BY <1>1 DEF Reject, NotImplemented, Succeeds, Fails, StatusCancelled, StatusEnds, Return
<1>2. CASE Forward(c) \/ StatusGoesOn(c)
  BY <1>2 DEF Forward, StatusGoesOn, CallDriver
<1>3. CASE Tick(c) \/ Expire(c) \/ Cancel(c) \/ Lost(c) \/ DriverStep(c)
  BY <1>3 DEF Tick, Expire, Cancel, Lost, DriverStep, DriverTakes, DriverAnswers
<1> QED
  BY <1>1, <1>2, <1>3 DEF ServiceStep

\* The tab makes a call, or loses the service; the form is none of the calls'
\* business.
LEMMA TabStepEnds ==
  ASSUME CommandsInv, NEW c \in Calls, HasEnd(c), TabStep \/ TabQuiet \/ UNCHANGED allVars
  PROVE  /\ HasEnd(c)'
         /\ place[c] = "calling" /\ Moves(c) => StepsLeft(c)' < StepsLeft(c)
<1> USE DEF CommandsInv, TypeOK, HasEnd, StepsLeft, Limit, KK, Method, unaryTimeout,
            defaultKKCommandTimeout, service, world, Moves
<1>1. CASE UNCHANGED vars
  BY <1>1 DEF vars
<1>2. ASSUME NEW d \in Calls, Press(d)
      PROVE  /\ HasEnd(c)'
             /\ place[c] = "calling" /\ Moves(c) => StepsLeft(c)' < StepsLeft(c)
  <2>1. /\ place[d] = "editing" /\ place' = [place EXCEPT ![d] = "idle"]
        /\ UNCHANGED <<stage, context, clock, driver, reply>>
        /\ c # d => request'[c] = request[c]
    BY <1>2 DEF Press
  <2> QED
    BY <2>1
<1>3. ASSUME NEW d \in Calls, ServiceLost(d)
      PROVE  /\ HasEnd(c)'
             /\ place[c] = "calling" /\ Moves(c) => StepsLeft(c)' < StepsLeft(c)
  BY <1>3 DEF ServiceLost, Return
<1>4. ASSUME TabStep, ~\E d \in Calls : Press(d) \/ ServiceLost(d)
      PROVE  UNCHANGED vars
  BY <1>4 DEF TabStep, SetIndex, SetNumber, EditCell, load_words_from_file, save_words_to_file,
              load_words_from_binary_file, save_words_to_binary_file,
              reset_parameters_to_defaults, Edit, Show
<1> QED
  BY <1>1, <1>2, <1>3, <1>4 DEF TabQuiet, allVars

\* A call of the tab or of another client returns after at most twenty steps,
\* two driver calls of GetStatus included: whatever the driver does or leaves
\* undone, the call has an answer or a deadline that has not passed.
THEOREM CallIsBounded == TabSpec => []AllHaveEnd /\ CallCountsDown
<1> DEFINE Down(c) == place[c] = "calling" /\ Moves(c) => StepsLeft(c)' < StepsLeft(c)
<1>1. TabInit => AllHaveEnd
  BY DEF TabInit, AllHaveEnd, HasEnd
<1>2. ASSUME TabInv, AllHaveEnd, [TabNext]_allVars, NEW c \in Calls
      PROVE  HasEnd(c)' /\ Down(c)
  <2>1. CommandsInv /\ HasEnd(c)
    BY <1>2 DEF TabInv, AllHaveEnd
  <2>2. CASE CallStep(c)
    BY <2>1, <2>2, CallStepEnds DEF CallStep
  <2>3. ASSUME NEW d \in Calls, d # c, CallStep(d)
        PROVE  HasEnd(c)' /\ Down(c)
    <3>1. ~Moves(c) /\ request'[c] = request[c]
      BY <2>1, <2>3, StepsApart DEF CallStep
    <3> QED
      BY <2>1, <3>1 DEF HasEnd, Moves, Limit, KK, Method
  <2>4. CASE TabStep \/ TabQuiet \/ UNCHANGED allVars
    BY <2>1, <2>4, TabStepEnds
  <2> QED
    BY <1>2, <2>2, <2>3, <2>4 DEF TabNext
<1>3. TabInv /\ AllHaveEnd /\ [TabNext]_allVars => AllHaveEnd'
  BY <1>2 DEF AllHaveEnd
<1>4. TabInv /\ AllHaveEnd /\ [TabNext]_allVars => [\A c \in Calls : Down(c)]_allVars
  BY <1>2
<1>5. [][\A c \in Calls : Down(c)]_allVars => CallCountsDown
  BY DEF CallCountsDown
<1> HIDE DEF Down
<1> QED
  BY <1>1, <1>3, <1>4, <1>5, TabInductive, PTL DEF TabSpec
=============================================================================
