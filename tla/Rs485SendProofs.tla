--------------------------- MODULE Rs485SendProofs ---------------------------
(***************************************************************************)
(* What a press of the RS-485 tab transmits and what its caller is told,   *)
(* for any number of tabs and other callers, any texts and files, any      *)
(* answers of the driver and any deaths.                                   *)
(***************************************************************************)
EXTENDS Rs485SendProps, TLAPS

\* The request's way to the driver.  What came back is no success before the
\* driver has transmitted.
OnTheWire(c) ==
  /\ transmitted[c] \in {<< >>, <<asked[c]>>}
  /\ wire[c] \in {"none", "sent"} => transmitted[c] = << >>
  /\ wire[c] = "transmitted" => transmitted[c] = <<asked[c]>>
  /\ reply[c].response.success => transmitted[c] = <<asked[c]>>
  /\ wire[c] \in {"sent", "transmitted"} => ~reply[c].response.success
  /\ wire[c] \in {"sent", "transmitted", "answered"} =>
       stage[c] = "driver" /\ reply[c].status = "none"

\* Before the request is written there is nothing.
NotYet(c) ==
  stage[c] \in {"none", "service"} =>
    /\ wire[c] = "none" /\ transmitted[c] = << >>
    /\ reply[c].status = "none" /\ ~reply[c].response.success

\* What the service says of what it got.
Verdict(c) ==
  stage[c] = "answer" =>
    /\ response[c].success =>
         Accepted(reply[c]) /\ response[c].channel = reply[c].response.channel
    /\ ~response[c].success /\ calm[c] => ~Accepted(reply[c])
    /\ response[c].code = "INVALID_DATA" /\ ~response[c].success => wire[c] = "none"
    /\ response[c].code = "NO_ERROR" /\ ~response[c].success => ~reply[c].response.success

CallInv(c) == OnTheWire(c) /\ NotYet(c) /\ Verdict(c)

\* The form shows a file or bytes, and during the call what the call carries.
FormInv(g) ==
  /\ path[g] # NoFile => typed[g] = << >>
  /\ stage[g] # "none" =>
       /\ asked[g] = [channel |-> channel[g], data |-> Bytes(g)]
       /\ Bytes(g) # Nothing

SendInv ==
  /\ TypeOK
  /\ \A c \in Callers : CallInv(c)
  /\ \A g \in Tabs : FormInv(g)

-----------------------------------------------------------------------------
(* Lemmas about the operators.                                             *)

\* What the GUI's client sends is bytes.
LEMMA BytesAreBytes ==
  ASSUME TypeOK, NEW g \in Tabs
  PROVE  Bytes(g) \in Seq(Byte)
<1>1. CASE path[g] # NoFile
  BY <1>1, ContentsAssumption DEF TypeOK, Bytes, sendDataFromFile, Nothing
<1>2. CASE path[g] = NoFile
  <2>1. CASE typed[g] = << >>
    BY <1>2, <2>1 DEF Bytes, sendData, Nothing
  <2>2. CASE typed[g] \in Texts
    <3> DEFINE t == typed[g]
    <3>1. t \in Seq({t[k] : k \in DOMAIN t})
      BY <2>2, TextsAssumption
    <3>2. /\ DOMAIN t = 1..Len(t) /\ Len(t) \in Nat
          /\ t = [k \in 1..Len(t) |-> t[k]]
      BY <3>1
    <3>3. CASE \A k \in 1..Len(t) : t[k] \in Byte
      <4>1. t \in [1..Len(t) -> Byte]
        BY <3>2, <3>3
      <4>2. t \in Seq(Byte)
        BY <3>2, <4>1
      <4> QED
        BY <1>2, <3>3, <4>2 DEF Bytes, sendData
    <3>4. CASE ~\A k \in 1..Len(t) : t[k] \in Byte
      <4>1. Bytes(g) = << >>
        BY <1>2, <3>4 DEF Bytes, sendData, Nothing
      <4> QED
        BY <4>1
    <3> QED
      BY <3>3, <3>4
  <2> QED
    BY <2>1, <2>2 DEF TypeOK
<1> QED
  BY <1>1, <1>2

\* They depend on the form alone.
LEMMA BytesKeep ==
  ASSUME UNCHANGED <<disk, path, typed>>, NEW g
  PROVE  Bytes(g)' = Bytes(g)
BY DEF Bytes, sendData, sendDataFromFile, Nothing

\* A code is never the one of the validation, and is NO_ERROR only for an
\* answer without an error.
LEMMA CodesAreTrue ==
  ASSUME NEW r \in Replies
  PROVE  /\ Code(r) \in Codes /\ Code(r) # "INVALID_DATA"
         /\ Code(r) = "NO_ERROR" /\ ~Accepted(r) => ~r.response.success
<1>1. serviceCodeFromGrpcError(r.status)
        \in {"DRIVER_NOT_CONNECTED", "DRIVER_TIMEOUT", "INTERNAL_ERROR", "DRIVER_ERROR"}
  BY DEF serviceCodeFromGrpcError
<1>2. /\ serviceCodeFromDriverError(r.response.error)
           \in {"NO_ERROR", "DRIVER_NO_REPLY", "DRIVER_TIMEOUT", "DRIVER_ERROR"}
      /\ serviceCodeFromDriverError(r.response.error) = "NO_ERROR" => r.response.error = "NO_ERROR"
  BY DEF serviceCodeFromDriverError
<1>3. CASE r.status # "OK"
  BY <1>1, <1>3 DEF Code, Codes
<1>4. CASE r.status = "OK" /\ r.response = Silence
  BY <1>4 DEF Code, Codes
<1>5. CASE r.status = "OK" /\ r.response # Silence
  BY <1>2, <1>5 DEF Code, Codes, Accepted, Replies
<1> QED
  BY <1>3, <1>4, <1>5

\* Whatever the driver answers is a reply, with a status.
LEMMA AnswersAreReplies ==
  ASSUME NEW c, asked[c] \in Requests, NEW a \in Answers(c)
  PROVE  a \in Replies /\ a.status # "none"
<1>1. asked[c].channel \in Channels \union {r.channel : r \in RawRequests}
  BY DEF Requests
<1>2. asked[c].channel \in Int
  BY <1>1, ChannelsAssumption, RawAssumption
<1>3. CASE a \in OddAnswers[asked[c].channel]
  BY <1>1, <1>3, AnswersAssumption
<1>4. CASE a = FakeRs485Driver(asked[c].channel)
  BY <1>2, <1>4 DEF FakeRs485Driver, Says, Silence, Replies, PultErrors, GrpcStatus
<1> QED
  BY <1>3, <1>4 DEF Answers

-----------------------------------------------------------------------------
(* A step concerns one call, and the others stay as they are.              *)

Same(c) ==
  /\ asked'[c] = asked[c] /\ stage'[c] = stage[c] /\ wire'[c] = wire[c]
  /\ transmitted'[c] = transmitted[c] /\ reply'[c] = reply[c] /\ response'[c] = response[c]
  /\ calm'[c] => calm[c]

LEMMA SameKeeps ==
  ASSUME SendInv, NEW c \in Callers, Same(c)
  PROVE  CallInv(c)'
BY DEF SendInv, Same, TypeOK, Replies, CallInv, OnTheWire, NotYet, Verdict, Accepted

\* The form stays what it is while a call carries it.
LEMMA FormKeeps ==
  ASSUME SendInv, UNCHANGED <<disk, path, typed, channel>>,
         \A g \in Tabs : stage'[g] # "none" => stage[g] # "none" /\ asked'[g] = asked[g]
  PROVE  \A g \in Tabs : FormInv(g)'
<1>1. SUFFICES ASSUME NEW g \in Tabs PROVE FormInv(g)'
  OBVIOUS
<1>2. Bytes(g)' = Bytes(g)
  BY BytesKeep
<1> QED
  BY <1>2 DEF SendInv, FormInv, Nothing

LEMMA OneCall ==
  ASSUME SendInv, TypeOK', UNCHANGED <<disk, path, typed, channel>>, NEW c \in Callers,
         CallInv(c)', \A d \in Callers \ {c} : Same(d),
         stage'[c] # "none" => stage[c] # "none" /\ asked'[c] = asked[c]
  PROVE  SendInv'
<1>1. \A d \in Callers : CallInv(d)'
  BY SameKeeps
<1>2. \A g \in Tabs : stage'[g] # "none" => stage[g] # "none" /\ asked'[g] = asked[g]
  BY DEF Same, Callers
<1> QED
  BY <1>1, <1>2, FormKeeps DEF SendInv

-----------------------------------------------------------------------------
(* The steps.                                                              *)

LEMMA InitSend == Init => SendInv
<1> SUFFICES ASSUME Init PROVE SendInv
  OBVIOUS
<1>1. TypeOK
  <2>1. NoCall \in Requests /\ << >> \in Seq(Requests)
    BY ChannelsAssumption DEF NoCall, Requests
  <2>2. NoReply \in Replies
    BY DEF NoReply, Silence, Says, Replies
  <2>3. NoResponse \in [success : BOOLEAN, channel : Int, code : Codes]
    BY DEF NoResponse, Codes
  <2>4. NoEntry \in [source : Files \union {NoFile}, data : Texts \union {<< >>},
                    channel : Int, success : BOOLEAN]
    BY DEF NoEntry
  <2> QED
    BY <2>1, <2>2, <2>3, <2>4, ChannelsAssumption DEF Init, TypeOK
<1>2. \A c \in Callers : CallInv(c)
  BY DEF Init, CallInv, OnTheWire, NotYet, Verdict, NoReply, Silence, Says
<1>3. \A g \in Tabs : FormInv(g)
  BY DEF Init, FormInv, Callers
<1> QED
  BY <1>1, <1>2, <1>3 DEF SendInv

LEMMA EditKeeps ==
  ASSUME SendInv, NEW g \in Tabs,
         connect_to_microservice(g) \/ textEdited(g) \/ SetChannel(g) \/ on_browse_clicked(g)
  PROVE  SendInv'
<1>1. /\ UNCHANGED <<disk, call, alive, log>>
      /\ \A h \in Tabs \ {g} : path'[h] = path[h] /\ typed'[h] = typed[h] /\ channel'[h] = channel[h]
      /\ path'[g] # NoFile => typed'[g] = << >>
      /\ stage[g] # "none" => UNCHANGED <<path, typed, channel>>
  BY DEF SendInv, TypeOK, FormInv, connect_to_microservice, textEdited, Edit, SetChannel,
         on_browse_clicked
<1>2. TypeOK'
  <2>1. CASE connect_to_microservice(g)
    BY <2>1 DEF SendInv, TypeOK, connect_to_microservice, call, alive
  <2>2. CASE textEdited(g)
    BY <2>2 DEF SendInv, TypeOK, textEdited, Edit, call, alive
  <2>3. CASE SetChannel(g)
    BY <2>3 DEF SendInv, TypeOK, SetChannel, Edit, call, alive
  <2>4. CASE on_browse_clicked(g)
    BY <2>4 DEF SendInv, TypeOK, on_browse_clicked, call, alive
  <2> QED
    BY <2>1, <2>2, <2>3, <2>4
<1>3. \A c \in Callers : CallInv(c)'
  <2>1. \A c \in Callers : Same(c)
    BY <1>1 DEF Same, call
  <2> QED
    BY <2>1, SameKeeps
<1>4. \A h \in Tabs : FormInv(h)'
  <2>1. SUFFICES ASSUME NEW h \in Tabs PROVE FormInv(h)'
    OBVIOUS
  <2>2. CASE stage[h] = "none"
    BY <1>1, <2>2 DEF SendInv, FormInv, call
  <2>3. CASE stage[h] # "none"
    <3>1. Bytes(h)' = Bytes(h)
      <4>1. disk' = disk /\ path'[h] = path[h] /\ typed'[h] = typed[h]
        BY <1>1, <2>3
      <4> QED
        BY <4>1 DEF Bytes, sendData, sendDataFromFile, Nothing
    <3> QED
      BY <1>1, <2>3, <3>1 DEF SendInv, FormInv, call, Nothing
  <2> QED
    BY <2>2, <2>3
<1> QED
  BY <1>2, <1>3, <1>4 DEF SendInv

LEMMA PressKeeps ==
  ASSUME SendInv, NEW g \in Tabs, on_send_clicked(g)
  PROVE  SendInv'
<1>1. UNCHANGED <<form, alive>> /\ stage[g] = "none" /\ g \in Callers
  BY DEF on_send_clicked, Callers
<1>2. CASE Bytes(g) = Nothing
  <2>1. UNCHANGED call /\ Throws(g)
    BY <1>2 DEF on_send_clicked
  <2>2. TypeOK'
    BY <1>1, <2>1, ChannelsAssumption DEF SendInv, TypeOK, Throws, Entry, form, call, alive
  <2>3. \A c \in Callers : Same(c)
    BY <2>1 DEF Same, call
  <2>4. CallInv(g)'
    BY <1>1, <2>3, SameKeeps
  <2> QED
    BY <1>1, <2>1, <2>2, <2>3, <2>4, OneCall DEF form, call
<1>3. CASE Bytes(g) # Nothing
  <2>1. Begin(g, channel[g], Bytes(g)) /\ log' = [log EXCEPT ![g] = NoEntry] /\ UNCHANGED label
    BY <1>3 DEF on_send_clicked
  <2>2. [channel |-> channel[g], data |-> Bytes(g)] \in Requests
    BY BytesAreBytes DEF SendInv, TypeOK, Requests
  <2>3. TypeOK'
    BY <1>1, <2>1, <2>2, ChannelsAssumption
    DEF SendInv, TypeOK, Begin, NoEntry, form, alive
  <2>4. CallInv(g)' /\ \A d \in Callers \ {g} : Same(d)
    BY <1>1, <2>1 DEF SendInv, TypeOK, Begin, CallInv, OnTheWire, NotYet, Verdict, Same
  <2>5. \A c \in Callers : CallInv(c)'
    BY <1>1, <2>4, SameKeeps
  <2>6. \A h \in Tabs : FormInv(h)'
    <3>1. SUFFICES ASSUME NEW h \in Tabs PROVE FormInv(h)'
      OBVIOUS
    <3>2. Bytes(h)' = Bytes(h)
      BY <1>1, BytesKeep DEF form
    <3> QED
      BY <1>1, <1>3, <2>1, <3>2 DEF SendInv, TypeOK, FormInv, Begin, form, Nothing, Callers
  <2> QED
    BY <2>3, <2>5, <2>6 DEF SendInv
<1> QED
  BY <1>2, <1>3

LEMMA OthersKeep ==
  ASSUME SendInv, NEW c \in Others, RawSend(c)
  PROVE  SendInv'
<1>1. PICK r \in RawRequests : Begin(c, r.channel, r.data)
  BY DEF RawSend
<1>2. UNCHANGED <<form, alive, label, log>> /\ stage[c] = "none" /\ c \in Callers
  BY DEF RawSend, Callers
<1>3. TypeOK'
  <2>1. [channel |-> r.channel, data |-> r.data] \in Requests
    BY RawAssumption DEF Requests
  <2> QED
    BY <1>1, <1>2, <2>1 DEF SendInv, TypeOK, Begin, form, alive
<1>4. CallInv(c)' /\ \A d \in Callers \ {c} : Same(d)
  BY <1>1, <1>2 DEF SendInv, TypeOK, Begin, CallInv, OnTheWire, NotYet, Verdict, Same
<1>5. \A d \in Callers : CallInv(d)'
  BY <1>2, <1>4, SameKeeps
<1>6. \A g \in Tabs : stage'[g] # "none" => stage[g] # "none" /\ asked'[g] = asked[g]
  BY <1>4, CallersAssumption DEF Same, Callers
<1> QED
  BY <1>2, <1>3, <1>5, <1>6, FormKeeps DEF SendInv, form

\* Steps of the service and the driver for one call.
LEMMA ServiceKeeps ==
  ASSUME SendInv, NEW c \in Callers, ServiceStep(c)
  PROVE  SendInv'
<1>1. /\ UNCHANGED <<form, asked, transmitted, calm, alive, label, log>>
      /\ stage[c] # "none"
      /\ \A d \in Callers \ {c} : Same(d)
  BY DEF SendInv, TypeOK, ServiceStep, NotServed, Rejects, Writes, Finishes, Finished, Respond, Same
<1>2. /\ calm[c] \in BOOLEAN /\ reply[c] \in Replies /\ asked[c].channel \in Int
      /\ response[c].success \in BOOLEAN
  <2>1. /\ calm[c] \in BOOLEAN /\ reply[c] \in Replies /\ asked[c] \in Requests
        /\ response[c] \in [success : BOOLEAN, channel : Int, code : Codes]
    BY DEF SendInv, TypeOK
  <2>2. asked[c].channel \in Channels \union {r.channel : r \in RawRequests}
    BY <2>1 DEF Requests
  <2> QED
    BY <2>1, <2>2, ChannelsAssumption, RawAssumption
<1>3. TypeOK' /\ CallInv(c)'
  <2>1. CASE NotServed(c)
    <3>1. TypeOK'
      BY <1>1, <1>2, <2>1 DEF SendInv, TypeOK, NotServed, Respond, Codes, form, alive
    <3>2. CallInv(c)'
      BY <2>1, <1>2 DEF SendInv, TypeOK, CallInv, OnTheWire, NotYet, Verdict, NotServed, Respond, Accepted
    <3> QED
      BY <3>1, <3>2
  <2>2. CASE Rejects(c)
    <3>1. TypeOK'
      BY <1>1, <1>2, <2>2 DEF SendInv, TypeOK, Rejects, Respond, Codes, form, alive
    <3>2. CallInv(c)'
      BY <2>2, <1>2 DEF SendInv, TypeOK, CallInv, OnTheWire, NotYet, Verdict, Rejects, Respond, Accepted
    <3> QED
      BY <3>1, <3>2
  <2>3. CASE Writes(c)
    <3> DEFINE lost == [response |-> Silence, status |-> "UNAVAILABLE"]
    <3>0. lost \in Replies /\ lost.response.success = FALSE
      BY DEF Replies, GrpcStatus, PultErrors, Silence, Says
    <3>1. CASE up
      <4>1. /\ stage' = [stage EXCEPT ![c] = "driver"] /\ wire' = [wire EXCEPT ![c] = "sent"]
            /\ UNCHANGED <<form, asked, transmitted, reply, response, calm, alive, label, log>>
        BY <2>3, <3>1 DEF Writes
      <4>2. TypeOK'
        BY <4>1 DEF SendInv, TypeOK, form, alive
      <4>3. reply[c].status = "none" /\ ~reply[c].response.success /\ transmitted[c] = << >>
        BY <2>3 DEF SendInv, CallInv, NotYet, Writes
      <4>4. CallInv(c)'
        BY <4>1, <4>3 DEF SendInv, TypeOK, CallInv, OnTheWire, NotYet, Verdict
      <4> QED
        BY <4>2, <4>4
    <3>2. CASE ~up
      <4>1. /\ stage' = [stage EXCEPT ![c] = "driver"] /\ reply' = [reply EXCEPT ![c] = lost]
            /\ UNCHANGED <<form, asked, wire, transmitted, response, calm, alive, label, log>>
        BY <2>3, <3>2 DEF Writes
      <4>2. wire[c] = "none" /\ transmitted[c] = << >>
        BY <2>3 DEF SendInv, CallInv, NotYet, Writes
      <4> HIDE DEF lost
      <4>3. TypeOK'
        BY <3>0, <4>1 DEF SendInv, TypeOK, form, alive
      <4>4. CallInv(c)'
        BY <3>0, <4>1, <4>2 DEF SendInv, TypeOK, CallInv, OnTheWire, NotYet, Verdict
      <4> QED
        BY <4>3, <4>4
    <3> QED
      BY <3>1, <3>2
  <2>4. CASE Finishes(c)
    <3>0. /\ stage[c] = "driver" /\ wire[c] \notin {"sent", "transmitted", "answered"}
          /\ UNCHANGED <<form, asked, wire, transmitted, reply, calm, alive, label, log>>
      BY <2>4 DEF Finishes, Finished, SendInv, CallInv, OnTheWire
    <3>1. CASE Accepted(reply[c])
      <4>1. Respond(c, TRUE, reply[c].response.channel, "NO_ERROR")
        BY <2>4, <3>1 DEF Finishes
      <4>2. TypeOK'
        BY <3>0, <4>1, <1>2 DEF SendInv, TypeOK, Respond, Codes, form, alive, Replies
      <4>3. CallInv(c)'
        BY <3>0, <3>1, <4>1, <1>2 DEF SendInv, TypeOK, CallInv, OnTheWire, NotYet, Verdict, Respond, Accepted
      <4> QED
        BY <4>2, <4>3
    <3>2. CASE ~Accepted(reply[c])
      <4>1. Respond(c, FALSE, asked[c].channel, Code(reply[c]))
        BY <2>4, <3>2 DEF Finishes
      <4>2. /\ Code(reply[c]) \in Codes /\ Code(reply[c]) # "INVALID_DATA"
            /\ Code(reply[c]) = "NO_ERROR" => ~reply[c].response.success
        BY <1>2, <3>2, CodesAreTrue
      <4>3. TypeOK'
        BY <3>0, <4>1, <4>2, <1>2 DEF SendInv, TypeOK, Respond, form, alive
      <4>4. CallInv(c)'
        BY <3>0, <3>2, <4>1, <4>2, <1>2 DEF SendInv, TypeOK, CallInv, OnTheWire, NotYet, Verdict, Respond, Accepted
      <4> QED
        BY <4>3, <4>4
    <3> QED
      BY <3>1, <3>2
  <2> QED
    BY <2>1, <2>2, <2>3, <2>4 DEF ServiceStep
<1> QED
  BY <1>1, <1>3, OneCall DEF form

LEMMA DriverKeeps ==
  ASSUME SendInv, NEW c \in Callers, DriverStep(c)
  PROVE  SendInv'
<1>1. /\ UNCHANGED <<form, asked, stage, response, calm, alive, label, log>>
      /\ \A d \in Callers \ {c} : Same(d)
      /\ stage[c] = "driver"
  BY DEF SendInv, TypeOK, CallInv, OnTheWire, DriverStep, DriverTransmits, DriverAnswers, DriverEnds, Same
<1>2. reply[c] \in Replies /\ asked[c] \in Requests /\ transmitted[c] \in Seq(Requests)
  BY DEF SendInv, TypeOK
<1>3. CASE DriverTransmits(c)
  <2>0. transmitted[c] = << >> /\ wire[c] = "sent"
    BY <1>3 DEF SendInv, CallInv, OnTheWire, DriverTransmits
  <2>1. Append(transmitted[c], asked[c]) = <<asked[c]>>
    BY <1>2, <2>0
  <2>2. TypeOK'
    BY <1>1, <1>2, <1>3 DEF SendInv, TypeOK, DriverTransmits, form, alive
  <2>3. CallInv(c)'
    BY <1>1, <1>3, <2>0, <2>1 DEF SendInv, TypeOK, CallInv, OnTheWire, NotYet, Verdict, DriverTransmits
  <2> QED
    BY <1>1, <2>2, <2>3, OneCall DEF form
<1>4. CASE DriverAnswers(c)
  <2>1. PICK a \in Answers(c) :
          /\ wire[c] = "sent" => a \in OddAnswers[asked[c].channel] /\ ~a.response.success
          /\ reply' = [reply EXCEPT ![c].response = a.response]
    BY <1>4 DEF DriverAnswers
  <2>2. a \in Replies
    BY <1>2, AnswersAreReplies
  <2>3. TypeOK'
    <3>1. [reply[c] EXCEPT !.response = a.response] \in Replies
      BY <1>2, <2>2 DEF Replies
    <3>2. reply' \in [Callers -> Replies]
      BY <2>1, <3>1 DEF SendInv, TypeOK
    <3> QED
      BY <1>1, <1>4, <3>2 DEF SendInv, TypeOK, DriverAnswers, form, alive
  <2>4. CallInv(c)'
    BY <1>1, <1>2, <1>4, <2>1, <2>2 DEF SendInv, TypeOK, CallInv, OnTheWire, NotYet, Verdict,
                                        DriverAnswers, Replies
  <2> QED
    BY <1>1, <2>3, <2>4, OneCall DEF form
<1>5. CASE DriverEnds(c)
  <2>1. PICK a \in Answers(c) : reply' = [reply EXCEPT ![c].status = a.status]
    BY <1>5 DEF DriverEnds
  <2>2. a \in Replies
    BY <1>2, AnswersAreReplies
  <2>3. TypeOK'
    <3>1. [reply[c] EXCEPT !.status = a.status] \in Replies
      BY <1>2, <2>2 DEF Replies
    <3>2. reply' \in [Callers -> Replies]
      BY <2>1, <3>1 DEF SendInv, TypeOK
    <3> QED
      BY <1>1, <1>5, <3>2 DEF SendInv, TypeOK, DriverEnds, form, alive
  <2>4. CallInv(c)'
    BY <1>1, <1>2, <1>5, <2>1, <2>2 DEF SendInv, TypeOK, CallInv, OnTheWire, NotYet, Verdict,
                                        DriverEnds, Replies
  <2> QED
    BY <1>1, <2>3, <2>4, OneCall DEF form
<1> QED
  BY <1>3, <1>4, <1>5 DEF DriverStep

\* A death changes every call at once.
LEMMA DeathKeeps ==
  ASSUME SendInv, DriverDies \/ ServiceDies
  PROVE  SendInv'
<1>1. UNCHANGED <<form, asked, label, log>>
  BY DEF DriverDies, ServiceDies
<1>2. calm' = [c \in Callers |-> FALSE]
      /\ wire' = [c \in Callers |-> IF c \in Outstanding THEN "lost" ELSE wire[c]]
  BY DEF DriverDies, ServiceDies
<1>d. /\ wire' \in [Callers -> {"none", "sent", "transmitted", "answered", "ended", "lost"}]
      /\ calm' \in [Callers -> BOOLEAN]
  BY <1>2 DEF SendInv, TypeOK
<1>3. CASE DriverDies
  <2>1. /\ UNCHANGED <<stage, transmitted, response>>
        /\ reply' = [c \in Callers |->
             IF c \in Outstanding THEN [reply[c] EXCEPT !.status = "UNAVAILABLE"] ELSE reply[c]]
    BY <1>3 DEF DriverDies
  <2>2. reply' \in [Callers -> Replies]
        /\ \A c \in Callers : reply'[c].response = reply[c].response
    <3>1. ASSUME NEW c \in Callers
          PROVE  /\ [reply[c] EXCEPT !.status = "UNAVAILABLE"] \in Replies
                 /\ [reply[c] EXCEPT !.status = "UNAVAILABLE"].response = reply[c].response
                 /\ reply[c] \in Replies
      <4>1. reply[c] \in Replies
        BY DEF SendInv, TypeOK
      <4> QED
        BY <4>1 DEF Replies, GrpcStatus
    <3> QED
      BY <2>1, <3>1
  <2>3. TypeOK'
    <3>1. UNCHANGED <<stage, transmitted, response>> /\ serving' \in BOOLEAN /\ up' \in BOOLEAN
          /\ faults' \in Nat
      <4>1. serving \in BOOLEAN /\ faults \in Nat
        BY DEF SendInv, TypeOK
      <4>2. up' = FALSE /\ serving' = serving /\ faults' = faults + 1
        BY <1>3 DEF DriverDies
      <4>3. faults' \in Nat
        BY <4>1, <4>2
      <4>4. serving' \in BOOLEAN /\ up' \in BOOLEAN
        BY ONLY <4>1, <4>2, Zenon
      <4> QED
        BY <2>1, <4>3, <4>4
    <3> QED
      BY <1>1, <1>d, <2>2, <3>1 DEF SendInv, TypeOK, form
  <2>4. ASSUME NEW c \in Callers PROVE CallInv(c)'
    <3>1. CASE c \in Outstanding
      BY <1>1, <1>2, <2>1, <2>2, <3>1
      DEF SendInv, TypeOK, CallInv, OnTheWire, NotYet, Verdict, Outstanding
    <3>2. CASE c \notin Outstanding
      BY <1>1, <1>2, <2>1, <2>2, <3>2
      DEF SendInv, TypeOK, CallInv, OnTheWire, NotYet, Verdict, Outstanding, Accepted
    <3> QED
      BY <3>1, <3>2
  <2> QED
    BY <1>1, <2>1, <2>3, <2>4, FormKeeps DEF SendInv, form, Callers
<1>4. CASE ServiceDies
  <2>1. /\ reply' = reply
        /\ stage' = [c \in Callers |-> IF stage[c] = "none" THEN "none" ELSE "answer"]
        /\ response' = [c \in Callers |->
             IF stage[c] \in {"service", "driver"}
             THEN [success |-> FALSE, channel |-> asked[c].channel, code |-> "STATUS"]
             ELSE response[c]]
    BY <1>4 DEF ServiceDies
  <2>2. PICK late \in SUBSET {c \in Callers : wire[c] = "sent"} :
          transmitted' = [c \in Callers |->
            IF c \in late THEN Append(transmitted[c], asked[c]) ELSE transmitted[c]]
    BY <1>4 DEF ServiceDies
  <2>3. ASSUME NEW c \in Callers
        PROVE  asked[c].channel \in Int /\ Append(transmitted[c], asked[c]) \in Seq(Requests)
    <3>1. asked[c] \in Requests /\ transmitted[c] \in Seq(Requests)
      BY DEF SendInv, TypeOK
    <3>2. asked[c].channel \in Channels \union {r.channel : r \in RawRequests}
      BY <3>1 DEF Requests
    <3>3. asked[c].channel \in Int
      BY <3>2, ChannelsAssumption, RawAssumption
    <3> QED
      BY ONLY <3>1, <3>3
  <2>4. TypeOK'
    <3>1. response' \in [Callers -> [success : BOOLEAN, channel : Int, code : Codes]]
      BY <2>1, <2>3 DEF SendInv, TypeOK, Codes
    <3>2. transmitted' \in [Callers -> Seq(Requests)]
      BY <2>2, <2>3 DEF SendInv, TypeOK
    <3>3. stage' \in [Callers -> {"none", "service", "driver", "answer"}]
      BY <2>1 DEF SendInv, TypeOK
    <3>4. reply' = reply /\ serving' \in BOOLEAN /\ up' \in BOOLEAN /\ faults' \in Nat
      <4>1. up \in BOOLEAN /\ faults \in Nat
        BY DEF SendInv, TypeOK
      <4>2. serving' = FALSE /\ up' = up /\ faults' = faults + 1
        BY <1>4 DEF ServiceDies
      <4>3. faults' \in Nat
        BY <4>1, <4>2
      <4>4. serving' \in BOOLEAN /\ up' \in BOOLEAN
        BY ONLY <4>1, <4>2, Zenon
      <4> QED
        BY <2>1, <4>3, <4>4
    <3> QED
      BY <1>1, <1>d, <3>1, <3>2, <3>3, <3>4 DEF SendInv, TypeOK, form
  <2>5. ASSUME NEW c \in Callers PROVE CallInv(c)'
    <3>1. CallInv(c) /\ stage[c] \in {"none", "service", "driver", "answer"}
      BY DEF SendInv, TypeOK
    <3>2. wire[c] = "sent" => Append(transmitted[c], asked[c]) = <<asked[c]>>
      <4>1. wire[c] = "sent" => transmitted[c] = << >>
        BY <3>1 DEF CallInv, OnTheWire
      <4>2. asked[c] \in Requests
        BY DEF SendInv, TypeOK
      <4>3. CASE transmitted[c] = << >>
        <5> DEFINE r == asked[c]
        <5>1. Append(<< >>, r) = <<r>>
          BY <4>2
        <5> QED
          BY <4>3, <5>1
      <4> QED
        BY <4>1, <4>3
    <3>3. /\ transmitted'[c] \in {<< >>, <<asked'[c]>>}
          /\ wire[c] # "sent" => transmitted'[c] = transmitted[c]
      BY <1>1, <2>2, <3>1, <3>2 DEF CallInv, OnTheWire
    <3>4. wire'[c] = IF wire[c] \in {"sent", "transmitted", "answered"} THEN "lost" ELSE wire[c]
      BY <1>2 DEF SendInv, TypeOK, Outstanding
    <3>5. reply'[c] = reply[c] /\ asked'[c] = asked[c] /\ ~calm'[c]
      BY <1>1, <1>2, <2>1
    <3>6. CASE stage[c] \in {"service", "driver"}
      <4>1. stage'[c] = "answer" /\ response'[c].success = FALSE /\ response'[c].code = "STATUS"
        BY <2>1, <3>6
      <4> QED
        BY <3>1, <3>3, <3>4, <3>5, <3>6, <4>1 DEF CallInv, OnTheWire, NotYet, Verdict
    <3>7. CASE stage[c] \in {"none", "answer"}
      <4>1. stage'[c] = stage[c] /\ response'[c] = response[c]
        BY <2>1, <3>7
      <4> QED
        BY <3>1, <3>3, <3>4, <3>5, <3>7, <4>1 DEF CallInv, OnTheWire, NotYet, Verdict, Accepted
    <3> QED
      BY <3>1, <3>6, <3>7
  <2>6. \A g \in Tabs : stage'[g] # "none" => stage[g] # "none" /\ asked'[g] = asked[g]
    BY <1>1, <2>1 DEF Callers
  <2> QED
    BY <1>1, <2>4, <2>5, <2>6, FormKeeps DEF SendInv, form
<1> QED
  BY <1>3, <1>4

LEMMA AnswerKeeps ==
  ASSUME SendInv, NEW c \in Callers, Over(c),
         (c \in Tabs /\ Show(c)) \/ UNCHANGED <<label, log>>
  PROVE  SendInv'
<1>1. UNCHANGED <<form, alive>> /\ \A d \in Callers \ {c} : Same(d)
  BY DEF SendInv, TypeOK, Over, Same
<1>2. /\ NoCall \in Requests /\ << >> \in Seq(Requests) /\ NoReply \in Replies
      /\ NoResponse \in [success : BOOLEAN, channel : Int, code : Codes]
      /\ NoReply.status = "none" /\ ~NoReply.response.success
  BY ChannelsAssumption DEF NoCall, NoReply, NoResponse, Requests, Replies, Silence, Says, Codes
<1>3. /\ label' \in [Tabs -> {"none", "chosen", "exception", "sent", "error"}]
      /\ log' \in [Tabs -> [source : Files \union {NoFile}, data : Texts \union {<< >>},
                          channel : Int, success : BOOLEAN]]
  <2>1. CASE c \in Tabs /\ Show(c)
    <3>1. response[c] \in [success : BOOLEAN, channel : Int, code : Codes]
      BY DEF SendInv, TypeOK
    <3>2. CASE response[c].code = "STATUS"
      <4>1. Throws(c)
        BY <2>1, <3>2 DEF Show
      <4>2. Entry(c, channel[c], << >>, FALSE)
              \in [source : Files \union {NoFile}, data : Texts \union {<< >>},
                  channel : Int, success : BOOLEAN]
        BY <2>1, ChannelsAssumption DEF SendInv, TypeOK, Entry
      <4> QED
        BY <4>1, <4>2 DEF SendInv, TypeOK, Throws
    <3>3. CASE response[c].code # "STATUS"
      <4> DEFINE entry == Entry(c, response[c].channel,
                                IF path[c] # NoFile THEN << >> ELSE typed[c], response[c].success)
      <4>1. /\ label' = [label EXCEPT ![c] = IF response[c].success THEN "sent" ELSE "error"]
            /\ log' = [log EXCEPT ![c] = entry]
        BY <2>1, <3>3 DEF Show
      <4>2. entry \in [source : Files \union {NoFile}, data : Texts \union {<< >>},
                      channel : Int, success : BOOLEAN]
        BY <2>1, <3>1 DEF SendInv, TypeOK, Entry
      <4> HIDE DEF entry
      <4>3. (IF response[c].success THEN "sent" ELSE "error") \in {"sent", "error"}
        OBVIOUS
      <4> QED
        BY <4>1, <4>2, <4>3 DEF SendInv, TypeOK
    <3> QED
      BY <3>2, <3>3
  <2>2. CASE UNCHANGED <<label, log>>
    BY <2>2 DEF SendInv, TypeOK
  <2> QED
    BY <2>1, <2>2
<1>4. TypeOK'
  BY <1>1, <1>2, <1>3 DEF SendInv, TypeOK, Over, form, alive
<1>5. CallInv(c)'
  BY <1>2 DEF SendInv, TypeOK, Over, CallInv, OnTheWire, NotYet, Verdict
<1>6. stage'[c] = "none"
  BY DEF SendInv, TypeOK, Over
<1> QED
  BY <1>1, <1>4, <1>5, <1>6, OneCall DEF form

LEMMA SendStep == SendInv /\ [Next]_vars => SendInv'
<1> SUFFICES ASSUME SendInv, [Next]_vars PROVE SendInv'
  OBVIOUS
<1>1. CASE \E g \in Tabs : connect_to_microservice(g) \/ textEdited(g) \/ SetChannel(g)
                          \/ on_browse_clicked(g)
  BY <1>1, EditKeeps
<1>2. CASE \E g \in Tabs : on_send_clicked(g)
  BY <1>2, PressKeeps
<1>3. CASE \E g \in Tabs : Show(g)
  BY <1>3, AnswerKeeps DEF Show, Callers
<1>4. CASE \E c \in Others : RawSend(c)
  BY <1>4, OthersKeep
<1>5. CASE \E c \in Others : OtherGets(c)
  BY <1>5, AnswerKeeps DEF OtherGets, Callers
<1>6. CASE \E c \in Callers : ServiceStep(c)
  BY <1>6, ServiceKeeps
<1>7. CASE \E c \in Callers : DriverStep(c)
  BY <1>7, DriverKeeps
<1>8. CASE DriverDies \/ ServiceDies
  BY <1>8, DeathKeeps
<1>9. CASE DriverStarts \/ ServiceStarts \/ UNCHANGED vars
  <2>1. UNCHANGED <<form, call, label, log, faults>> /\ serving' \in BOOLEAN /\ up' \in BOOLEAN
    BY <1>9 DEF DriverStarts, ServiceStarts, vars, alive, SendInv, TypeOK
  <2>2. TypeOK'
    BY <2>1 DEF SendInv, TypeOK, form, call
  <2>3. \A c \in Callers : Same(c)
    BY <2>1 DEF Same, call
  <2>4. \A c \in Callers : CallInv(c)'
    BY <2>3, SameKeeps
  <2> QED
    BY <2>1, <2>2, <2>4, FormKeeps DEF SendInv, form, call
<1> QED
  BY <1>1, <1>2, <1>3, <1>4, <1>5, <1>6, <1>7, <1>8, <1>9 DEF Next

-----------------------------------------------------------------------------
(* The theorems.                                                           *)

\* Every variable has its type, whatever dies and whoever else calls.
THEOREM TypeCorrect == Spec => []TypeOK
<1>1. SendInv => TypeOK
  BY DEF SendInv
<1> QED
  BY <1>1, InitSend, SendStep, PTL DEF Spec

\* A press transmits at most once, and a refused one nothing.
THEOREM AlwaysOncePerPress == Spec => []OncePerPress
<1>1. SendInv => OncePerPress
  <2> SUFFICES ASSUME SendInv PROVE OncePerPress
    OBVIOUS
  <2>1. ASSUME NEW c \in Callers PROVE Len(transmitted[c]) <= 1
    <3>1. transmitted[c] \in {<< >>, <<asked[c]>>}
      BY DEF SendInv, CallInv, OnTheWire
    <3>2. ASSUME NEW r PROVE Len(<< >>) <= 1 /\ Len(<<r>>) <= 1
      OBVIOUS
    <3> QED
      BY <3>1, <3>2
  <2> QED
    BY <2>1 DEF SendInv, CallInv, NotYet, OncePerPress
<1> QED
  BY <1>1, InitSend, SendStep, PTL DEF Spec

\* A failure is only reported of a call that the driver did not accept, or that
\* a death cut off.
THEOREM FailureIsAlwaysTrue == Spec => []FailureIsTrue
<1>1. SendInv => FailureIsTrue
  BY DEF SendInv, CallInv, Verdict, OnTheWire, FailureIsTrue
<1> QED
  BY <1>1, InitSend, SendStep, PTL DEF Spec

\* "Sent" means sent: once, on the channel and with the bytes of the form, and
\* accepted by the driver.
THEOREM SentIsAlwaysTrue == Spec => SentIsTrue
<1> DEFINE Truly(g) ==
      /\ transmitted[g] = <<[channel |-> channel[g], data |-> asked[g].data]>>
      /\ Accepted(reply[g])
      /\ asked[g].data = IF typed[g] # << >> THEN typed[g] ELSE disk[path[g]]
      /\ log'[g] = [source |-> path[g], data |-> typed[g], success |-> TRUE,
                    channel |-> reply[g].response.channel]
<1>1. SendInv /\ [Next]_vars => [\A g \in Tabs : Tells(g, "sent") => Truly(g)]_vars
  <2> SUFFICES ASSUME SendInv, Next, NEW g \in Tabs, Tells(g, "sent") PROVE Truly(g)
    BY DEF vars
  <2>1. g \in Callers /\ stage[g] = "answer" /\ stage'[g] = "none" /\ label'[g] = "sent"
    BY DEF Tells, Callers
  <2>2. Show(g)
    <3>1. ASSUME NEW c, ServiceStep(c) \/ DriverStep(c) PROVE stage'[g] # "none"
      BY <2>1, <3>1 DEF SendInv, TypeOK, ServiceStep, DriverStep, NotServed, Rejects, Writes,
                        Finishes, Respond, DriverTransmits, DriverAnswers, DriverEnds
    <3>2. ASSUME DriverDies \/ ServiceDies \/ DriverStarts \/ ServiceStarts
          PROVE  stage'[g] # "none"
      BY <2>1, <3>2 DEF DriverDies, ServiceDies, DriverStarts, ServiceStarts, call
    <3>3. ASSUME NEW h \in Tabs, connect_to_microservice(h) \/ textEdited(h) \/ SetChannel(h)
                                 \/ on_browse_clicked(h)
          PROVE  stage'[g] # "none"
      BY <2>1, <3>3 DEF connect_to_microservice, textEdited, SetChannel, Edit,
                        on_browse_clicked, call
    <3>4. ASSUME NEW h \in Tabs, on_send_clicked(h) PROVE stage'[g] # "none"
      BY <2>1, <3>4 DEF SendInv, TypeOK, on_send_clicked, Begin, call
    <3>5. ASSUME NEW c \in Others, RawSend(c) \/ OtherGets(c) PROVE stage'[g] # "none"
      <4>1. c # g
        BY CallersAssumption
      <4>2. stage'[g] = stage[g]
        BY <2>1, <3>5, <4>1 DEF SendInv, TypeOK, RawSend, Begin, OtherGets, Over
      <4> QED
        BY <2>1, <4>2
    <3>6. ASSUME NEW h \in Tabs, h # g, Show(h) PROVE stage'[g] # "none"
      BY <2>1, <3>6 DEF SendInv, TypeOK, Show, Over
    <3> QED
      BY <2>1, <3>1, <3>2, <3>3, <3>4, <3>5, <3>6 DEF Next
  <2>3. response[g] \in [success : BOOLEAN, channel : Int, code : Codes]
    BY <2>1 DEF SendInv, TypeOK
  <2>4. /\ response[g].success
        /\ log'[g] = Entry(g, response[g].channel,
                           IF path[g] # NoFile THEN << >> ELSE typed[g], response[g].success)
    <3>1. CASE response[g].code = "STATUS"
      BY <2>1, <2>2, <3>1 DEF Show, Throws, SendInv, TypeOK
    <3>2. CASE response[g].code # "STATUS"
      <4>1. /\ label' = [label EXCEPT ![g] = IF response[g].success THEN "sent" ELSE "error"]
            /\ log' = [log EXCEPT ![g] = Entry(g, response[g].channel,
                         IF path[g] # NoFile THEN << >> ELSE typed[g], response[g].success)]
        BY <2>2, <3>2 DEF Show
      <4>2. label'[g] = IF response[g].success THEN "sent" ELSE "error"
        BY <4>1 DEF SendInv, TypeOK
      <4>3. CASE response[g].success
        BY <4>1, <4>3 DEF SendInv, TypeOK
      <4>4. CASE ~response[g].success
        BY <2>1, <4>2, <4>4
      <4> QED
        BY <4>3, <4>4
    <3> QED
      BY <3>1, <3>2
  <2>5. Accepted(reply[g]) /\ response[g].channel = reply[g].response.channel
    BY <2>1, <2>4 DEF SendInv, CallInv, Verdict
  <2>6. transmitted[g] = <<asked[g]>>
    BY <2>1, <2>5 DEF SendInv, CallInv, OnTheWire, Accepted
  <2>7. /\ asked[g] = [channel |-> channel[g], data |-> Bytes(g)] /\ Bytes(g) # << >>
        /\ path[g] # NoFile => typed[g] = << >>
    BY <2>1 DEF SendInv, FormInv, Nothing
  <2>8. asked[g].data = IF typed[g] # << >> THEN typed[g] ELSE disk[path[g]]
    BY <2>7 DEF Bytes, sendData, sendDataFromFile, Nothing
  <2>9. log'[g] = [source |-> path[g], data |-> typed[g], success |-> TRUE,
                   channel |-> reply[g].response.channel]
    <3>1. response[g].success = TRUE
      BY <2>3, <2>4
    <3>2. (IF path[g] # NoFile THEN << >> ELSE typed[g]) = typed[g]
      BY <2>7
    <3> QED
      BY <2>4, <2>5, <3>1, <3>2 DEF Entry
  <2> QED
    BY <2>5, <2>6, <2>7, <2>8, <2>9
<1> HIDE DEF Truly
<1>2. [][\A g \in Tabs : Tells(g, "sent") => Truly(g)]_vars => SentIsTrue
  BY DEF Truly, SentIsTrue
<1> QED
  BY <1>1, <1>2, InitSend, SendStep, PTL DEF Spec

-----------------------------------------------------------------------------
(* How long a press can last.  No call has a deadline, so this is what     *)
(* answers it: in every state somebody can go on with the call, and every  *)
(* step of it brings the answer nearer.  That who can go on does is what   *)
(* PressReturns adds, and TLC checks.                                      *)

\* The steps of a call, at most, until its caller is back.
StepsLeft(c) ==
  [none |-> 0, answer |-> 1, service |-> 6,
   driver |-> 2 + [none |-> 0, lost |-> 0, ended |-> 0, answered |-> 1, transmitted |-> 2,
                   sent |-> 3][wire[c]]][stage[c]]

\* A call that is with the driver client is in the hands of a service that
\* lives, with a status to finish it or with a driver that lives too and can
\* go on with the request: transmit it, answer, or end the stream.
GoesOn(c) == stage[c] = "driver" =>
  /\ serving
  /\ \/ reply[c].status # "none"
     \/ up /\ wire[c] \in {"sent", "transmitted"}
     \/ up /\ wire[c] = "answered" /\ \E a \in Answers(c) : a.response = reply[c].response

CanGoOn == \A c \in Callers : GoesOn(c)

PressCountsDown ==
  [][\A c \in Callers :
       stage[c] # "none" /\ <<stage[c], wire[c]>>' # <<stage[c], wire[c]>> =>
         StepsLeft(c)' < StepsLeft(c)]_vars

\* What an answer depends on.
LEMMA AnswersKeep ==
  ASSUME NEW c, asked'[c] = asked[c]
  PROVE  Answers(c)' = Answers(c)
BY DEF Answers, FakeRs485Driver

LEMMA NextGoesOn ==
  ASSUME SendInv, CanGoOn, [Next]_vars
  PROVE  CanGoOn'
<1> SUFFICES ASSUME NEW c \in Callers PROVE GoesOn(c)'
  BY DEF CanGoOn
<1>1. /\ GoesOn(c) /\ CallInv(c) /\ asked[c] \in Requests
      /\ asked'[c] = asked[c] => Answers(c)' = Answers(c)
  BY AnswersKeep DEF CanGoOn, GoesOn, SendInv, TypeOK
<1> USE <1>1 DEF SendInv, TypeOK, GoesOn
<1>2. CASE \E g \in Tabs : connect_to_microservice(g) \/ textEdited(g) \/ SetChannel(g)
                          \/ on_browse_clicked(g)
  BY <1>2 DEF connect_to_microservice, textEdited, SetChannel, Edit, on_browse_clicked, call, alive
<1>3. CASE (\E g \in Tabs : on_send_clicked(g)) \/ (\E g \in Others : RawSend(g))
  <2>1. UNCHANGED <<wire, reply, serving, up>>
    BY <1>3 DEF on_send_clicked, RawSend, Begin, call, alive
  <2>2. stage'[c] = "driver" => stage[c] = "driver" /\ asked'[c] = asked[c]
    BY <1>3 DEF on_send_clicked, RawSend, Begin, call, Callers
  <2> QED
    BY <2>1, <2>2
<1>4. CASE \E g \in Callers : Over(g)
  BY <1>4 DEF Over, alive
<1>5. CASE \E g \in Callers : ServiceStep(g)
  BY <1>5 DEF ServiceStep, NotServed, Rejects, Writes, Finishes, Respond, alive, CallInv, NotYet
<1>6. ASSUME NEW d \in Callers, DriverStep(d) PROVE GoesOn(c)'
  <2>1. UNCHANGED <<asked, stage, serving, up>>
    BY <1>6 DEF DriverStep, DriverTransmits, DriverAnswers, DriverEnds, alive
  <2>2. CASE d # c
    BY <1>6, <2>1, <2>2 DEF DriverStep, DriverTransmits, DriverAnswers, DriverEnds
  <2>3. CASE d = c /\ DriverTransmits(c)
    BY <2>1, <2>3 DEF DriverTransmits
  <2>4. CASE d = c /\ DriverAnswers(c)
    BY <2>1, <2>4 DEF DriverAnswers
  <2>5. CASE d = c /\ DriverEnds(c)
    <3>1. PICK a \in Answers(c) : reply' = [reply EXCEPT ![c].status = a.status]
      BY <2>5 DEF DriverEnds
    <3>2. a.status # "none"
      BY AnswersAreReplies
    <3> QED
      BY <2>1, <3>1, <3>2
  <2> QED
    BY <1>6, <2>2, <2>3, <2>4, <2>5 DEF DriverStep
<1>7. CASE DriverDies
  BY <1>7 DEF DriverDies, Outstanding
<1>8. CASE ServiceDies
  BY <1>8 DEF ServiceDies
<1>9. CASE DriverStarts \/ ServiceStarts \/ UNCHANGED vars
  BY <1>9 DEF DriverStarts, ServiceStarts, call, vars, alive
<1> QED
  BY <1>2, <1>3, <1>4, <1>5, <1>6, <1>7, <1>8, <1>9 DEF Next, Show, OtherGets, Callers

LEMMA StepCountsDown ==
  ASSUME SendInv, Next, NEW c \in Callers, stage[c] # "none",
         <<stage[c], wire[c]>>' # <<stage[c], wire[c]>>
  PROVE  StepsLeft(c)' < StepsLeft(c)
<1>1. CallInv(c)
  BY DEF SendInv
<1> USE <1>1 DEF SendInv, TypeOK, StepsLeft, CallInv, OnTheWire
<1>2. CASE \E g \in Tabs : connect_to_microservice(g) \/ textEdited(g) \/ SetChannel(g)
                          \/ on_browse_clicked(g)
  BY <1>2 DEF connect_to_microservice, textEdited, SetChannel, Edit, on_browse_clicked, call
<1>3. CASE (\E g \in Tabs : on_send_clicked(g)) \/ (\E g \in Others : RawSend(g))
  BY <1>3 DEF on_send_clicked, RawSend, Begin, call
<1>4. CASE \E g \in Callers : Over(g)
  BY <1>4 DEF Over
<1>5. CASE \E g \in Callers : ServiceStep(g)
  BY <1>5 DEF ServiceStep, NotServed, Rejects, Writes, Finishes, Finished, Respond, NotYet
<1>6. CASE \E g \in Callers : DriverStep(g)
  BY <1>6 DEF DriverStep, DriverTransmits, DriverAnswers, DriverEnds
<1>7. CASE DriverDies
  BY <1>7 DEF DriverDies, Outstanding
<1>8. CASE ServiceDies
  BY <1>8 DEF ServiceDies, Outstanding
<1>9. CASE DriverStarts \/ ServiceStarts
  BY <1>9 DEF DriverStarts, ServiceStarts, call
<1> QED
  BY <1>2, <1>3, <1>4, <1>5, <1>6, <1>7, <1>8, <1>9 DEF Next, Show, OtherGets, Callers

\* A press needs at most six steps of its call, whatever dies in between, and in
\* no state is the call with a process that is gone: the loss of either process
\* leaves a status, and no failure is retried.
THEOREM PressIsBounded == Spec => []CanGoOn /\ PressCountsDown
<1>1. Init => CanGoOn
  BY DEF Init, CanGoOn, GoesOn
<1>2. SendInv /\ CanGoOn /\ [Next]_vars => CanGoOn'
  BY NextGoesOn
<1>3. SendInv /\ [Next]_vars =>
        [\A c \in Callers :
           stage[c] # "none" /\ <<stage[c], wire[c]>>' # <<stage[c], wire[c]>> =>
             StepsLeft(c)' < StepsLeft(c)]_vars
  BY StepCountsDown
<1> QED
  BY <1>1, <1>2, <1>3, InitSend, SendStep, PTL DEF Spec, PressCountsDown
=============================================================================
