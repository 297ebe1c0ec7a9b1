------------------------------ MODULE Rs485Send ------------------------------
(***************************************************************************)
(* Sending over RS-485: the form of the GUI tab, its client, the service's *)
(* SendData, the stream its driver client opens for every call, and the    *)
(* driver.  Callers other than the GUI send what they like.                *)
(*                                                                         *)
(* A typed text is the sequence of its words: a number of 0..255 stands    *)
(* for a word of two hexadecimal digits, anything else for one that is     *)
(* not.  A file is the sequence of its bytes, or absent.                   *)
(***************************************************************************)
EXTENDS Integers, Sequences, FiniteSets

CONSTANTS
  Tabs, Others,         \* GUIs, and other callers of the service
  Channels,             \* what the form offers: 0..15 in the code
  Texts,                \* what is typed
  Absent, NoFile,       \* what a file is that does not exist; no file chosen
  Files, Contents,      \* the files of the disk, and what may be in one
  RawRequests,          \* what the others send: [channel, data]
  OddAnswers,           \* what a driver other than the fake one may answer on a channel
  MaxFaults,            \* bound: how often service and driver die
  MaxEdits              \* bound: how often the form changes

Byte == 0..255

PultErrors ==
  {"NO_ERROR", "WRONG_BRIDGE_ID", "NO_REPLY", "WRONG_INTERFACE", "TIMEOUT", "EMPTY_BUFFER",
   "WRONG_PARAM"}
GrpcStatus ==
  {"OK", "CANCELLED", "UNKNOWN", "INVALID_ARGUMENT", "DEADLINE_EXCEEDED", "NOT_FOUND",
   "ALREADY_EXISTS", "PERMISSION_DENIED", "RESOURCE_EXHAUSTED", "FAILED_PRECONDITION", "ABORTED",
   "OUT_OF_RANGE", "UNIMPLEMENTED", "INTERNAL", "UNAVAILABLE", "DATA_LOSS", "UNAUTHENTICATED"}

\* What the driver client has of an answer; "none" until it comes.
Replies ==
  [response : [success : BOOLEAN, error : PultErrors \union {"none"}, channel : Int],
   status : GrpcStatus \union {"none"}]

\* No response was read.
Says(success, e, n) == [success |-> success, error |-> e, channel |-> n]
Silence == Says(FALSE, "none", 0)

Callers == Tabs \union Others

ASSUME CallersAssumption == Tabs \cap Others = {} /\ NoFile \notin Files
ASSUME ChannelsAssumption == 0 \in Channels /\ Channels \subseteq Int
ASSUME TextsAssumption == \A t \in Texts : t \in Seq({t[k] : k \in DOMAIN t})
ASSUME RawAssumption == \A r \in RawRequests : r.channel \in Int /\ r.data \in Seq(Byte)
ASSUME AnswersAssumption ==
  OddAnswers \in [Channels \union {r.channel : r \in RawRequests} ->
                   SUBSET {a \in Replies : a.status # "none"}]
ASSUME ContentsAssumption == \A x \in Contents : x = Absent \/ x \in Seq(Byte)

VARIABLES
  disk,         \* the files
  enabled,      \* the controls of each tab, once it has its connection
  path, typed, channel,   \* the form of each tab
  asked,        \* what a caller's call carries: [channel, data]
  stage,        \* of the call: "none", "service", "driver" or "answer"
  wire,         \* its request: "none", "sent", "transmitted",
                \* "answered", "ended" or "lost"
  transmitted,  \* what the driver transmitted for it (history)
  reply,        \* what the driver client gets: [response, status]
  response,     \* what the caller gets: [success, channel, code]
  calm,         \* nobody died since the call began (history)
  serving, up,  \* do the service and the driver run
  label, log,   \* what the tab says, and what it logged of the last press
  faults, edits \* so far

form == <<disk, enabled, path, typed, channel, edits>>
call == <<asked, stage, wire, transmitted, reply, response, calm>>
alive == <<serving, up, faults>>
vars == <<form, call, alive, label, log>>

NoCall == [channel |-> 0, data |-> << >>]
NoReply == [response |-> Silence, status |-> "none"]
NoResponse == [success |-> FALSE, channel |-> 0, code |-> "NONE"]

-----------------------------------------------------------------------------
(* The form.  The GUI thread is in the call while there is one.            *)

\* The client's channel is made, whether there is a service or not; without a
\* configuration the controls stay disabled.
connect_to_microservice(g) ==
  /\ ~enabled[g]
  /\ enabled' = [enabled EXCEPT ![g] = TRUE]
  /\ UNCHANGED <<disk, path, typed, channel, edits, call, alive, label, log>>

Edit(g) ==
  /\ enabled[g] /\ stage[g] = "none" /\ edits < MaxEdits
  /\ edits' = edits + 1
  /\ UNCHANGED <<disk, enabled, call, alive, label, log>>

\* Every change of the text clears the file, whose field is read-only.
textEdited(g) ==
  /\ Edit(g)
  /\ \E t \in Texts : typed' = [typed EXCEPT ![g] = t]
  /\ path' = [path EXCEPT ![g] = NoFile]
  /\ UNCHANGED channel

SetChannel(g) ==
  /\ Edit(g)
  /\ \E n \in Channels : channel' = [channel EXCEPT ![g] = n]
  /\ UNCHANGED <<path, typed>>

\* Choosing a file clears the bytes.
on_browse_clicked(g) ==
  /\ enabled[g] /\ stage[g] = "none" /\ edits < MaxEdits
  /\ edits' = edits + 1
  /\ \E f \in Files : path' = [path EXCEPT ![g] = f]
  /\ typed' = [typed EXCEPT ![g] = << >>]
  /\ label' = [label EXCEPT ![g] = "chosen"]
  /\ UNCHANGED <<disk, enabled, channel, call, alive, log>>

-----------------------------------------------------------------------------
(* The GUI's client: the bytes to send, or Nothing for its exceptions.     *)

Nothing == << >>

\* Mutant: words that are no byte are skipped.
sendDataSkipping(t) ==
  SelectSeq(t, LAMBDA w : w \in Byte)

\* All words or none.
sendData(t) ==
  IF \A k \in 1..Len(t) : t[k] \in Byte THEN t ELSE Nothing

sendDataFromFile(f) ==
  IF disk[f] = Absent THEN Nothing ELSE disk[f]

\* on_send_clicked, down to the call.  A file wins over the typed bytes.
Bytes(g) == IF path[g] # NoFile THEN sendDataFromFile(path[g]) ELSE sendData(typed[g])

Entry(g, n, bytes, success) ==
  [source |-> path[g], data |-> bytes, channel |-> n, success |-> success]

NoEntry == [source |-> NoFile, data |-> << >>, channel |-> 0, success |-> FALSE]

\* The bytes are not in the log then: they are noted after the call.
Throws(g) ==
  /\ label' = [label EXCEPT ![g] = "exception"]
  /\ log' = [log EXCEPT ![g] = Entry(g, channel[g], << >>, FALSE)]

Begin(c, n, bytes) ==
  /\ asked' = [asked EXCEPT ![c] = [channel |-> n, data |-> bytes]]
  /\ stage' = [stage EXCEPT ![c] = "service"]
  /\ calm' = [calm EXCEPT ![c] = TRUE]
  /\ UNCHANGED <<wire, transmitted, reply, response>>

on_send_clicked(g) ==
  /\ enabled[g] /\ stage[g] = "none"
  /\ IF Bytes(g) = Nothing
     THEN Throws(g) /\ UNCHANGED call
     ELSE /\ Begin(g, channel[g], Bytes(g))
          /\ log' = [log EXCEPT ![g] = NoEntry]
          /\ UNCHANGED label
  /\ UNCHANGED <<form, alive>>

RawSend(c) ==
  /\ c \in Others /\ stage[c] = "none"
  /\ \E r \in RawRequests : Begin(c, r.channel, r.data)
  /\ UNCHANGED <<form, alive, label, log>>

-----------------------------------------------------------------------------
(* The service and its driver client.                                      *)

Respond(c, success, n, code) ==
  /\ stage' = [stage EXCEPT ![c] = "answer"]
  /\ response' = [response EXCEPT ![c] = [success |-> success, channel |-> n, code |-> code]]

\* Mutant: the call waits for a service to come.
NotServedYet(c) ==
  /\ stage[c] = "service" /\ ~serving
  /\ UNCHANGED vars

\* There is no service: the call ends with a status, no response.
NotServed(c) ==
  /\ stage[c] = "service" /\ ~serving
  /\ Respond(c, FALSE, asked[c].channel, "STATUS")
  /\ UNCHANGED <<form, asked, wire, transmitted, reply, calm, alive, label, log>>

Rejects(c) ==
  /\ stage[c] = "service" /\ serving /\ asked[c].data = << >>
  /\ Respond(c, FALSE, asked[c].channel, "INVALID_DATA")
  /\ UNCHANGED <<form, asked, wire, transmitted, reply, calm, alive, label, log>>

\* One stream per call, one request on it.
Writes(c) ==
  /\ stage[c] = "service" /\ serving /\ asked[c].data # << >>
  /\ stage' = [stage EXCEPT ![c] = "driver"]
  /\ IF up
     THEN wire' = [wire EXCEPT ![c] = "sent"] /\ UNCHANGED reply
     ELSE /\ reply' = [reply EXCEPT ![c] = [response |-> Silence, status |-> "UNAVAILABLE"]]
          /\ UNCHANGED wire
  /\ UNCHANGED <<form, asked, transmitted, response, calm, alive, label, log>>

serviceCodeFromDriverError(e) ==
  CASE e = "NO_ERROR" -> "NO_ERROR"
    [] e = "NO_REPLY" -> "DRIVER_NO_REPLY"
    [] e = "TIMEOUT" -> "DRIVER_TIMEOUT"
    [] OTHER -> "DRIVER_ERROR"

serviceCodeFromGrpcError(s) ==
  CASE s = "UNAVAILABLE" -> "DRIVER_NOT_CONNECTED"
    [] s = "DEADLINE_EXCEEDED" -> "DRIVER_TIMEOUT"
    [] s = "INTERNAL" -> "INTERNAL_ERROR"
    [] OTHER -> "DRIVER_ERROR"

Accepted(r) ==
  r.status = "OK" /\ r.response # Silence /\ r.response.success /\ r.response.error = "NO_ERROR"

\* Mutant: what was read counts, whatever the status of the stream.
CodeByResponse(r) ==
  IF r.response # Silence THEN serviceCodeFromDriverError(r.response.error)
  ELSE IF r.status # "OK" THEN serviceCodeFromGrpcError(r.status) ELSE "DRIVER_ERROR"

\* The exception of the driver client, and the code it becomes.
Code(r) ==
  IF r.status # "OK" THEN serviceCodeFromGrpcError(r.status)
  ELSE IF r.response = Silence THEN "DRIVER_ERROR"
  ELSE serviceCodeFromDriverError(r.response.error)

Finished(c) == stage[c] = "driver" /\ reply[c].status # "none"

\* Mutant: a call the driver was lost for is repeated.
FinishesRetrying(c) ==
  /\ Finished(c) /\ serving
  /\ IF reply[c].status = "UNAVAILABLE"
     THEN /\ stage' = [stage EXCEPT ![c] = "service"]
          /\ reply' = [reply EXCEPT ![c] = NoReply]
          /\ UNCHANGED response
     ELSE /\ Respond(c, Accepted(reply[c]), asked[c].channel, Code(reply[c]))
          /\ UNCHANGED reply
  /\ UNCHANGED <<form, asked, wire, transmitted, calm, alive, label, log>>

\* The channel of a success is the driver's word, that of a failure the
\* caller's.
Finishes(c) ==
  /\ Finished(c) /\ serving
  /\ LET r == reply[c] IN
     IF Accepted(r) THEN Respond(c, TRUE, r.response.channel, "NO_ERROR")
     ELSE Respond(c, FALSE, asked[c].channel, Code(r))
  /\ UNCHANGED <<form, asked, wire, transmitted, reply, calm, alive, label, log>>

-----------------------------------------------------------------------------
(* The driver.  It tells what to answer from the channel, as the fake one, *)
(* or gives one of the odd answers.                                        *)

FakeRs485Driver(n) ==
  CASE n = 500 -> [response |-> Silence, status |-> "INTERNAL"]
    [] n = 100 -> [response |-> Says(FALSE, "NO_REPLY", n), status |-> "OK"]
    [] n = 101 -> [response |-> Says(FALSE, "TIMEOUT", n), status |-> "OK"]
    [] n = 102 -> [response |-> Says(FALSE, "WRONG_INTERFACE", n), status |-> "OK"]
    [] n = 103 -> [response |-> Says(FALSE, "WRONG_PARAM", n), status |-> "OK"]
    [] OTHER -> [response |-> Says(TRUE, "NO_ERROR", n), status |-> "OK"]

DriverTransmits(c) ==
  /\ wire[c] = "sent" /\ up
  /\ wire' = [wire EXCEPT ![c] = "transmitted"]
  /\ transmitted' = [transmitted EXCEPT ![c] = Append(@, asked[c])]
  /\ UNCHANGED <<form, asked, stage, reply, response, calm, alive, label, log>>

Answers(c) == {FakeRs485Driver(asked[c].channel)} \union OddAnswers[asked[c].channel]

\* It writes its response, if it has one.  An odd answer that is not a success
\* may come without a transmission.
DriverAnswers(c) ==
  /\ up /\ wire[c] \in {"sent", "transmitted"}
  /\ wire' = [wire EXCEPT ![c] = "answered"]
  /\ \E a \in Answers(c) :
       /\ wire[c] = "sent" => a \in OddAnswers[asked[c].channel] /\ ~a.response.success
       /\ reply' = [reply EXCEPT ![c].response = a.response]
  /\ UNCHANGED <<form, asked, stage, transmitted, response, calm, alive, label, log>>

\* It returns its status when the service is done with writing.
DriverEnds(c) ==
  /\ up /\ wire[c] = "answered"
  /\ wire' = [wire EXCEPT ![c] = "ended"]
  /\ \E a \in Answers(c) :
       /\ a.response = reply[c].response
       /\ reply' = [reply EXCEPT ![c].status = a.status]
  /\ UNCHANGED <<form, asked, stage, transmitted, response, calm, alive, label, log>>

Outstanding == {c \in Callers : wire[c] \notin {"none", "ended", "lost"}}

\* A call without its status ends with that of the lost connection.
DriverDies ==
  /\ up /\ faults < MaxFaults
  /\ up' = FALSE /\ faults' = faults + 1
  /\ wire' = [c \in Callers |-> IF c \in Outstanding THEN "lost" ELSE wire[c]]
  /\ reply' = [c \in Callers |->
       IF c \in Outstanding THEN [reply[c] EXCEPT !.status = "UNAVAILABLE"] ELSE reply[c]]
  /\ calm' = [c \in Callers |-> FALSE]
  /\ UNCHANGED <<form, asked, stage, transmitted, response, serving, label, log>>

DriverStarts ==
  /\ ~up /\ up' = TRUE
  /\ UNCHANGED <<form, call, serving, faults, label, log>>

\* Every call in progress ends with a status for its caller; what the driver
\* has not transmitted yet it still may.
ServiceDies ==
  /\ serving /\ faults < MaxFaults
  /\ serving' = FALSE /\ faults' = faults + 1
  /\ stage' = [c \in Callers |-> IF stage[c] = "none" THEN "none" ELSE "answer"]
  /\ response' = [c \in Callers |->
       IF stage[c] \in {"service", "driver"}
       THEN [success |-> FALSE, channel |-> asked[c].channel, code |-> "STATUS"]
       ELSE response[c]]
  /\ wire' = [c \in Callers |-> IF c \in Outstanding THEN "lost" ELSE wire[c]]
  /\ \E late \in SUBSET {c \in Callers : wire[c] = "sent"} :
       transmitted' = [c \in Callers |->
         IF c \in late THEN Append(transmitted[c], asked[c]) ELSE transmitted[c]]
  /\ calm' = [c \in Callers |-> FALSE]
  /\ UNCHANGED <<form, asked, reply, up, label, log>>

ServiceStarts ==
  /\ ~serving /\ serving' = TRUE
  /\ UNCHANGED <<form, call, up, faults, label, log>>

-----------------------------------------------------------------------------
(* The callers get their answers.                                          *)

Over(c) ==
  /\ stage[c] = "answer"
  /\ asked' = [asked EXCEPT ![c] = NoCall]
  /\ stage' = [stage EXCEPT ![c] = "none"]
  /\ wire' = [wire EXCEPT ![c] = "none"]
  /\ transmitted' = [transmitted EXCEPT ![c] = << >>]
  /\ reply' = [reply EXCEPT ![c] = NoReply]
  /\ response' = [response EXCEPT ![c] = NoResponse]
  /\ calm' = [calm EXCEPT ![c] = TRUE]
  /\ UNCHANGED <<form, alive>>

\* A status makes the client throw; a response is shown as it is.
Show(g) ==
  /\ g \in Tabs /\ Over(g)
  /\ LET r == response[g] IN
     IF r.code = "STATUS" THEN Throws(g)
     ELSE /\ label' = [label EXCEPT ![g] = IF r.success THEN "sent" ELSE "error"]
          /\ log' = [log EXCEPT ![g] =
               Entry(g, r.channel, IF path[g] # NoFile THEN << >> ELSE typed[g], r.success)]

OtherGets(c) == c \in Others /\ Over(c) /\ UNCHANGED <<label, log>>

-----------------------------------------------------------------------------
Init ==
  /\ disk \in [Files -> Contents] /\ enabled = [g \in Tabs |-> FALSE]
  /\ path = [g \in Tabs |-> NoFile] /\ typed = [g \in Tabs |-> << >>]
  /\ channel = [g \in Tabs |-> 0] /\ edits = 0
  /\ asked = [c \in Callers |-> NoCall] /\ stage = [c \in Callers |-> "none"]
  /\ wire = [c \in Callers |-> "none"] /\ transmitted = [c \in Callers |-> << >>]
  /\ reply = [c \in Callers |-> NoReply] /\ response = [c \in Callers |-> NoResponse]
  /\ calm = [c \in Callers |-> TRUE]
  /\ serving = TRUE /\ up \in BOOLEAN /\ faults = 0
  /\ label = [g \in Tabs |-> "none"] /\ log = [g \in Tabs |-> NoEntry]

ServiceStep(c) == NotServed(c) \/ Rejects(c) \/ Writes(c) \/ Finishes(c)

DriverStep(c) == DriverTransmits(c) \/ DriverAnswers(c) \/ DriverEnds(c)

Next ==
  \/ \E g \in Tabs :
       \/ connect_to_microservice(g) \/ textEdited(g) \/ SetChannel(g) \/ on_browse_clicked(g)
       \/ on_send_clicked(g) \/ Show(g)
  \/ \E c \in Others : RawSend(c) \/ OtherGets(c)
  \/ \E c \in Callers : ServiceStep(c) \/ DriverStep(c)
  \/ DriverDies \/ DriverStarts \/ ServiceDies \/ ServiceStarts

Spec == Init /\ [][Next]_vars

\* The service and the GUI run, and a driver that runs answers.
FairSpec ==
  /\ Spec
  /\ \A g \in Tabs : WF_vars(ServiceStep(g) \/ DriverStep(g)) /\ WF_vars(Show(g))
=============================================================================
