----------------------------- MODULE MkoCommands -----------------------------
(***************************************************************************)
(* The unary calls of the MKO service: the gRPC handlers with their        *)
(* validation, the services of the bus controller ("KK") and the terminal  *)
(* ("OU") with their timeouts, the two driver clients, and the mapping of  *)
(* what the driver says to the code the caller gets.                       *)
(*                                                                         *)
(* The driver is external: it takes a request, waits for its board at most *)
(* DriverWait, and answers.  Time advances in ticks of 500 ms.  The calls  *)
(* share no state of the service, so each carries its own clock.           *)
(***************************************************************************)
EXTENDS Integers

CONSTANTS
  Calls,        \* the calls in flight
  Requests,     \* what they may ask: method, index, address, subaddress, words
  Refusals      \* what the driver may answer instead of success

ASSUME RequestsAssumption ==
  \A r \in Requests :
    r.index \in Int /\ r.address \in Int /\ r.subaddress \in Int /\ r.words \in Int

ASSUME ConstantsAssumption ==
  Refusals \subseteq {"REJECTED", "DEADLINE_EXCEEDED", "UNIMPLEMENTED",
                      "INVALID_ARGUMENT", "FAILED_PRECONDITION", "INTERNAL"}

VARIABLES
  request,      \* what each call asks
  prompt,       \* does the network deliver within the tick
  place,        \* "idle", "calling" the driver, or "returned"; "editing" before
                \* the tab of the GUI makes the call
  stage,        \* of GetStatus: "version", then "ping"; of the others "only"
  context,      \* the context of the call: "live", "expired" or "cancelled"
  clock,        \* ticks since the current driver call began
  sent,         \* the index of the request the driver was sent, 0 if it has none
  driver,       \* where it is with it: "none", "wire", "working" or "done"
  working,      \* ticks it has been working
  applied,      \* whether it carried the request out
  reply,        \* its answer, "NONE" while there is none
  code,         \* the gRPC code the caller got
  connected     \* DriverConnected of the StatusResponse

service == <<place, stage, context, code, connected>>
world == <<sent, driver, working, applied, reply>>
vars == <<request, prompt, service, clock, world>>

Method(c) == request[c].method

\* The calls of the bus controller; the others are those of the terminal.
KK(c) == Method(c) \in {"ConfigureKK", "ConfigureExchange", "RunExchange"}

\* In ticks: the driver itself waits 1500 ms for its board, unaryTimeout is
\* 2 s and defaultKKCommandTimeout 1500 ms.
DriverWait == 3

\* Mutant: no longer than the driver waits.
unaryTimeoutShort == 3

unaryTimeout == 4

defaultKKCommandTimeout == 3

Limit(c) == IF KK(c) THEN defaultKKCommandTimeout ELSE unaryTimeout

-----------------------------------------------------------------------------
(* Validation and normalisation.                                           *)

\* Mutant: one subaddress too many.
validateSubaddress31(sub) == sub <= 31

validateSubaddress(sub) == sub <= 30

validateOuAddress(addr) == addr \in 0..30

validateWriteWords(sd) == sd \in 1..32

\* SendRawOuData, SetOuResponseWord and the calls of KK are not validated.
Invalid(r) ==
  \/ r.method = "ConfigureOu" /\ ~validateOuAddress(r.address)
  \/ r.method \in {"ReadOuSubaddress", "WriteOuSubaddress"} /\ ~validateSubaddress(r.subaddress)
  \/ r.method = "WriteOuSubaddress" /\ ~validateWriteWords(r.words)

\* The OU service applies the driver's rule that an index <= 0 means 1; the KK
\* service leaves it to the driver.
Normalised(r) ==
  IF r.method \in {"ConfigureOu", "SetOuResponseWord"} /\ r.index <= 0
  THEN 1 ELSE r.index

-----------------------------------------------------------------------------
(* The handlers, down to the driver client.                                *)

Return(c, status) ==
  /\ place' = [place EXCEPT ![c] = "returned"]
  /\ code' = [code EXCEPT ![c] = status]

Reject(c) ==
  /\ place[c] = "idle" /\ Invalid(request[c])
  /\ Return(c, "INVALID_ARGUMENT")
  /\ UNCHANGED <<request, prompt, stage, context, connected, clock, world>>

\* ClearReceiveBuffer and ClearTransmitBuffer.
NotImplemented(c) ==
  /\ place[c] = "idle" /\ Method(c) = "ClearBuffer"
  /\ Return(c, "UNIMPLEMENTED")
  /\ UNCHANGED <<request, prompt, stage, context, connected, clock, world>>

\* A driver call begins, with a deadline of its own.
CallDriver(c, next) ==
  /\ stage' = [stage EXCEPT ![c] = next]
  /\ context' = [context EXCEPT ![c] = "live"]
  /\ clock' = [clock EXCEPT ![c] = 0]
  /\ driver' = [driver EXCEPT ![c] = "wire"]
  /\ working' = [working EXCEPT ![c] = 0]
  /\ applied' = [applied EXCEPT ![c] = FALSE]
  /\ reply' = [reply EXCEPT ![c] = "NONE"]

Forward(c) ==
  /\ place[c] = "idle" /\ ~Invalid(request[c]) /\ Method(c) # "ClearBuffer"
  /\ place' = [place EXCEPT ![c] = "calling"]
  /\ sent' = [sent EXCEPT ![c] = Normalised(request[c])]
  /\ CallDriver(c, IF Method(c) = "GetStatus" THEN "version" ELSE "only")
  /\ UNCHANGED <<request, prompt, code, connected>>

-----------------------------------------------------------------------------
(* What the driver client makes of an error, and the code that becomes.    *)

\* mapDriverError and the success field in the OU client, then toGRPCStatus.
OuCode(answer) ==
  IF answer \in {"REJECTED", "INVALID_ARGUMENT", "FAILED_PRECONDITION"}
  THEN "FAILED_PRECONDITION"
  ELSE IF answer \in {"DEADLINE_EXCEEDED", "UNAVAILABLE", "UNIMPLEMENTED"}
  THEN answer ELSE "INTERNAL"

\* mapKKDriverError: the context decides first, every other error is taken
\* for a rejection by the device.
KKCode(c, answer) ==
  IF context[c] = "expired" THEN "DEADLINE_EXCEEDED"
  ELSE IF context[c] = "cancelled" THEN "INTERNAL"
  ELSE "FAILED_PRECONDITION"

Answered(c) == place[c] = "calling" /\ reply[c] # "NONE"

Succeeds(c) ==
  /\ Answered(c) /\ reply[c] = "SUCCESS" /\ stage[c] = "only"
  /\ Return(c, "OK")
  /\ UNCHANGED <<request, prompt, stage, context, connected, clock, world>>

\* Mutant: only the gRPC error is looked at, not the success field.
FailsByStatusOnly(c) ==
  /\ Answered(c) /\ reply[c] # "SUCCESS" /\ stage[c] = "only"
  /\ Return(c, IF reply[c] = "REJECTED" THEN "OK"
               ELSE IF KK(c) THEN KKCode(c, reply[c]) ELSE OuCode(reply[c]))
  /\ UNCHANGED <<request, prompt, stage, context, connected, clock, world>>

Fails(c) ==
  /\ Answered(c) /\ reply[c] # "SUCCESS" /\ stage[c] = "only"
  /\ Return(c, IF KK(c) THEN KKCode(c, reply[c]) ELSE OuCode(reply[c]))
  /\ UNCHANGED <<request, prompt, stage, context, connected, clock, world>>

\* GetStatus goes on with Ping once it has the version, and reports every
\* failure as a driver that is not connected.
StatusGoesOn(c) ==
  /\ Answered(c) /\ reply[c] = "SUCCESS" /\ stage[c] = "version"
  /\ context[c] # "cancelled"
  /\ CallDriver(c, "ping")
  /\ UNCHANGED <<request, prompt, place, code, connected, sent>>

\* Ping with a context that is already cancelled fails before it is sent.
StatusCancelled(c) ==
  /\ Answered(c) /\ reply[c] = "SUCCESS" /\ stage[c] = "version"
  /\ context[c] = "cancelled"
  /\ Return(c, "OK")
  /\ UNCHANGED <<request, prompt, stage, context, connected, clock, world>>

StatusEnds(c) ==
  /\ Answered(c) /\ (stage[c] = "ping" \/ (stage[c] = "version" /\ reply[c] # "SUCCESS"))
  /\ connected' = [connected EXCEPT ![c] = (reply[c] = "SUCCESS")]
  /\ Return(c, "OK")
  /\ UNCHANGED <<request, prompt, stage, context, clock, world>>

-----------------------------------------------------------------------------
(* Time, the network, the driver and the caller.                           *)

\* On a prompt network nothing is on its way for a whole tick, and the driver
\* answers within DriverWait.
Tick(c) ==
  /\ place[c] = "calling" /\ reply[c] = "NONE" /\ clock[c] < Limit(c)
  /\ prompt => driver[c] = "working" /\ working[c] < DriverWait
  /\ clock' = [clock EXCEPT ![c] = @ + 1]
  /\ working' = [working EXCEPT ![c] = IF driver[c] = "working" THEN @ + 1 ELSE @]
  /\ UNCHANGED <<request, prompt, service, sent, driver, applied, reply>>

\* Mutant: Ping has no deadline.
ExpireNotPing(c) ==
  /\ place[c] = "calling" /\ context[c] = "live" /\ clock[c] = Limit(c)
  /\ stage[c] # "ping"
  /\ context' = [context EXCEPT ![c] = "expired"]
  /\ reply' = [reply EXCEPT ![c] = IF @ = "NONE" THEN "DEADLINE_EXCEEDED" ELSE @]
  /\ UNCHANGED <<request, prompt, place, stage, code, connected, clock,
                 sent, driver, working, applied>>

\* The deadline passes: gRPC ends a call that has no answer on this side.
Expire(c) ==
  /\ place[c] = "calling" /\ context[c] = "live" /\ clock[c] = Limit(c)
  /\ context' = [context EXCEPT ![c] = "expired"]
  /\ reply' = [reply EXCEPT ![c] = IF @ = "NONE" THEN "DEADLINE_EXCEEDED" ELSE @]
  /\ UNCHANGED <<request, prompt, place, stage, code, connected, clock,
                 sent, driver, working, applied>>

\* The caller leaves.  A context that has expired stays so; the one GetStatus
\* passes to Ping is the caller's own.
Cancel(c) ==
  /\ place[c] = "calling"
  /\ context[c] = "live" \/ (context[c] = "expired" /\ stage[c] = "version")
  /\ context' = [context EXCEPT ![c] = "cancelled"]
  /\ reply' = [reply EXCEPT ![c] = IF @ = "NONE" THEN "CANCELLED" ELSE @]
  /\ UNCHANGED <<request, prompt, place, stage, code, connected, clock,
                 sent, driver, working, applied>>

\* No connection to the driver, before or after the request reached it.
Lost(c) ==
  /\ place[c] = "calling" /\ reply[c] = "NONE"
  /\ reply' = [reply EXCEPT ![c] = "UNAVAILABLE"]
  /\ UNCHANGED <<request, prompt, service, clock, sent, driver, working, applied>>

DriverTakes(c) ==
  /\ driver[c] = "wire"
  /\ driver' = [driver EXCEPT ![c] = "working"]
  /\ UNCHANGED <<request, prompt, service, clock, sent, working, applied, reply>>

\* The driver ends its work, perhaps after the caller was given up on, and a
\* refusal does not say that nothing was done.  The answers to GetVersion and
\* ReadMemory have no success field to be false.
DriverAnswers(c) ==
  /\ driver[c] = "working"
  /\ driver' = [driver EXCEPT ![c] = "done"]
  /\ \E answer \in Refusals \union {"SUCCESS"}, did \in BOOLEAN :
       /\ answer = "SUCCESS" => did
       /\ answer = "REJECTED" => stage[c] = "only"
       /\ applied' = [applied EXCEPT ![c] = did]
       /\ reply' = [reply EXCEPT ![c] = IF @ = "NONE" THEN answer ELSE @]
  /\ UNCHANGED <<request, prompt, service, clock, sent, working>>

-----------------------------------------------------------------------------
Fresh ==
  /\ prompt \in BOOLEAN /\ stage = [c \in Calls |-> "only"]
  /\ context = [c \in Calls |-> "live"] /\ clock = [c \in Calls |-> 0]
  /\ sent = [c \in Calls |-> 0] /\ driver = [c \in Calls |-> "none"]
  /\ working = [c \in Calls |-> 0] /\ applied = [c \in Calls |-> FALSE]
  /\ reply = [c \in Calls |-> "NONE"] /\ code = [c \in Calls |-> "NONE"]
  /\ connected = [c \in Calls |-> FALSE]

Init ==
  /\ request \in [Calls -> Requests] /\ place = [c \in Calls |-> "idle"]
  /\ Fresh

ServiceStep(c) ==
  \/ Reject(c) \/ NotImplemented(c) \/ Forward(c)
  \/ Succeeds(c) \/ Fails(c) \/ StatusGoesOn(c)
  \/ StatusCancelled(c) \/ StatusEnds(c)

DriverStep(c) == DriverTakes(c) \/ DriverAnswers(c)

Quiet == (\A c \in Calls : place[c] = "returned" /\ driver[c] \in {"none", "done"}) /\ UNCHANGED vars

Next ==
  \/ \E c \in Calls :
       ServiceStep(c) \/ Tick(c) \/ Expire(c) \/ Cancel(c) \/ Lost(c) \/ DriverStep(c)
  \/ Quiet

Spec == Init /\ [][Next]_vars

\* The service runs and time passes.  The driver may hang, except where the
\* network is prompt: there it answers within DriverWait.
FairSpec ==
  /\ Spec
  /\ \A c \in Calls :
       /\ WF_vars(ServiceStep(c)) /\ WF_vars(Tick(c)) /\ WF_vars(Expire(c))
       /\ WF_vars(prompt /\ DriverStep(c))
=============================================================================
