------------------------------- MODULE PkuTab -------------------------------
(***************************************************************************)
(* The PKU tab of the GUI with the service and the driver behind it: the   *)
(* buttons, the one synchronous call each client has in progress, the      *)
(* service that connects to the driver once, and a driver that carries     *)
(* calls out side by side, may crash, and starts again from its factory    *)
(* data.                                                                   *)
(*                                                                         *)
(* No call has a deadline but the first.  A call whose service dies leaves *)
(* its request with the driver: it is "late" and still carried out.        *)
(***************************************************************************)
EXTENDS PkuService, FiniteSets

CONSTANTS
  Tabs, Others,         \* GUIs, and other clients of the service
  Commands,             \* [id, parameter] the others send
  Informations,         \* what is typed into the fields of the main information
  RkInputs,             \* what is typed for an RK: its number and a duration
  Selections,           \* PKUs selected in the list
  Modes,                \* the modes offered
  MaxFaults,            \* bound: how often the driver crashes or the service stops
  Empty, Op             \* the empty text; the operation identifier

ASSUME ClientsAssumption == Tabs \cap Others = {}

\* The list has an item for every PKU but the last.
Listed == 1..(PkuCount - 1)

ASSUME SelectionsAssumption == Selections \subseteq Seq(Listed)

\* A text cut at ";" has at least one piece.
ASSUME InformationsAssumption ==
  \A i \in Informations :
    /\ i.use_dhcp \in BOOLEAN
    /\ \A f \in Fields : i.pieces[f] \in Seq(NotNumbers \union Int) /\ i.pieces[f] # << >>

ASSUME RkInputsAssumption ==
  \A x \in RkInputs :
    \A f \in {"index", "duration"} : x[f] \in Seq(NotNumbers \union Int) /\ x[f] # << >>

Clients == Tabs \union Others

VARIABLES
  service,      \* "starting", "serving", or "deaf": running without a port
  up,           \* the driver runs
  store,        \* what it stores
  written,      \* the last main information it was given (history)
  spoiled,      \* a handler wrote outside its data, or two raced for it
  tab,          \* of each tab: "closed" or "open"
  asked,        \* what a client asks: a button, what is meant, the wire form
  stage,        \* of its call: "none", "service", "driver", "inside" or "answer"
  request,      \* what the driver was sent
  carried,      \* what it carried out of this call (history)
  saw,          \* and what was written when it read (history)
  response,     \* what the service answers
  late,         \* requests of calls whose service is gone
  faults,       \* crashes and stops so far
  label,        \* what the tab says of the last button
  shown         \* what it logged last

calls == <<asked, stage, request, carried, saw, response>>
view == <<tab, label, shown>>
vars == <<service, up, store, written, spoiled, calls, late, faults, view>>

None == [rpc |-> "none"]
Nothing == [button |-> "none"]
NoResponse == [success |-> FALSE, text |-> << >>]

-----------------------------------------------------------------------------
(* The handlers of the buttons, down to SendCommand.  Each asks with the   *)
(* number of a command and the pieces of its parameter, and keeps what the *)
(* operator meant.                                                         *)

Ask(c, a) ==
  /\ asked' = [asked EXCEPT ![c] = a]
  /\ stage' = [stage EXCEPT ![c] = "service"]
  /\ UNCHANGED <<request, carried, saw, response>>
  /\ UNCHANGED <<service, up, store, written, spoiled, late, faults, tab>>

\* The call is over.
Over(c) ==
  /\ stage' = [stage EXCEPT ![c] = "none"]
  /\ asked' = [asked EXCEPT ![c] = Nothing]
  /\ request' = [request EXCEPT ![c] = None]
  /\ carried' = [carried EXCEPT ![c] = None]
  /\ saw' = [saw EXCEPT ![c] = None]
  /\ response' = [response EXCEPT ![c] = NoResponse]
  /\ UNCHANGED <<service, up, store, written, spoiled, late, faults>>

Press(g, a) ==
  /\ stage[g] = "none" /\ tab[g] = "open"
  /\ label' = [label EXCEPT ![g] = "waiting"]
  /\ shown' = [shown EXCEPT ![g] = << >>]
  /\ Ask(g, a)

\* A field is empty, or nothing is selected: nothing is sent.
Complain(g) ==
  /\ stage[g] = "none" /\ tab[g] = "open"
  /\ label' = [label EXCEPT ![g] = "fill_in"]
  /\ shown' = [shown EXCEPT ![g] = << >>]
  /\ UNCHANGED <<service, up, store, written, spoiled, calls, late, faults, tab>>

Plainly(name, id) == [button |-> name, id |-> id, parameter |-> <<Empty>>, meant |-> None]

CheckConnection(g) == Press(g, Plainly("check", 1))
GetStatus(g) == Press(g, Plainly("status", 2))
ReadMain(g) == Press(g, Plainly("read_main", 3))
GetVersion(g) == Press(g, Plainly("version", 8))

\* A text with ";" is two pieces: pieces[f] is the sequence of field f.
WriteMain(g) ==
  \E i \in Informations :
    LET p == i.pieces IN
    IF \E f \in Fields : p[f] = <<Empty>> THEN Complain(g)
    ELSE Press(g,
      [button |-> "write_main", id |-> 4,
       parameter |-> p["description"] \o p["mac"] \o p["ip"] \o p["netmask"]
                       \o p["gateway"] \o p["dns"] \o <<IF i.use_dhcp THEN 1 ELSE 0, Op>>,
       meant |-> [rpc |-> "WriteMainInfo", use_dhcp |-> i.use_dhcp,
                  fields |-> [f \in Fields |-> p[f][1]]]])

\* The list offers one PKU too few; the order of the texts is not that of the
\* numbers, so any order of the selected ones.
ReadPkuClicked(g) ==
  \E s \in Selections :
    IF s = << >> THEN Complain(g)
    ELSE Press(g, [button |-> "read_pku", id |-> 5, parameter |-> Append(s, Op),
                   meant |-> [rpc |-> "ReadPku", indices |-> s]])

SetMode(g) ==
  \E i \in 1..PkuCount, m \in Modes :
    Press(g, [button |-> "set_mode", id |-> 6, parameter |-> <<i, m, Op>>,
              meant |-> [rpc |-> "SetPkuMode", index |-> i, value |-> m]])

\* The two fields are texts like those of the main information: nothing keeps a
\* ";" out of them.
SendRk(g) ==
  \E x \in RkInputs :
    IF <<Empty>> \in {x.index, x.duration} THEN Complain(g)
    ELSE Press(g, [button |-> "send_rk", id |-> 7, parameter |-> x.index \o x.duration \o <<Op>>,
                   meant |-> [rpc |-> "SendRkByIndex", index |-> x.index[1], value |-> x.duration[1]]])

\* The constructor asks for the connection and throws unless an answer comes
\* within two seconds; a driver that is not there is an answer.
Open(g) ==
  /\ tab[g] = "closed" /\ stage[g] = "none"
  /\ Ask(g, Plainly("open", 1)) /\ UNCHANGED <<label, shown>>

Expire(g) ==
  /\ asked[g].button = "open" /\ stage[g] \in {"service", "driver", "inside"}
  /\ Over(g) /\ UNCHANGED view

OtherAsks(c) ==
  /\ stage[c] = "none"
  /\ \E x \in Commands : Ask(c, [button |-> "other", id |-> x.id,
                                  parameter |-> x.parameter, meant |-> None])
  /\ UNCHANGED <<label, shown>>

-----------------------------------------------------------------------------
(* The service.                                                            *)

Ping == up

\* ConnectingDriverCaller waits three seconds for its channel.  If there is no
\* driver the error is printed and the server started all the same, without
\* servicer and port: it never serves, whatever becomes of the driver.
ServiceStarts ==
  /\ service = "starting"
  /\ service' = IF Ping THEN "serving" ELSE "deaf"
  /\ UNCHANGED <<up, store, written, spoiled, calls, late, faults, view>>

Answered(c, r) ==
  /\ stage' = [stage EXCEPT ![c] = "answer"]
  /\ response' = [response EXCEPT ![c] = r]

\* SendCommand: the request is converted and the driver called, or not.
Dispatch(c) ==
  /\ stage[c] = "service" /\ service = "serving"
  /\ LET r == SendCommand(asked[c].id, asked[c].parameter) IN
     IF Failed(r)
     THEN Answered(c, Failure(r.error)) /\ UNCHANGED request
     ELSE /\ stage' = [stage EXCEPT ![c] = "driver"]
          /\ request' = [request EXCEPT ![c] = r]
          /\ UNCHANGED response
  /\ UNCHANGED <<service, up, store, written, spoiled, asked, carried, saw, late, faults, view>>

\* Mutant: one of the calls is not decorated, and waits for the driver.
CallFailsUndecorated(c) ==
  /\ stage[c] = "driver" /\ ~up /\ request[c].rpc # "ReadPku"
  /\ Answered(c, ConnectionLost)
  /\ UNCHANGED <<service, up, store, written, spoiled, asked, request, carried, saw, late, faults, view>>

\* The decorator of every call of the caller.
CallFails(c) ==
  /\ stage[c] = "driver" /\ ~up
  /\ Answered(c, ConnectionLost)
  /\ UNCHANGED <<service, up, store, written, spoiled, asked, request, carried, saw, late, faults, view>>

\* There is nobody to answer.
NotServed(c) ==
  /\ stage[c] = "service" /\ service # "serving"
  /\ Answered(c, [success |-> FALSE, text |-> <<"network">>])
  /\ UNCHANGED <<service, up, store, written, spoiled, asked, request, carried, saw, late, faults, view>>

ServiceStops ==
  /\ service # "starting"
  /\ faults < MaxFaults /\ faults' = faults + 1
  /\ service' = "starting"
  /\ late' = late \union {request[c] : c \in {d \in Clients : stage[d] \in {"driver", "inside"}}}
  /\ stage' = [c \in Clients |-> IF stage[c] = "none" THEN "none" ELSE "answer"]
  /\ response' = [c \in Clients |->
       IF stage[c] \in {"service", "driver", "inside"}
       THEN [success |-> FALSE, text |-> <<"network">>] ELSE response[c]]
  /\ UNCHANGED <<up, store, written, spoiled, asked, request, carried, saw, view>>

-----------------------------------------------------------------------------
(* The driver.                                                             *)

Inside == {request[c] : c \in {d \in Clients : stage[d] = "inside"}}

Begins(c) ==
  /\ stage[c] = "driver" /\ up
  /\ stage' = [stage EXCEPT ![c] = "inside"]
  /\ spoiled' = (spoiled \/ \E r \in Inside : Conflict(request[c], r))
  /\ UNCHANGED <<service, up, store, written, asked, request, carried, saw, response, late, faults, view>>

\* Once spoiled, the data are not followed any more.
CarryOut(r, raced) ==
  /\ spoiled' = (spoiled \/ raced \/ OutOfMemory(store, r))
  /\ IF spoiled' THEN store' = PkuDriverPlug ELSE store' \in Effects(store, r)
  /\ written' = IF spoiled' THEN None ELSE IF r.rpc = "WriteMainInfo" THEN r ELSE written

Ends(c) ==
  /\ stage[c] = "inside"
  /\ CarryOut(request[c], FALSE)
  /\ carried' = [carried EXCEPT ![c] = request[c]]
  /\ saw' = [saw EXCEPT ![c] =
       IF request[c].rpc = "ReadMainInfo" THEN written ELSE @]
  /\ Answered(c, Result(Answer(store, request[c])))
  /\ UNCHANGED <<service, up, asked, request, late, faults, view>>

LateEnds(r) ==
  /\ up /\ r \in late
  /\ late' = late \ {r}
  /\ CarryOut(r, \E t \in Inside : Conflict(r, t))
  /\ UNCHANGED <<service, up, calls, faults, view>>

Crashes ==
  /\ up /\ up' = FALSE
  /\ faults < MaxFaults /\ faults' = faults + 1
  /\ store' = PkuDriverPlug /\ written' = None /\ spoiled' = FALSE /\ late' = {}
  /\ stage' = [c \in Clients |-> IF stage[c] \in {"driver", "inside"} THEN "answer" ELSE stage[c]]
  /\ response' = [c \in Clients |->
       IF stage[c] \in {"driver", "inside"} THEN ConnectionLost ELSE response[c]]
  /\ UNCHANGED <<service, asked, request, carried, saw, view>>

Restarts ==
  /\ ~up /\ up' = TRUE
  /\ UNCHANGED <<service, store, written, spoiled, calls, late, faults, view>>

-----------------------------------------------------------------------------
(* The handlers of the buttons, from the answer on.                        *)

\* Six bytes, or four, are printed whatever the piece holds.
parse_mac(piece) == IF piece \in Macs \union {Factory} THEN piece ELSE Garbage
parse_address(piece) == IF piece \in Addresses \union {Factory} THEN piece ELSE Garbage

\* Mutant: the k-th value for the k-th selected PKU.
DisplayedInOrder(a, text) ==
  CASE a.button = "read_main" -> SubSeq(text, 3, 9)
    [] a.button = "read_pku" -> SubSeq(text, 1, Len(a.meant.indices))
    [] OTHER -> << >>

\* What the log shows of a successful answer.
Displayed(a, text) ==
  CASE a.button = "read_main" ->
         <<text[3], parse_mac(text[4])>> \o [k \in 1..4 |-> parse_address(text[k + 4])]
           \o <<text[9]>>
    [] a.button = "read_pku" -> [k \in 1..Len(a.meant.indices) |-> text[a.meant.indices[k]]]
    [] a.button = "version" -> text
    [] OTHER -> << >>

\* The version is shown without a look at success.
Says(a, r) ==
  IF r.text = <<"network">> THEN "network"
  ELSE IF a.button = "version" \/ r.success THEN "ok" ELSE "error"

Show(g) ==
  /\ g \in Tabs /\ stage[g] = "answer"
  /\ LET a == asked[g]  r == response[g] IN
     IF a.button = "open"
     THEN /\ tab' = [tab EXCEPT ![g] = IF r.text = <<"network">> THEN "closed" ELSE "open"]
          /\ UNCHANGED <<label, shown>>
     ELSE /\ label' = [label EXCEPT ![g] = Says(a, r)]
          /\ shown' = [shown EXCEPT ![g] =
               IF Says(a, r) = "ok" THEN Displayed(a, r.text) ELSE << >>]
          /\ UNCHANGED tab
  /\ Over(g)

OtherGets(c) ==
  /\ c \in Others /\ stage[c] = "answer"
  /\ Over(c) /\ UNCHANGED view

-----------------------------------------------------------------------------
Init ==
  /\ service = "starting" /\ up \in BOOLEAN
  /\ store = PkuDriverPlug /\ written = None /\ spoiled = FALSE /\ late = {} /\ faults = 0
  /\ tab = [g \in Tabs |-> "closed"]
  /\ asked = [c \in Clients |-> Nothing] /\ stage = [c \in Clients |-> "none"]
  /\ request = [c \in Clients |-> None] /\ carried = [c \in Clients |-> None]
  /\ saw = [c \in Clients |-> None]
  /\ response = [c \in Clients |-> NoResponse]
  /\ label = [g \in Tabs |-> "none"] /\ shown = [g \in Tabs |-> << >>]

Button(g) ==
  \/ CheckConnection(g) \/ GetStatus(g) \/ ReadMain(g) \/ GetVersion(g)
  \/ WriteMain(g) \/ ReadPkuClicked(g) \/ SetMode(g) \/ SendRk(g)

ServiceStep(c) == Dispatch(c) \/ CallFails(c) \/ NotServed(c)
DriverStep(c) == Begins(c) \/ Ends(c)

Next ==
  \/ \E g \in Tabs : Button(g) \/ Open(g) \/ Expire(g) \/ Show(g)
  \/ \E c \in Others : OtherAsks(c) \/ OtherGets(c)
  \/ \E c \in Clients : ServiceStep(c) \/ DriverStep(c)
  \/ ServiceStarts \/ ServiceStops \/ Crashes \/ Restarts
  \/ \E r \in late : LateEnds(r)

Spec == Init /\ [][Next]_vars

\* The service answers or passes a call on, the handlers of the driver do not
\* wait for anything, and the GUI is in its own synchronous call.
FairSpec ==
  /\ Spec
  /\ \A g \in Tabs : WF_vars(ServiceStep(g) \/ DriverStep(g)) /\ WF_vars(Show(g))
=============================================================================
