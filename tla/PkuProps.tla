------------------------------ MODULE PkuProps ------------------------------
(***************************************************************************)
(* What the PKU tab, its service and the driver are meant to guarantee.    *)
(* Nothing is claimed once a handler wrote outside its data or two raced   *)
(* for it, which is undefined behaviour.                                   *)
(***************************************************************************)
EXTENDS PkuTab

\* The state has its types, as far as the control goes.
TypeOK ==
  /\ service \in {"starting", "serving", "deaf"}
  /\ up \in BOOLEAN /\ spoiled \in BOOLEAN
  /\ tab \in [Tabs -> {"closed", "open"}]
  /\ stage \in [Clients -> {"none", "service", "driver", "inside", "answer"}]
  /\ label \in [Tabs -> {"none", "waiting", "fill_in", "ok", "error", "network"}]
  /\ DOMAIN store.modes = 1..PkuCount /\ DOMAIN store.durations = 1..PkuCount
  /\ DOMAIN store.information.fields = Fields

\* The handler of a button reports its outcome.
Tells(g, said) ==
  stage[g] = "answer" /\ label'[g] = said /\ label'[g] # label[g] /\ ~spoiled

\* No text of the fields had a ";" of its own: the rest of such a field is
\* taken for the next one.
OnePieceEach(g) ==
  /\ asked[g].button = "write_main" => Len(asked[g].parameter) = 8
  /\ asked[g].button = "send_rk" => Len(asked[g].parameter) = 3

\* What the tab reports as done is what the operator asked for: the driver
\* carried out that command with those values, through the texts cut at ";",
\* the parsing and the two requests.  The exception is a ";" typed into a field of
\* the main information or of an RK, which nothing refuses: "1;2" and "5" are sent
\* as the RK 1 with the duration 2 and reported as done.
SuccessIsTrue ==
  [][\A g \in Tabs : Tells(g, "ok") /\ asked[g].meant # None /\ OnePieceEach(g) =>
       carried[g] = asked[g].meant]_vars

\* The places of the fields on the display.
Order == <<"description", "mac", "ip", "netmask", "gateway", "dns">>

WellFormed(f, t) ==
  CASE f = "description" -> t \in Plain
    [] f = "mac" -> t \in Macs
    [] OTHER -> t \in Addresses

\* A field that is read back as one piece: a description, or a well-formed text
\* without the byte 0x3B, which is a ";" when it is read back.
OnePiece(f, t) == f = "description" \/ (WellFormed(f, t) /\ t \notin Awkward)

OnePieceUpTo(k, fields) == \A j \in 1..k : OnePiece(Order[j], fields[Order[j]])

\* What is displayed as read is what was last written, by whomever, before it
\* was read: every well-formed field in its place, through the bytes of the
\* driver, the cutting of the block and the splitting of the answer.  And every
\* selected PKU has its own duration.  The exceptions: a field with the byte 0x3B,
\* and every field behind one or behind a malformed one, whose bytes may hold it
\* too (the IP 59.1.1.1.7 does); and a description that is not ASCII, which
\* src/documentation/pku/execution.tex:43 promises in UTF-8 and the service reads
\* as Latin-1.  The durations come by the number of the PKU, as the GUI reads them;
\* src/pku/src/api/pku_driver.proto:46-49 documents them in the order of the
\* indices asked for.
ReadsWhatWasWritten ==
  [][\A g \in Tabs : Tells(g, "ok") =>
    /\ asked[g].button = "read_main" /\ saw[g] = None =>
         \A k \in 1..6 : shown'[g][k] = Factory
    /\ asked[g].button = "read_main" /\ saw[g] # None =>
         LET fields == saw[g].fields IN
         /\ \A k \in 1..6 : OnePieceUpTo(k, fields) /\ WellFormed(Order[k], fields[Order[k]]) =>
              shown'[g][k] = fields[Order[k]]
         /\ OnePieceUpTo(6, fields) => shown'[g][7] = (IF saw[g].use_dhcp THEN 1 ELSE 0)
    /\ asked[g].button = "read_pku" =>
         \A k \in 1..Len(asked[g].meant.indices) :
           shown'[g][k] = store.durations[asked[g].meant.indices[k]]]_vars

\* The GUI comes back from every call, although none but the first has a
\* deadline: whatever crashes or stops on the way.
TabComesBack == \A g \in Tabs : stage[g] # "none" ~> stage[g] = "none"

\* An RK the driver accepted, with a number from 1 to RkCount, is one it has a
\* place for.
RkIsInMemory ==
  \A c \in Clients : carried[c].rpc = "SendRkByIndex" /\ carried[c].index \in 1..RkCount =>
    carried[c].index \in DOMAIN store.rk
=============================================================================
