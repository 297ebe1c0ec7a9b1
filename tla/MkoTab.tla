-------------------------------- MODULE MkoTab --------------------------------
(***************************************************************************)
(* The MKO tab of the GUI in front of the unary calls of the service: its  *)
(* number boxes, its tables of data words with the files they are loaded   *)
(* from and saved to, and the buttons, each of which makes one synchronous *)
(* call.  Calls that are not the tab's come from other clients.            *)
(*                                                                         *)
(* A text is what the conversions tell apart: the base it is written in,   *)
(* "dec", "hex", "zero" (decimal digits after a leading zero), "part" (the *)
(* beginning of a number) or "word", and the number n a reader sees in it. *)
(***************************************************************************)
EXTENDS MkoCommands, Sequences, FiniteSets

CONSTANTS
  Tables,       \* the buttons whose group has a table of words
  TableSize,    \* WORD_COUNT, 32 in the code
  Numbers,      \* what is typed into a number box
  Cells,        \* what is typed into a cell
  Absent,       \* a file that is not there
  Disks,        \* what the files may hold at first: [text, binary], lines of texts and words
  Uint32,       \* 2^32, scaled
  MaxEdits, MaxPressed      \* bounds: how often the form changes, and before a press

\* A box holds an int, half as wide as uint32 is, and an int holds more than the
\* addresses of the bus.
ASSUME TabAssumption ==
  /\ Tables \subseteq {"ConfigureExchange", "WriteOuSubaddress", "SendRawOuData"}
  /\ TableSize \in 1..32 /\ Uint32 \in Nat /\ Uint32 >= 62
  /\ \A n \in Numbers : n \in Int /\ -Uint32 <= 2 * n /\ 2 * n < Uint32
  /\ \A x \in Cells : x.base = "zero" => x.n \in Nat

VARIABLES
  mine,         \* the calls the tab makes
  box,          \* the number boxes
  table,        \* the tables of words, by button
  textfile, binaryfile,     \* a file of each kind
  saved,        \* the table a file was saved from, by kind (history)
  log,          \* what the tab says of each of its calls
  edits         \* so far

form == <<box, table, textfile, binaryfile, saved, edits>>
tabVars == <<mine, form, log>>
allVars == <<vars, tabVars>>

MAX_MKO_WORD_VALUE == 65535

-----------------------------------------------------------------------------
(* Numbers and texts.                                                      *)

Text(base, n) == [base |-> base, n |-> n]

Digit(n, place10) == (n \div place10) % 10

\* toUInt with base 0 takes digits after a leading zero for octal ones.
Octal(n) ==
  4096 * Digit(n, 10000) + 512 * Digit(n, 1000) + 64 * Digit(n, 100) + 8 * Digit(n, 10) + Digit(n, 1)

IsNumber(t) ==
  \/ t.base \in {"dec", "hex"}
  \/ t.base = "zero" /\ \A p \in {1, 10, 100, 1000, 10000} : Digit(t.n, p) < 8

toUInt(t) == IF t.base = "zero" THEN Octal(t.n) ELSE t.n

\* What the editor of a cell lets stand when it loses the focus.
WordValueValidator(t) ==
  t.base = "part" \/ (t.base \in {"dec", "hex", "zero"} /\ t.n <= MAX_MKO_WORD_VALUE)

\* Mutant: hexadecimal digits without their prefix.
format_word_bare(n) == Text("zero", n)

format_word(n) == Text("hex", n)

\* Mutant: a cell that is no number is passed over.
collect_words_dense(t) ==
  LET numbers == SelectSeq(t, IsNumber) IN [k \in DOMAIN numbers |-> toUInt(numbers[k])]

collect_words(t) == [k \in 1..TableSize |-> IF IsNumber(t[k]) THEN toUInt(t[k]) ELSE 0]

set_words(words) ==
  [k \in 1..TableSize |->
    format_word(IF k <= Len(words) /\ words[k] <= MAX_MKO_WORD_VALUE THEN words[k] ELSE 0)]

IsWord(t) == IsNumber(t) /\ toUInt(t) <= MAX_MKO_WORD_VALUE

\* The last part of a line that is a word.
parse_word_line(line) ==
  LET last == CHOOSE k \in DOMAIN line :
                IsWord(line[k]) /\ \A j \in DOMAIN line : j > k => ~IsWord(line[j])
  IN  toUInt(line[last])

\* The words of a file: a line without one is skipped.
Nth(S, n) == CHOOSE k \in S : Cardinality({i \in S : i <= k}) = n

words_of(file) ==
  LET rows == {k \in DOMAIN file : \E i \in DOMAIN file[k] : IsWord(file[k][i])}
  IN  [n \in 1..Cardinality(rows) |-> parse_word_line(file[Nth(rows, n)])]

Cast(n) == n % Uint32

-----------------------------------------------------------------------------
(* The form.  The GUI thread is in a call from the press to its answer;    *)
(* the form is edited as long as the tab may call again.                   *)

Busy == \E c \in mine : place[c] \notin {"editing", "returned"} \/ (place[c] = "returned" /\ log[c] = "none")

Edit ==
  /\ ~Busy /\ edits < MaxEdits /\ \E c \in mine : place[c] = "editing"
  /\ edits' = edits + 1
  /\ UNCHANGED <<vars, mine, log>>

IndexBoxes == {"kk", "ou"}

Boxes == IndexBoxes \union {"address", "subaddress", "index"}

alternate_mko_index(n) == IF n = 1 THEN 2 ELSE 1

\* Mutant: only the box of KK is connected.
sync_mko_indices_kk(changed, b) ==
  IF changed = "kk" /\ b.kk = b.ou THEN [b EXCEPT !.ou = alternate_mko_index(b.kk)] ELSE b

\* The other box gives way.  What it announces then is not looked at.
sync_mko_indices(changed, b) ==
  LET other == IF changed = "kk" THEN "ou" ELSE "kk" IN
  IF b[changed] = b[other] THEN [b EXCEPT ![other] = alternate_mko_index(b[changed])] ELSE b

\* A box takes every int: create_spin_box ignores the range it is given.
SetIndex(which) ==
  /\ Edit
  /\ \E n \in Numbers :
       /\ n # box[which]
       /\ box' = sync_mko_indices(which, [box EXCEPT ![which] = n])
  /\ UNCHANGED <<table, textfile, binaryfile, saved>>

SetNumber(which) ==
  /\ Edit
  /\ \E n \in Numbers : box' = [box EXCEPT ![which] = n]
  /\ UNCHANGED <<table, textfile, binaryfile, saved>>

EditCell(t) ==
  /\ Edit
  /\ \E k \in 1..TableSize, x \in Cells :
       WordValueValidator(x) /\ table' = [table EXCEPT ![t][k] = x]
  /\ UNCHANGED <<box, textfile, binaryfile, saved>>

Defaults == [kk |-> 1, ou |-> 2, address |-> 1, subaddress |-> 0, index |-> 2]

Zeros == [k \in 1..TableSize |-> Text("dec", 0)]

\* The boxes of the indices are not synchronised meanwhile.
reset_parameters_to_defaults ==
  /\ Edit
  /\ box' = Defaults /\ table' = [t \in Tables |-> Zeros]
  /\ UNCHANGED <<textfile, binaryfile, saved>>

\* Words beyond the table are left out, missing ones are zero.
load_words_from_file(t) ==
  /\ Edit /\ textfile # Absent
  /\ table' = [table EXCEPT ![t] = set_words(words_of(textfile))]
  /\ UNCHANGED <<box, textfile, binaryfile, saved>>

\* One line for each word: its name, then the word.
lines_of(words) == [k \in DOMAIN words |-> <<Text("word", k), format_word(words[k])>>]

save_words_to_file(t) ==
  /\ Edit
  /\ textfile' = lines_of(collect_words(table[t]))
  /\ saved' = [saved EXCEPT !.text = table[t]]
  /\ UNCHANGED <<box, table, binaryfile>>

\* A word that is too large keeps its place.
load_words_from_binary_file(t) ==
  /\ Edit /\ binaryfile # Absent
  /\ table' = [table EXCEPT ![t] = set_words(binaryfile)]
  /\ UNCHANGED <<box, textfile, binaryfile, saved>>

save_words_to_binary_file(t) ==
  /\ Edit
  /\ binaryfile' = collect_words(table[t])
  /\ saved' = [saved EXCEPT !.binary = table[t]]
  /\ UNCHANGED <<box, table, textfile>>

-----------------------------------------------------------------------------
(* The buttons and the GUI's client.                                       *)

Request(method, index, address, subaddress, sd) ==
  [method |-> method, index |-> index, address |-> address,
   subaddress |-> subaddress, words |-> Len(sd), sd |-> sd]

\* What each button asks.  RunExchange names the board only; the two buttons that
\* clear a buffer ask the same.  Each group has boxes of its own, and no request
\* is made from two of a kind: one box here stands for those of its kind.
ConfigureKK == Request("ConfigureKK", box.kk, box.address, 0, << >>)

ConfigureExchange == Request("ConfigureExchange", 0, 0, 0, collect_words(table["ConfigureExchange"]))

RunExchange == Request("RunExchange", 0, 0, 0, << >>)

ConfigureOu == Request("ConfigureOu", box.ou, box.address, 0, << >>)

ReadOuSubaddress == Request("ReadOuSubaddress", 0, 0, Cast(box.subaddress), << >>)

WriteOuSubaddress ==
  Request("WriteOuSubaddress", 0, 0, Cast(box.subaddress), collect_words(table["WriteOuSubaddress"]))

SendRawOuData ==
  Request("SendRawOuData", 0, 0, Cast(box.subaddress), collect_words(table["SendRawOuData"]))

SetOuResponseWord == Request("SetOuResponseWord", box.index, box.address, 0, << >>)

ClearBuffer == Request("ClearBuffer", box.index, 0, 0, << >>)

Asks ==
  {ConfigureKK, RunExchange, ConfigureOu, ReadOuSubaddress, SetOuResponseWord, ClearBuffer}
    \union (IF "ConfigureExchange" \in Tables THEN {ConfigureExchange} ELSE {})
    \union (IF "WriteOuSubaddress" \in Tables THEN {WriteOuSubaddress} ELSE {})
    \union (IF "SendRawOuData" \in Tables THEN {SendRawOuData} ELSE {})

Press(c) ==
  /\ ~Busy /\ c \in mine /\ place[c] = "editing" /\ edits <= MaxPressed
  /\ \E asked \in Asks : request' = [request EXCEPT ![c] = asked]
  /\ place' = [place EXCEPT ![c] = "idle"]
  /\ UNCHANGED <<prompt, stage, context, code, connected, clock, world, tabVars>>

\* There is no service, or it dies during the call: the tab gets a status, and
\* the driver may be at work on the request.
ServiceLost(c) ==
  /\ c \in mine /\ place[c] \in {"idle", "calling"}
  /\ Return(c, "UNAVAILABLE")
  /\ UNCHANGED <<request, prompt, stage, context, connected, clock, world, tabVars>>

\* Every status but OK becomes an exception, and that a line of the log.
Show(c) ==
  /\ c \in mine /\ place[c] = "returned" /\ log[c] = "none"
  /\ log' = [log EXCEPT ![c] = IF code[c] = "OK" THEN "ok" ELSE "error"]
  /\ UNCHANGED <<vars, mine, form>>

-----------------------------------------------------------------------------
TabInit ==
  /\ Fresh /\ mine \in SUBSET Calls
  /\ place = [c \in Calls |-> IF c \in mine THEN "editing" ELSE "idle"]
  /\ \E asked \in [Calls -> Requests] :
       request = [c \in Calls |-> IF c \in mine THEN Request("RunExchange", 0, 0, 0, << >>) ELSE asked[c]]
  /\ box = Defaults /\ table = [t \in Tables |-> Zeros]
  /\ \E disk \in Disks : textfile = disk.text /\ binaryfile = disk.binary
  /\ saved = [text |-> << >>, binary |-> << >>]
  /\ log = [c \in Calls |-> "none"] /\ edits = 0

\* Only the other clients leave a call.
CallStep(c) ==
  /\ ServiceStep(c) \/ Tick(c) \/ Expire(c) \/ (c \notin mine /\ Cancel(c)) \/ Lost(c) \/ DriverStep(c)
  /\ UNCHANGED tabVars

TabStep ==
  \/ \E which \in Boxes : IF which \in IndexBoxes THEN SetIndex(which) ELSE SetNumber(which)
  \/ \E t \in Tables :
       \/ EditCell(t) \/ load_words_from_file(t) \/ save_words_to_file(t)
       \/ load_words_from_binary_file(t) \/ save_words_to_binary_file(t)
  \/ reset_parameters_to_defaults
  \/ \E c \in Calls : ServiceLost(c) \/ Show(c) \/ Press(c)

\* Every call is over, or not made yet.
TabQuiet ==
  /\ ~Busy /\ \A c \in Calls : place[c] \in {"returned", "editing"} /\ driver[c] \in {"none", "done"}
  /\ UNCHANGED allVars

TabNext == (\E c \in Calls : CallStep(c)) \/ TabStep \/ TabQuiet

TabSpec == TabInit /\ [][TabNext]_allVars

\* As for the calls alone; the GUI thread runs.
TabFairSpec ==
  /\ TabSpec
  /\ \A c \in Calls :
       /\ WF_allVars(ServiceStep(c) /\ UNCHANGED tabVars) /\ WF_allVars(Tick(c) /\ UNCHANGED tabVars)
       /\ WF_allVars(Expire(c) /\ UNCHANGED tabVars) /\ WF_allVars(Show(c))
       /\ WF_allVars(prompt /\ DriverStep(c) /\ UNCHANGED tabVars)
=============================================================================
