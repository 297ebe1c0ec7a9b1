------------------------------ MODULE PkuDriver ------------------------------
(***************************************************************************)
(* The driver plug of the control panel: what it stores and what each RPC  *)
(* does to it.  A handler is an operator from the stored data and the      *)
(* request to the data after it; the state machine is in PkuTab.           *)
(*                                                                         *)
(* A text is a piece: nothing of it matters but whether it is a number, an *)
(* address, empty, or contains the delimiter once it is bytes.             *)
(***************************************************************************)
EXTENDS Integers, Sequences

CONSTANTS
  PkuCount, RkCount,    \* 64 and 48 in the code
  Plain,                \* descriptions of at most 120 ASCII characters
  Macs, Addresses,      \* texts of six hexadecimal and of four decimal bytes
  Awkward,              \* those of them with the byte 0x3B, a ";" when read back
  Factory, Garbage,     \* what the panel is delivered with; bytes of no meaning
  MaxPieces             \* bound: of a field cut at its bytes, 7 for a MAC of them alone

ASSUME SizesAssumption ==
  PkuCount \in Nat \ {0} /\ RkCount \in Nat \ {0} /\ MaxPieces \in Nat \ {0, 1}

Fields == {"description", "mac", "ip", "netmask", "gateway", "dns"}

\* A stored field: the pieces its bytes are split into when they are read
\* back, and whether it has its full size.
Full(text) == [pieces |-> <<text>>, whole |-> TRUE]

-----------------------------------------------------------------------------
(* Conversions: the stored fields a text may become.  A byte that does not *)
(* parse leaves the variable it should be read into uninitialised, and     *)
(* bytes beyond the size of the field are cut off, so malformed text       *)
(* becomes any bytes, the delimiter among them, or too few.                *)

\* Cut and padded to 120 bytes; what is not ASCII comes back in Latin-1, and no
\* byte of it is the delimiter.
convert_description(t) ==
  {Full(IF t \in Plain THEN t ELSE Garbage)}

\* Bytes of the full size in so many pieces or more.
Cut(fewest) == {[pieces |-> [k \in 1..n |-> Garbage], whole |-> TRUE] : n \in fewest..MaxPieces}

Malformed == Cut(1) \union {[pieces |-> <<Garbage>>, whole |-> FALSE]}

WellFormedBytes(t) == IF t \in Awkward THEN Cut(2) ELSE {Full(t)}

convert_mac(t) == IF t \in Macs THEN WellFormedBytes(t) ELSE Malformed

convert_address(t) == IF t \in Addresses THEN WellFormedBytes(t) ELSE Malformed

Converted(f, t) ==
  CASE f = "description" -> convert_description(t)
    [] f = "mac" -> convert_mac(t)
    [] OTHER -> convert_address(t)

-----------------------------------------------------------------------------
(* The handlers.                                                           *)

InitialInformation ==
  [fields |-> [f \in Fields |-> Full(Factory)], use_dhcp |-> TRUE]

\* The constructor.  rk_durations_ms{RK_COUNT, INITIAL_RK_DURATION} is a list
\* of two elements, not RK_COUNT copies of one.
PkuDriverPlug ==
  [durations |-> [i \in 1..PkuCount |-> 1], modes |-> [i \in 1..PkuCount |-> 0],
   rk |-> <<RkCount, 1>>, information |-> InitialInformation]

WriteMainInfo(s, r) ==
  LET t == r.fields IN
  {[s EXCEPT !.information = [fields |-> stored, use_dhcp |-> r.use_dhcp]] : stored \in
     [description : convert_description(t["description"]), mac : convert_mac(t["mac"]),
      ip : convert_address(t["ip"]), netmask : convert_address(t["netmask"]),
      gateway : convert_address(t["gateway"]), dns : convert_address(t["dns"])]}

\* Inside the vector; what happens outside it is said by OutOfMemory.
SetPkuMode(s, r) ==
  [s EXCEPT !.modes = [i \in DOMAIN @ |-> IF i = r.index THEN r.value ELSE @[i]]]

SendRkByIndex(s, r) ==
  [s EXCEPT !.rk = [i \in DOMAIN @ |-> IF i = r.index THEN r.value ELSE @[i]]]

\* PKU_COUNT values whatever was asked: zero where it was not.
ReadPku(s, r) ==
  [i \in 1..PkuCount |->
     IF \E k \in 1..Len(r.indices) : r.indices[k] = i THEN s.durations[i] ELSE 0]

\* The block of 151 bytes, cut at every ";"; a field that is too short makes
\* it shorter than that.
convert_main_information(s) ==
  LET f == s.information.fields IN
  [whole |-> \A n \in Fields : f[n].whole,
   pieces |-> <<Factory, Factory>> \o f["description"].pieces \o f["mac"].pieces
     \o f["ip"].pieces \o f["netmask"].pieces \o f["gateway"].pieces
     \o f["dns"].pieces \o <<IF s.information.use_dhcp THEN 1 ELSE 0>>]

\* The vectors are indexed with index - 1 and never checked; 0 becomes 2^32 - 1.
OutOfMemory(s, r) ==
  CASE r.rpc = "SetPkuMode" -> r.index \notin DOMAIN s.modes
    [] r.rpc = "SendRkByIndex" -> r.index \notin DOMAIN s.rk
    [] r.rpc = "ReadPku" -> \E k \in 1..Len(r.indices) : r.indices[k] \notin 1..PkuCount
    [] OTHER -> FALSE

\* What the data may become.
Effects(s, r) ==
  CASE OutOfMemory(s, r) -> {s}
    [] r.rpc = "WriteMainInfo" -> WriteMainInfo(s, r)
    [] r.rpc = "SetPkuMode" -> {SetPkuMode(s, r)}
    [] r.rpc = "SendRkByIndex" -> {SendRkByIndex(s, r)}
    [] OTHER -> {s}

\* What is answered: every handler reports success.
VERSION == "0.04"

Answer(s, r) ==
  CASE r.rpc = "ReadMainInfo" -> [kind |-> "memory", data |-> convert_main_information(s)]
    [] r.rpc = "ReadPku" -> [kind |-> "durations", data |-> ReadPku(s, r)]
    [] r.rpc = "GetVersion" -> [kind |-> "version", data |-> VERSION]
    [] OTHER -> [kind |-> "standard", data |-> ""]

\* Both touch the strings of the main information, one writes them: a race.
Conflict(r, t) ==
  /\ {r.rpc, t.rpc} \subseteq {"ReadMainInfo", "WriteMainInfo"}
  /\ "WriteMainInfo" \in {r.rpc, t.rpc}
=============================================================================
