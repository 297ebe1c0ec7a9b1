--------------------------- MODULE MkoCommandsProps ---------------------------
(***************************************************************************)
(* What the unary calls of the MKO service are meant to guarantee.         *)
(***************************************************************************)
EXTENDS MkoCommands

Codes == {"NONE", "OK", "INVALID_ARGUMENT", "FAILED_PRECONDITION",
          "DEADLINE_EXCEEDED", "UNAVAILABLE", "UNIMPLEMENTED", "INTERNAL"}

Answers == Refusals \union {"NONE", "SUCCESS", "DEADLINE_EXCEEDED", "UNAVAILABLE", "CANCELLED"}

\* The state has its types.
TypeOK ==
  /\ prompt \in BOOLEAN /\ place \in [Calls -> {"editing", "idle", "calling", "returned"}]
  /\ stage \in [Calls -> {"only", "version", "ping"}]
  /\ context \in [Calls -> {"live", "expired", "cancelled"}]
  /\ clock \in [Calls -> 0..unaryTimeout] /\ working \in [Calls -> 0..unaryTimeout]
  /\ \A c \in Calls : working[c] <= clock[c]
  /\ sent \in [Calls -> Int]
  /\ driver \in [Calls -> {"none", "wire", "working", "done"}]
  /\ applied \in [Calls -> BOOLEAN] /\ connected \in [Calls -> BOOLEAN]
  /\ reply \in [Calls -> Answers] /\ code \in [Calls -> Codes]

\* The request has left for the driver.
OnBoard(c) == driver[c] # "none"

\* What the service checks for the terminal is checked before the driver has it,
\* whatever the caller asks: ConfigureOu and SetOuResponseWord send no index below
\* 1, ConfigureOu no address outside 0..30, ReadOuSubaddress and WriteOuSubaddress
\* no subaddress above 30, and WriteOuSubaddress 1 to 32 words.  The rest is not
\* checked, on purpose or not: the address of SetOuResponseWord, all of
\* SendRawOuData, and all of ConfigureKK and ConfigureExchange, whose index,
\* address and number of words reach the driver as they come.
OuInputIsChecked ==
  \A c \in Calls : OnBoard(c) =>
    /\ KK(c) => sent[c] = request[c].index
    /\ Method(c) \in {"ConfigureOu", "SetOuResponseWord"} => sent[c] >= 1
    /\ Method(c) = "ConfigureOu" => request[c].address >= 0 /\ request[c].address < 31
    /\ Method(c) \in {"ReadOuSubaddress", "WriteOuSubaddress"} => request[c].subaddress < 31
    /\ Method(c) = "WriteOuSubaddress" => request[c].words >= 1 /\ request[c].words < 33

\* What the caller is told is true: OK means that the driver carried the call
\* out, and "connected" that it answered both calls of this GetStatus; a refused
\* argument means that nothing was sent.
ToldTheTruth ==
  \A c \in Calls :
    /\ code[c] = "OK" /\ Method(c) # "GetStatus" => applied[c]
    /\ connected[c] => stage[c] = "ping" /\ reply[c] = "SUCCESS" /\ applied[c]
    /\ code[c] = "INVALID_ARGUMENT" => driver[c] = "none"

\* On a prompt network a driver that answers within its own wait for the board
\* is heard: no call of the OU client gives up before it.  It does not hold for
\* KK, whose timeout is the driver's own.
DriverIsHeard ==
  \A c \in Calls : prompt /\ context[c] = "expired" => KK(c)

\* Every call returns, even if the driver hangs or the connection is lost.
CallReturns == \A c \in Calls : place[c] = "calling" ~> place[c] = "returned"
=============================================================================
