----------------------------- MODULE PkuService -----------------------------
(***************************************************************************)
(* The PKU service: from a command number and a parameter text to the      *)
(* driver's request, and from the driver's answer to the result text.      *)
(*                                                                         *)
(* The parameter is given split at ";", its pieces numbers or other texts. *)
(* Each conversion returns a request, or [error |-> why].                  *)
(***************************************************************************)
EXTENDS PkuDriver

CONSTANTS
  MaxUint32,    \* the largest value of a uint32 field
  NotNumbers    \* pieces that are no number

\* A number outside 0..MaxUint32 makes the assignment raise ValueError: the
\* conversions but StrToReadPku do not catch it, SendCommand does, and takes it
\* for an unknown command.
Error(why) == [error |-> why]
Failed(x) == "error" \in DOMAIN x

\* Python's int(), the check of the sign, the assignment.
Parse(piece, why) ==
  IF piece \in NotNumbers \/ piece < 0 THEN Error(why)
  ELSE IF piece > MaxUint32 THEN Error("unknown_command") ELSE [value |-> piece]

\* The first of two errors, or what is made of two values.
Both(a, b, made) == IF Failed(a) THEN a ELSE IF Failed(b) THEN b ELSE made

-----------------------------------------------------------------------------
(* conversion/: parameters to requests.                                    *)

StrToSendRkByIndexRequest(p) ==
  LET index == Parse(p[1], "index")
      duration == IF Len(p) < 2 THEN Error("parameters") ELSE Parse(p[2], "duration")
      operation == IF Len(p) < 3 THEN Error("parameters") ELSE [value |-> p[3]]
  IN  IF Failed(index) THEN index
      ELSE Both(duration, operation,
                [rpc |-> "SendRkByIndex", index |-> index.value, value |-> duration.value])

StrToSetPkuModeRequest(p) ==
  LET index == Parse(p[1], "index")
      mode == IF Len(p) < 2 THEN Error("parameters") ELSE Parse(p[2], "mode")
      operation == IF Len(p) < 3 THEN Error("parameters") ELSE [value |-> p[3]]
  IN  IF Failed(index) THEN index
      ELSE Both(mode, operation,
                [rpc |-> "SetPkuMode", index |-> index.value, value |-> mode.value])

\* Every piece but the last is an index; a value that does not fit is an
\* incorrect index here.
StrToReadPkuRequest(p) ==
  LET indices == SubSeq(p, 1, Len(p) - 1)
  IN  IF \A k \in 1..Len(indices) : ~Failed(Parse(indices[k], "index"))
      THEN [rpc |-> "ReadPku", indices |-> indices] ELSE Error("index")

\* Mutant: the mask and the gateway are swapped.
StrToWriteMainInfoRequestSwapped(p) ==
  IF Len(p) < 8 THEN Error("parameters")
  ELSE [rpc |-> "WriteMainInfo", use_dhcp |-> p[7] = 1,
        fields |-> [description |-> p[1], mac |-> p[2], ip |-> p[3],
                    netmask |-> p[5], gateway |-> p[4], dns |-> p[6]]]

StrToWriteMainInfoRequest(p) ==
  IF Len(p) < 8 THEN Error("parameters")
  ELSE [rpc |-> "WriteMainInfo", use_dhcp |-> p[7] = 1,
        fields |-> [description |-> p[1], mac |-> p[2], ip |-> p[3],
                    netmask |-> p[4], gateway |-> p[5], dns |-> p[6]]]

-----------------------------------------------------------------------------
(* executors/: one per command.  What is asked of the driver.              *)

ConnectionCheckExecutor == [rpc |-> "CheckConnection"]
HardwareStatusExecutor == [rpc |-> "GetHardwareStatus"]
MainInformationReadingExecutor == [rpc |-> "ReadMainInfo"]
MainInformationWritingExecutor(p) == StrToWriteMainInfoRequest(p)
PkuReadingExecutor(p) == StrToReadPkuRequest(p)
PkuModeSettingExecutor(p) == StrToSetPkuModeRequest(p)
RkSendingExecutor(p) == StrToSendRkByIndexRequest(p)
VersionExecutor == [rpc |-> "GetVersion"]

\* SendCommand up to the call of the driver.
SendCommand(id, p) ==
  CASE id = 1 -> ConnectionCheckExecutor
    [] id = 2 -> HardwareStatusExecutor
    [] id = 3 -> MainInformationReadingExecutor
    [] id = 4 -> MainInformationWritingExecutor(p)
    [] id = 5 -> PkuReadingExecutor(p)
    [] id = 6 -> PkuModeSettingExecutor(p)
    [] id = 7 -> RkSendingExecutor(p)
    [] id = 8 -> VersionExecutor
    [] OTHER -> Error("unknown_command")

-----------------------------------------------------------------------------
(* conversion/: answers to results.  The text is its pieces.               *)

Success(pieces) == [success |-> TRUE, text |-> pieces]
Failure(why) == [success |-> FALSE, text |-> <<why>>]

StandardResponseToCommandResponse(a) == Success(<<a.data>>)

VersionInfoToCommandResponse(a) == Success(<<a.data>>)

ReadPkuResponseToCommandResponse(a) == Success(a.data)

\* The last of the 151 bytes is indexed, not sliced.
ReadMemoryResponseToCommandResponse(a) ==
  IF a.data.whole THEN Success(a.data.pieces) ELSE Failure("incomplete")

Result(a) ==
  CASE a.kind = "memory" -> ReadMemoryResponseToCommandResponse(a)
    [] a.kind = "durations" -> ReadPkuResponseToCommandResponse(a)
    [] a.kind = "version" -> VersionInfoToCommandResponse(a)
    [] OTHER -> StandardResponseToCommandResponse(a)

\* Every RpcError of the driver call.
ConnectionLost == Failure("connection")
=============================================================================
