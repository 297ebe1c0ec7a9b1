----------------------------- MODULE MCRs485Send -----------------------------
(* The instance of sending over RS-485 for TLC. *)
EXTENDS Rs485SendProps

CONSTANTS word

MCTexts == {<<170, 0>>, <<word, 170>>}

MCContents == {Absent, << >>, <<255>>}

MCRawRequests ==
  {[channel |-> 0, data |-> << >>], [channel |-> 101, data |-> <<7>>],
   [channel |-> 500, data |-> <<7>>]}

\* A response of default values, no response, and a status after a success.
MCOddAnswers ==
  [n \in {0, 1, 101, 500} |-> IF n # 0 THEN {} ELSE
    {[response |-> Says(FALSE, "NO_ERROR", 0), status |-> "OK"],
     [response |-> Silence, status |-> "OK"],
     [response |-> Says(TRUE, "NO_ERROR", 0), status |-> "DEADLINE_EXCEEDED"]}]
=============================================================================
