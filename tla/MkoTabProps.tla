------------------------------ MODULE MkoTabProps ------------------------------
(***************************************************************************)
(* What the MKO tab is meant to guarantee to the operator in front of it.  *)
(***************************************************************************)
EXTENDS MkoTab, MkoCommandsProps

\* The boxes never show one MKO for KK and OU at the same time, whatever is
\* typed in which order and reset in between.
Apart == box.kk # box.ou

\* What the operator sees in a table.
Shown(t) == [k \in 1..TableSize |-> IF t[k].base = "part" THEN 0 ELSE t[k].n]

\* What the table shows where the documentation and the validator of the cells
\* agree with the conversion: decimal digits after a leading zero are let in as
\* decimal and sent as octal.
Unambiguous(t) == \A k \in 1..TableSize : t[k].base # "zero"

\* "Successfully" in the log means that the driver carried out what is on the
\* screen: the words of the table, each in its place and none too large, at the
\* subaddress shown, for the MKO and the address shown, where the OU calls make
\* MKO 1 of an index below 1.  There are two exceptions.  A cell with a leading
\* zero is sent as octal.  And a negative subaddress wraps: the service refuses
\* it for ReadOuSubaddress and WriteOuSubaddress, but SendRawOuData is not checked,
\* and the log says success of -1 while 4294967295 was sent.
OkIsWhatWasShown ==
  [][\A c \in mine : log[c] = "none" /\ log'[c] = "ok" =>
       LET r == request[c] IN
       /\ applied[c] /\ r.method # "ClearBuffer"
       /\ r.method \in {"ReadOuSubaddress", "WriteOuSubaddress"} => r.subaddress = box.subaddress
       /\ r.method = "SendRawOuData" /\ box.subaddress >= 0 => r.subaddress = box.subaddress
       /\ r.method = "ConfigureKK" => r.address = box.address /\ sent[c] = box.kk
       /\ r.method = "ConfigureOu" =>
            r.address = box.address /\ sent[c] = IF box.ou < 1 THEN 1 ELSE box.ou
       /\ r.method = "SetOuResponseWord" =>
            r.address = box.address /\ sent[c] = IF box.index < 1 THEN 1 ELSE box.index
       /\ \A t \in Tables : r.method = t =>
            /\ \A k \in 1..r.words : r.sd[k] <= MAX_MKO_WORD_VALUE
            /\ Unambiguous(table[t]) => r.sd = Shown(table[t])]_allVars

\* What was saved is what is loaded again, in either format and into any table:
\* the numbers, and each in its row.
SavedIsLoaded ==
  [][\A t \in Tables :
       /\ load_words_from_file(t) /\ saved.text # << >> /\ Unambiguous(saved.text) =>
            Shown(table'[t]) = Shown(saved.text)
       /\ load_words_from_binary_file(t) /\ saved.binary # << >> /\ Unambiguous(saved.binary) =>
            Shown(table'[t]) = Shown(saved.binary)]_allVars
=============================================================================
