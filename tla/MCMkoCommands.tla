---------------------------- MODULE MCMkoCommands ----------------------------
(* The instance of the unary calls and the tab for TLC: both sides of every *)
(* bound, and every kind of text.                                           *)
EXTENDS MkoTabProps

Plain == [method |-> "RunExchange", index |-> 1, address |-> 1, subaddress |-> 1, words |-> 1]

MCRequests ==
  {[Plain EXCEPT !.method = m] : m \in {"RunExchange", "GetStatus", "ClearBuffer"}}
    \union {[Plain EXCEPT !.method = "ConfigureKK", !.index = i, !.address = a] :
              i \in {-1, 1}, a \in {30, 31}}
    \union {[Plain EXCEPT !.method = "ConfigureExchange", !.words = n] : n \in {0, 33}}
    \union {[Plain EXCEPT !.method = "ConfigureOu", !.index = i, !.address = a] :
              i \in {-1, 0, 1, 2}, a \in {-1, 0, 30, 31}}
    \union {[Plain EXCEPT !.method = "SetOuResponseWord", !.index = i, !.address = a] :
              i \in {-1, 0, 1}, a \in {30, 31}}
    \union {[Plain EXCEPT !.method = "ReadOuSubaddress", !.subaddress = s] :
              s \in {0, 30, 31}}
    \union {[Plain EXCEPT !.method = m, !.subaddress = s, !.words = n] :
              m \in {"WriteOuSubaddress", "SendRawOuData"}, s \in {30, 31}, n \in {0, 1, 32, 33}}
MCNumbers == {-1, 1, 31}

MCCells == {Text("dec", 9), Text("hex", 65535), Text("hex", 65536), Text("zero", 10), Text("part", 0)}

\* One of the files is not there.  The lines are one without a word, a numbered
\* word, bare words, one too many; a word of the binary file is too large.
MCDisks ==
  {[text |-> <<<<Text("dec", 70000)>>, <<Text("word", 1), Text("hex", 9)>>, <<Text("zero", 10)>>,
               <<Text("dec", 7)>>>>, binary |-> Absent],
   [text |-> Absent, binary |-> <<70000, 8, 9>>]}
=============================================================================
