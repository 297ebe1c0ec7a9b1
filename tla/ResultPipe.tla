------------------------------ MODULE ResultPipe ------------------------------
(***************************************************************************)
(* What a Subscribe call promises its client, whatever threads, queues and *)
(* streams lie between: every subscriber is given the items of its own     *)
(* source, each once, in order, with none skipped, and nothing more after  *)
(* a final item.  Delivery may stop early: the call may be cancelled.      *)
(***************************************************************************)
EXTENDS Naturals, Sequences

CONSTANTS
  Subscribers,
  Items,        \* what a source may hold
  Final         \* the items after which nothing is delivered

VARIABLES
  input,        \* per subscriber, what its source has produced
  output        \* per subscriber, what it was given

pipe == <<input, output>>

Produce(s) ==
  /\ \E i \in Items : input' = [input EXCEPT ![s] = Append(@, i)]
  /\ UNCHANGED output

Give(s) ==
  /\ Len(output[s]) < Len(input[s])
  /\ output[s] # <<>> => output[s][Len(output[s])] \notin Final
  /\ output' = [output EXCEPT ![s] = Append(@, input[s][Len(output[s]) + 1])]
  /\ UNCHANGED input

Init ==
  /\ input = [s \in Subscribers |-> <<>>]
  /\ output = [s \in Subscribers |-> <<>>]

Next == \E s \in Subscribers : Produce(s) \/ Give(s)

Spec == Init /\ [][Next]_pipe
=============================================================================
