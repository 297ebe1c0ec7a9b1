------------------------------- MODULE MCPku -------------------------------
(* Instances of the PKU tab, its service and the driver for TLC. *)
EXTENDS PkuProps

CONSTANTS d1, d2, m1, a1, a59, junk

MCPlain == {d1}
MCMacs == {m1}
MCAddresses == {a1, a59}
MCAwkward == {a59}
MCNotNumbers == {d1, d2, m1, a1, a59, junk, Empty, Op, Factory, Garbage}

Typed(d, m, a, n) ==
  [pieces |-> [f \in Fields |-> CASE f = "description" -> d [] f = "mac" -> m
                                  [] f = "netmask" -> n [] OTHER -> a],
   use_dhcp |-> FALSE]

\* Good and malformed input, a ";" of its own, and a field left empty.
MCInformations ==
  {Typed(<<d1>>, <<m1>>, <<a1>>, <<a1>>), Typed(<<d2>>, <<m1>>, <<a1>>, <<junk>>),
   Typed(<<d1>>, <<m1>>, <<a1, a59>>, <<a1>>), Typed(<<d1>>, <<Empty>>, <<a1>>, <<a1>>)}

Rk(i, d) == [index |-> i, duration |-> d]

MCRkInputs ==
  {Rk(<<Empty>>, <<1>>), Rk(<<1>>, <<RkCount>>), Rk(<<RkCount>>, <<1>>),
   Rk(<<1>>, <<MaxUint32 + 1>>), Rk(<<1, RkCount>>, <<1>>)}

MCSelections == {<< >>, <<2>>, <<2, 1>>}

\* What the others write is awkward in its gateway.
MCCommands ==
  {[id |-> 4, parameter |-> <<d1, m1, a1, a1, a59, a1, 1, Op>>],
   [id |-> 7, parameter |-> <<1>>]}
=============================================================================
