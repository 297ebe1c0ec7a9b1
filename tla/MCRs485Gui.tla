------------------------------ MODULE MCRs485Gui ------------------------------
(* Instances of the RS-485 tab for TLC. *)
EXTENDS Rs485GuiProps
=============================================================================
