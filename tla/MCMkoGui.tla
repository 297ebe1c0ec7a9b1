------------------------------ MODULE MCMkoGui ------------------------------
(* The instance of the MKO tab for TLC. *)
EXTENDS MkoGuiProps
=============================================================================
