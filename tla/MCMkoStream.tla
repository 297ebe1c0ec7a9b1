---- MODULE MCMkoStream ----
(***************************************************************************)
(* The instance of the streaming calls of the MKO service for TLC.         *)
(***************************************************************************)
EXTENDS MkoStreamProps
====
