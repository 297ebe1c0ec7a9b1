-------------------------- MODULE MCRs485Subscribe --------------------------
(* Instances of the RS-485 Subscribe path for TLC. *)
EXTENDS Rs485SubscribeProps

\* A driver that keeps sending while its stream is open, like the fake driver.
SendingSpec ==
  FairSpec /\ WF_vars(fault = "none" /\ \E w \in Handlers, m \in Results : DriverSends(w, m))
=============================================================================
