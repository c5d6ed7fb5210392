-------------------------- MODULE MCBillingLedger --------------------------
(* Instances of BillingLedger for TLC.                                       *)
EXTENDS BillingLedger
=============================================================================
