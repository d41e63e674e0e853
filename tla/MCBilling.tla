------------------------------ MODULE MCBilling ------------------------------
(* Instance of Billing for TLC. *)
EXTENDS Billing, TLC

BillingSymmetry == Permutations(Runners) \cup Permutations(Creditors)
=============================================================================
