------------------------------ MODULE MCBilling ------------------------------
(* Subscriptions by themselves, for the run whose property the code violates. *)
EXTENDS Billing
=============================================================================
