------------------------------ MODULE MCBilling ------------------------------
(* A small instance of Billing for TLC. *)
EXTENDS Billing, TLC

Symmetric ==
  Permutations(Calls) \cup Permutations(Invoices) \cup Permutations(Subs)
    \cup Permutations(Keys)
=============================================================================
