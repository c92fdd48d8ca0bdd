---------------------------- MODULE MCBudCharge ----------------------------
(* Model-checking instance of BudCharge. *)
EXTENDS BudCharge

OneTick == [l \in Lines |-> 1]
=============================================================================
