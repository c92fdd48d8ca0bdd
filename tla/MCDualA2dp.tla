----------------------------- MODULE MCDualA2dp -----------------------------
(* DualA2dp for TLC: two phones and two buds. *)
EXTENDS DualA2dp
Swapped == Permutations(Buds) \cup Permutations(Phones)
=============================================================================
