----------------------------- MODULE MCTwsTone -----------------------------
(* TwsTone for TLC: two buds and a few requests, each of which may be swapped. *)
EXTENDS TwsTone, TLC
Swapped == Permutations(Buds) \cup Permutations(Tones)
=============================================================================
