--------------------------- MODULE MCTwsPoweroff ---------------------------
(* TwsPoweroff for TLC: two buds that may be swapped, the tick limits cut to one. *)
EXTENDS TwsPoweroff
Swapped == Permutations(Buds)
=============================================================================
