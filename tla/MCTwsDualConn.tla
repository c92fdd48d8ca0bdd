--------------------------- MODULE MCTwsDualConn ---------------------------
(* Model-checking instance of TwsDualConn. *)
EXTENDS TwsDualConn, TLC

CONSTANTS p1, p2
MCPhones == {p1, p2}
OnePhone == {p1}
PhoneSymmetry == Permutations(MCPhones)
=============================================================================
