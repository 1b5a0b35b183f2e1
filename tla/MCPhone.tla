------------------------------ MODULE MCPhone ------------------------------
(* The phone for TLC: two contexts race for one key, with a pair each, and  *)
(* run a ceremony each, on the same invite or on two.                       *)
EXTENDS Phone, TLC

CONSTANTS p1, p2, k1, k2, i1, i2

MCContexts == {p1, p2}
MCKeys == {k1, k2}
MCInvites == {i1, i2}
Symmetry == Permutations(MCContexts) \union Permutations(MCKeys) \union Permutations(MCInvites)
=============================================================================
