----------------------------- MODULE MCOwnerApp -----------------------------
(* The owner app for TLC: two windows that share one page and one button.  *)
EXTENDS OwnerApp, TLC

CONSTANTS w1, w2

MCWindows == {w1, w2}
Symmetry == Permutations(MCWindows)
=============================================================================
