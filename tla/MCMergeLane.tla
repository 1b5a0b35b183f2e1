----------------------------- MODULE MCMergeLane -----------------------------
(* The merge lane for TLC: one window, presented twice, the second time     *)
(* possibly to another broker; grants and burn records live one tick each.  *)
EXTENDS MergeLane, TLC

CONSTANTS w1, r1, r2

MCWindows == {w1}
MCRequests == {r1, r2}

Symmetry == Permutations({r1, r2})
=============================================================================
