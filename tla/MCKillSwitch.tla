---------------------------- MODULE MCKillSwitch ----------------------------
(* The kill switch for TLC: two valid agent ids and one invalid one, a     *)
(* scoped-kill map that holds one agent (so that the second escalates).    *)
EXTENDS KillSwitch, TLC

CONSTANTS a1, a2, bad, c1

MCIds == {a1, a2, bad}
MCAgents == {a1, a2}
MCCeremonies == {c1}

\* At most three versions of the state file are unsynced at once: the last
\* durable one, its replacement and its removal.
FewVersions == Cardinality(cut.files) <= 3

Symmetry == Permutations({a1, a2})
=============================================================================
