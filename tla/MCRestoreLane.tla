---------------------------- MODULE MCRestoreLane ----------------------------
(* The restore lane for TLC: a cooldown of two ticks, so that a ceremony    *)
(* can be kept from ever being ready, ceremonies that live four ticks and   *)
(* challenges that live one, so that a challenge can be late while its      *)
(* ceremony is not.  No symmetry: it is not sound for the liveness that the *)
(* same run checks.                                                         *)
EXTENDS RestoreLane

CONSTANTS o1, o2, a1, c1, c2

\* Two owners, and two scopes, everything and one agent, compete for one record.
MCOwners == {o1, o2}
MCAgents == {a1}
MCIds == {c1, c2}
==============================================================================
