---------------------------- MODULE MCHoneytoken ----------------------------
(* Honeytokens for TLC: one decoy file, which alerts, and two tool calls,  *)
(* one that kills and one that alerts, so that two trips share a lane and  *)
(* a third is on the other.                                                *)
EXTENDS Honeytoken

CONSTANTS c1, c2

MCCalls == {c1, c2}
MCCallTier == [c \in MCCalls |-> IF c = c1 THEN "kill" ELSE "alert"]
=============================================================================
