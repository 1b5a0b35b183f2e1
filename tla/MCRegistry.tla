----------------------------- MODULE MCRegistry -----------------------------
(* The registry for TLC: two phones, one of which the operator may have     *)
(* provisioned under either of two static names, and one owner.             *)
EXTENDS Registry, TLC

CONSTANTS k1, k2, s1, s2, o1

MCKeys == {k1, k2}
MCStaticIds == {s1, s2}
MCOwners == {o1}

\* The first phone under one static name, then under another.
MCProvisions ==
    {[s \in MCStaticIds |-> IF s = t THEN k1 ELSE NoKey] : t \in MCStaticIds}

MCLegacy ==
    {[version |-> 1, gen |-> 2, owners |-> {},
      devices |-> <<[key |-> k2, owner |-> o1, active |-> TRUE]>>]}
=============================================================================
