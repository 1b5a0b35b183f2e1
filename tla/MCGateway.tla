----------------------------- MODULE MCGateway -----------------------------
(* Instances of Gateway for TLC.                                           *)
EXTENDS Gateway, TLC

CONSTANTS c1, c2, spend, fails

\* Calls that the policy allows or refuses.
LimitCalls == {c1, c2}
LimitVerdicts == [c \in LimitCalls |-> {"allow", "deny"}]
MCAmounts == {1, Unreadable}

\* One unit may be spent, and no call may fail.
MCRules == {spend, fails}
MCMetric == spend :> "amount" @@ fails :> "errors"
MCMax == spend :> 1 @@ fails :> 0

\* Calls in the veto lane, of a tool no limit is about.
ReviewCalls == {c1, c2}
ReviewVerdicts == c1 :> {"veto"} @@ c2 :> {"veto", "approve"}
NoMetric == [r \in {} |-> "calls"]
NoMax == [r \in {} |-> 0]

LimitSymmetry == Permutations(LimitCalls)
ReviewSymmetry == Permutations(Windows)
============================================================================
