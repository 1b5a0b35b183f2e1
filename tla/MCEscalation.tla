---------------------------- MODULE MCEscalation ----------------------------
(* The escalation service for TLC: two windows, two polls that overlap and *)
(* a ladder of four rungs, one of them over a channel without credentials. *)
(* One call is allowed in two units of time and one message in one; a day  *)
(* is a unit and pays for two of them, or for one push.  Each ceiling      *)
(* refuses a send the others would let through, and a ladder and the       *)
(* horizon of the calls cross from one day into the next.                  *)
EXTENDS Escalation, TLC

CONSTANTS w1, w2, t1, t2

MCWindows == {w1, w2}

MCTicks == {t1, t2}

Symmetry == Permutations(MCWindows) \union Permutations(MCTicks)

MCLadder ==
    << [after |-> 0, channel |-> "email"], [after |-> 0, channel |-> "voice"],
       [after |-> 0, channel |-> "sms"], [after |-> 1, channel |-> "push"] >>

MCCost == [ch \in Channels |-> CASE ch = "email" -> 0 [] ch = "push" -> 2 [] OTHER -> 1]
=============================================================================
