------------------------------- MODULE Switch -------------------------------
(***************************************************************************)
(* What the kill switch promises to the rest of the system, with no file,  *)
(* no marker and no epoch in it: what has been answered as denied stays    *)
(* denied, through crashes and power cuts, until an owner releases it, or  *)
(* the switch has warned that its promise may not survive.                 *)
(***************************************************************************)
CONSTANT Agents

VARIABLES
    phase,     \* "up": it answers; "busy": in a transition or in boot; "down"
    denies,    \* what it denies while it is up
    promised,  \* what it has answered as denied and no owner has released
    warned,    \* it has not answered, or said that its state may be lost
    forfeit    \* it died on such a warning, or before it could give one

vars == <<phase, denies, promised, warned, forfeit>>

Denials == [all : BOOLEAN, agents : SUBSET Agents]
Nothing == [all |-> FALSE, agents |-> {}]

Covers(d, p) == d.all \/ (~p.all /\ p.agents \subseteq d.agents)

Init ==
    /\ phase = "down" /\ denies = Nothing
    /\ promised \in Denials /\ warned = TRUE /\ forfeit = FALSE

\* A kill is being recorded; nothing is promised before the answer.
Engage ==
    /\ phase = "up" /\ phase' = "busy" /\ denies' = Nothing
    /\ UNCHANGED <<promised, warned, forfeit>>

\* An owner's restore: the one step that takes a promise back.
Release ==
    /\ phase = "up" /\ phase' = "busy" /\ denies' = Nothing
    /\ promised' \in {p \in Denials : Covers(promised, p)}
    /\ UNCHANGED <<warned, forfeit>>

\* A transition is answered with what is denied now.
Answer ==
    /\ phase = "busy" /\ phase' = "up"
    /\ denies' \in {d \in Denials : forfeit \/ Covers(d, promised)}
    /\ promised' = denies' /\ warned' \in BOOLEAN /\ forfeit' = FALSE

\* A new process comes up, at once or after it engaged.
BootBusy ==
    /\ phase = "down" /\ phase' = "busy"
    /\ UNCHANGED <<denies, promised, warned, forfeit>>

Boot ==
    /\ phase \in {"down", "busy"} /\ phase' = "up"
    /\ denies' \in {d \in Denials : forfeit \/ Covers(d, promised)}
    /\ warned' \in BOOLEAN
    /\ UNCHANGED <<promised, forfeit>>

Die ==
    /\ phase' = "down" /\ denies' = Nothing
    /\ forfeit' \in {forfeit} \union {b \in {TRUE} : warned \/ phase = "busy"}
    /\ UNCHANGED <<promised, warned>>

Next == Engage \/ Release \/ Answer \/ BootBusy \/ Boot \/ Die

Spec == Init /\ [][Next]_vars
=============================================================================
