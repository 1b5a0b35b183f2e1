---------------------------- MODULE GatewayProofs ----------------------------
(***************************************************************************)
(* Proofs about the gateway, for every set of calls, rules and windows,    *)
(* every policy, every maximum, and every number of kills and faults: the  *)
(* budgets hold although calls overtake one another, a tripped budget is   *)
(* armed again only by the owner, a stopped agent runs nothing, and no yes *)
(* survives a kill.                                                        *)
(***************************************************************************)
EXTENDS Gateway, TLAPS

-----------------------------------------------------------------------------
(* The inductive invariant.                                                *)

\* The types, in parts.
PlaneType ==
    /\ cp \in Status /\ disk \in KillState
    /\ review \in [Windows -> [st : {"missing", "open", "released", "refused"},
                               epoch : 0..MaxEpoch]]
    /\ faults \in 0..MaxFaults /\ reset \in BOOLEAN /\ restores \in Nat /\ under \subseteq Calls
AnswerType == answer \in [Calls -> Status] /\ live \in [Calls -> Status]
PlaceType ==
    /\ pc \in [Calls -> Places] /\ waits \in [Calls -> Windows \union {None}]
    /\ poll \in [Calls -> {"missing", "open", "released", "refused", "spent"}]
    /\ overtaken \subseteq Routed
MapType ==
    /\ windows \in Windows \union {None} /\ registered \subseteq Windows
    /\ runs \in [Windows -> Nat]
    /\ \A c \in Calls : pc[c] \in {"poll", "polled"} => waits[c] \in registered
TrackerType ==
    /\ latch \in [phase : {"armed", "unconfirmed", "confirmed"}, epochFloor : 0..MaxEpoch + 1]
    /\ generations \in Nat /\ total \in [Rules -> Nat] /\ spent \in [Rules -> Nat]
ReporterType ==
    /\ attempt \in [st : {"none", "sent", "answered"}, epoch : 0..MaxEpoch, degraded : BOOLEAN]
    /\ late \in BOOLEAN /\ tripwire \in BOOLEAN

\* The lane holds the report of an unconfirmed latch, and an attempt is of it.
LaneInv ==
    /\ report \in {0, generations}
    /\ latch.phase /= "unconfirmed" => report = 0
    /\ attempt /= NoAttempt => report /= 0

\* While the latch is armed, everything counted has run.
BudgetInv == (latch.phase = "armed" => total = spent) /\ NoOverspend

\* What is not degraded is on the disk.
DurableInv == ~cp.degraded => disk = InMemory

\* A kill of this epoch was saved: it is of the past for the control plane and
\* for its disk, and who knows of a later state without a stop was told of it
\* after a restore.
After(e) ==
    /\ e <= cp.epoch /\ (disk /= Missing => e <= disk.epoch)
    /\ ~Stopped(cp) => generations <= restores
    /\ disk /= Missing /\ ~Stopped(disk) => generations <= restores
    /\ \A c \in Calls : ~answer[c].degraded /\ ~Denied(answer[c]) /\ answer[c].epoch >= e =>
          generations <= restores

\* Epochs do not run backwards for what was answered as durable, and each trip
\* but the one that is latched had its restore.
RestoreInv ==
    ~reset =>
        /\ disk /= Missing => disk.epoch <= cp.epoch
        /\ \A c \in Calls : ~answer[c].degraded =>
              answer[c].epoch <= cp.epoch /\ (disk /= Missing => answer[c].epoch <= disk.epoch)
        /\ generations <= restores + 1
        /\ latch.phase = "armed" => generations <= restores
        /\ latch.phase = "confirmed" => After(latch.epochFloor)
        /\ attempt.st = "answered" /\ ~attempt.degraded => After(attempt.epoch)

\* A call made under a stop that lasts has heard of no other state.
UnderInv ==
    \A c \in under :
        /\ Stopped(cp)
        /\ pc[c] \in {"idle", "status"} \/ (pc[c] = "answered" /\ Denied(answer[c]))

\* Where no save has failed, epochs only grow, and an overtaken call was decided
\* on an epoch that has passed: its last look at the kill state shows that.
OvertakenInv ==
    faults = 0 =>
        /\ ~cp.degraded /\ (cp.killed => cp.epoch >= 1)
        /\ \A c \in Calls : answer[c].epoch <= cp.epoch
        /\ \A c \in overtaken :
              /\ pc[c] \notin {"idle", "status", "run"}
              /\ answer[c].epoch < cp.epoch
              /\ pc[c] = "rechecked" => ~TicketHolds(c)

\* A window that let a call run is registered, and not the one that is tracked.
UnusedInv == \A w \in Windows : runs[w] /= 0 => w \in registered /\ windows /= w

GInv ==
    /\ PlaneType /\ AnswerType /\ PlaceType /\ MapType /\ TrackerType /\ ReporterType
    /\ LaneInv /\ BudgetInv /\ DurableInv /\ RestoreInv /\ UnderInv /\ OvertakenInv /\ UnusedInv
-----------------------------------------------------------------------------
(* The control plane.                                                      *)

LEMMA Bounds == /\ 0 \in 0..MaxEpoch /\ 1 \in 0..MaxEpoch /\ MaxEpoch \in Nat
                /\ \A e \in 0..MaxEpoch : e \in Nat /\ e \in 0..(MaxEpoch + 1)
                /\ \A e \in 0..MaxEpoch : e < MaxEpoch => e + 1 \in 0..MaxEpoch
                /\ \A e \in 0..MaxEpoch : e + 1 \in 0..(MaxEpoch + 1)
  BY BoundsAssumption

LEMMA StateShape ==
    ASSUME NEW k, NEW l, NEW e
    PROVE  /\ State(k, l, e).killed = k /\ State(k, l, e).listed = l /\ State(k, l, e).epoch = e
           /\ k \in BOOLEAN /\ l \in BOOLEAN /\ e \in 0..MaxEpoch => State(k, l, e) \in KillState
  BY DEF State, KillState

LEMMA MissingShape == Missing \in KillState /\ Missing.killed = TRUE /\ Missing.epoch = 0
  BY StateShape, Bounds DEF Missing

LEMMA StatusShape ==
    ASSUME NEW a \in Status
    PROVE  /\ a.killed \in BOOLEAN /\ a.listed \in BOOLEAN /\ a.degraded \in BOOLEAN
           /\ a.epoch \in 0..MaxEpoch /\ a.epoch \in Nat
  BY Bounds DEF Status

LEMMA AnswerShape ==
    /\ FailClosed \in Status /\ FailClosed.degraded = TRUE /\ FailClosed.killed = TRUE
    /\ FailClosed.epoch = 0 /\ Denied(FailClosed)
    /\ cp \in Status => StatusAnswer \in Status
    /\ StatusAnswer.killed = cp.killed /\ StatusAnswer.listed = cp.listed
    /\ StatusAnswer.epoch = cp.epoch /\ StatusAnswer.degraded = cp.degraded
    /\ Denied(StatusAnswer) <=> Stopped(cp)
  BY Bounds DEF FailClosed, Status, StatusAnswer, Denied, Stopped

\* What a transition makes of memory and disk: it is saved, or memory is
\* degraded and the disk has it, nothing, or what it had.
LEMMA TransitionShape ==
    ASSUME PlaneType, NEW k \in BOOLEAN, NEW l \in BOOLEAN, NEW e \in 0..MaxEpoch,
           Transition(k, l, e)
    PROVE  /\ cp' \in Status /\ cp'.killed = k /\ cp'.listed = l /\ cp'.epoch = e
           /\ disk' \in KillState /\ disk' \in {State(k, l, e), Missing, disk}
           /\ ~cp'.degraded => disk' = State(k, l, e) /\ faults' = faults
           /\ cp'.degraded => faults' = faults + 1
           /\ Stopped(cp') <=> k \/ l
           /\ restores' \in Nat /\ restores' >= restores
           /\ Stopped(cp) /\ ~Stopped(cp') => restores' = restores + 1
           /\ faults' \in 0..MaxFaults /\ under' \subseteq under /\ (~Stopped(cp') => under' = {})
  <1>1. State(k, l, e) \in KillState /\ Missing \in KillState /\ disk \in KillState
    BY StateShape, MissingShape DEF PlaneType
  <1>2. /\ cp' \in Status /\ cp'.killed = k /\ cp'.listed = l /\ cp'.epoch = e
        /\ \/ cp'.degraded = FALSE /\ disk' = State(k, l, e) /\ faults' = faults
           \/ /\ cp'.degraded = TRUE /\ faults < MaxFaults /\ faults' = faults + 1
              /\ disk' \in {State(k, l, e), Missing, disk}
    <2>1. \/ /\ cp' = [killed |-> k, listed |-> l, epoch |-> e, degraded |-> FALSE]
             /\ disk' = State(k, l, e) /\ faults' = faults
          \/ /\ cp' = [killed |-> k, listed |-> l, epoch |-> e, degraded |-> TRUE]
             /\ faults < MaxFaults /\ faults' = faults + 1
             /\ disk' \in {State(k, l, e), Missing, disk}
      BY DEF Transition
    <2>2. CASE cp' = [killed |-> k, listed |-> l, epoch |-> e, degraded |-> FALSE]
      BY <2>1, <2>2 DEF Status
    <2>3. CASE cp' = [killed |-> k, listed |-> l, epoch |-> e, degraded |-> TRUE]
      BY <2>1, <2>3 DEF Status
    <2> QED BY <2>1, <2>2, <2>3
  <1>3. faults' \in 0..MaxFaults
    BY <1>2, BoundsAssumption DEF PlaneType
  <1>4. /\ restores' \in Nat /\ restores' >= restores
        /\ Stopped(cp) /\ ~Stopped(cp') => restores' = restores + 1
    BY DEF Transition, PlaneType
  <1>5. Stopped(cp') <=> k \/ l
    BY <1>2 DEF Stopped
  <1>6. under' \subseteq under /\ (~Stopped(cp') => under' = {})
    BY DEF Transition, PlaneType
  <1>7. disk' \in KillState /\ disk' \in {State(k, l, e), Missing, disk}
    BY <1>1, <1>2
  <1> QED BY <1>2, <1>3, <1>4, <1>5, <1>6, <1>7

\* What a step may do to the kill state.
Kills ==
    \E k, l \in BOOLEAN :
        /\ Killing(k, l) /\ reset' = reset /\ (cp.killed => k) /\ (cp.listed => l)
        /\ UNCHANGED <<places, latch, generations, total, spent, report>>
Restores ==
    \E k, l \in BOOLEAN :
        /\ Transition(k, l, cp.epoch) /\ reset' = reset
        /\ (k => cp.killed) /\ (l => cp.listed)
        /\ UNCHANGED <<calls, tracker, report, attempt>>
PlaneMoves ==
    \/ UNCHANGED <<cp, disk, faults, reset, restores>>
    \/ Kills
    \/ Restores
    \/ Restart
    \/ RestartUntrusted

\* The handlers leave the control plane alone.
LEMMA HandlerLeaves ==
    ASSUME NEW c \in Calls, Handler(c)
    PROVE  UNCHANGED controlPlane
  BY DEF Handler, CallTool, GetStatus, Decide, PinRefused, Forward, CallReturns, ReportSettles,
         FetchLive, BurnTicket, Execute, TicketRefused, EnterReview, GetVeto, GetVetoFails,
         ReviewRefuses, ReviewSpent, ReviewMissing, ReviewReleased

LEMMA KillAgentKills ==
    ASSUME PlaneType, KillAgent, reset' = reset,
           UNCHANGED <<places, latch, generations, total, spent, report>>
    PROVE  Kills
  <1>1. cp.killed \in BOOLEAN /\ cp.listed \in BOOLEAN
    BY StatusShape DEF PlaneType
  <1>2. PICK s \in BOOLEAN : Killing(cp.killed \/ s, cp.listed \/ ~s)
    BY DEF KillAgent
  <1>3. (cp.killed \/ s) \in BOOLEAN /\ (cp.listed \/ ~s) \in BOOLEAN
    OBVIOUS
  <1> QED BY <1>1, <1>2, <1>3 DEF Kills

LEMMA PlaneStep ==
    ASSUME PlaneType, [Next]_vars
    PROVE  PlaneMoves
  <1>0. cp.killed \in BOOLEAN /\ cp.listed \in BOOLEAN
    BY StatusShape DEF PlaneType
  <1>1. ASSUME NEW c \in Calls, Handler(c) PROVE PlaneMoves
    BY <1>1, HandlerLeaves DEF PlaneMoves, controlPlane
  <1>2. CASE SendKill \/ AttemptFails \/ KillAnswered
    BY <1>2 DEF SendKill, AttemptFails, KillAnswered, PlaneMoves, controlPlane
  <1>3. CASE KillLands \/ LateKillLands
    <2>1. Kills
      BY <1>3, KillAgentKills DEF KillLands, LateKillLands, tracker
    <2> QED BY <2>1 DEF PlaneMoves
  <1>4. CASE TripwireLands
    <2>1. Kills
      BY <1>0, <1>4 DEF TripwireLands, Kills, tracker
    <2> QED BY <2>1 DEF PlaneMoves
  <1>5. CASE PostKill
    <2>1. reset' = reset /\ UNCHANGED <<places, latch, generations, total, spent, report>>
      BY <1>5 DEF PostKill, tracker, reporter
    <2>2. CASE KillAgent
      BY <2>1, <2>2, KillAgentKills DEF PlaneMoves
    <2>3. CASE Killing(TRUE, cp.listed) \/ Killing(cp.killed, cp.listed)
      <3>1. Kills
        BY <1>0, <2>1, <2>3 DEF Kills
      <3> QED BY <3>1 DEF PlaneMoves
    <2> QED BY <1>5, <2>2, <2>3 DEF PostKill
  <1>6. CASE PostRestore
    <2>1. reset' = reset /\ UNCHANGED <<calls, tracker, report, attempt>>
      BY <1>6 DEF PostRestore, reporter
    <2>2. Transition(FALSE, cp.listed, cp.epoch) \/ Transition(cp.killed, FALSE, cp.epoch)
      BY <1>6 DEF PostRestore
    <2>3. Restores
      BY <1>0, <2>1, <2>2 DEF Restores
    <2> QED BY <2>3 DEF PlaneMoves
  <1>7. CASE Restart \/ RestartUntrusted
    BY <1>7 DEF PlaneMoves
  <1>8. ASSUME NEW w \in Windows, PostRegisterVeto(w) \/ RegistrationFails(w) \/ ReviewEnds(w)
        PROVE  PlaneMoves
    BY <1>8 DEF PostRegisterVeto, RegistrationFails, ReviewEnds, PlaneMoves
  <1>9. CASE UNCHANGED vars
    BY <1>9 DEF vars, controlPlane, PlaneMoves
  <1> QED BY <1>1, <1>2, <1>3, <1>4, <1>5, <1>6, <1>7, <1>8, <1>9
          DEF Next, Reporter, ControlPlane

\* What the moves make of memory and disk.
LEMMA PlaneShape ==
    ASSUME PlaneType, PlaneMoves
    PROVE  /\ cp' \in Status /\ disk' \in KillState
           /\ faults' \in 0..MaxFaults /\ reset' \in BOOLEAN /\ restores' \in Nat
           /\ restores' >= restores
  <1> USE DEF PlaneType
  <1>1. CASE UNCHANGED <<cp, disk, faults, reset, restores>>
    BY <1>1
  <1>2. CASE Kills
    <2>1. PICK k \in BOOLEAN, l \in BOOLEAN :
            Transition(k, l, cp.epoch + 1) /\ cp.epoch < MaxEpoch /\ reset' = reset
      BY <1>2 DEF Kills, Killing
    <2>2. cp.epoch + 1 \in 0..MaxEpoch
      BY <2>1, StatusShape, Bounds
    <2> QED BY <2>1, <2>2, TransitionShape
  <1>3. CASE Restores
    <2>1. PICK k \in BOOLEAN, l \in BOOLEAN : Transition(k, l, cp.epoch) /\ reset' = reset
      BY <1>3 DEF Restores
    <2>2. cp.epoch \in 0..MaxEpoch
      BY StatusShape
    <2> QED BY <2>1, <2>2, TransitionShape
  <1>4. CASE Restart
    <2>1. cp' \in Status
      BY <1>4 DEF Restart, KillState, Status
    <2> QED BY <1>4, <2>1 DEF Restart
  <1>5. CASE RestartUntrusted
    <2>1. cp' \in Status /\ disk' \in KillState
      <3>1. cp' = [killed |-> TRUE, listed |-> FALSE, epoch |-> 1, degraded |-> FALSE]
        BY <1>5 DEF RestartUntrusted
      <3>2. cp' \in Status
        BY <3>1, Bounds DEF Status
      <3>3. disk' = State(TRUE, FALSE, 1)
        BY <1>5 DEF RestartUntrusted
      <3>4. State(TRUE, FALSE, 1) \in KillState
        BY StateShape, Bounds
      <3> QED BY <3>2, <3>3, <3>4
    <2>2. faults' \in 0..MaxFaults
      BY <1>5, BoundsAssumption DEF RestartUntrusted
    <2>3. reset' = TRUE /\ restores' = restores
      BY <1>5 DEF RestartUntrusted
    <2>4. restores' \in Nat /\ restores' >= restores
      BY <2>3
    <2> QED BY <2>1, <2>2, <2>3, <2>4
  <1> QED BY <1>1, <1>2, <1>3, <1>4, <1>5 DEF PlaneMoves

\* What is not degraded is on the disk.
LEMMA DurableStep ==
    ASSUME PlaneType, DurableInv, PlaneMoves
    PROVE  DurableInv'
  <1> USE DEF PlaneType
  <1>0. ASSUME cp'.killed = disk'.killed, cp'.listed = disk'.listed, cp'.epoch = disk'.epoch,
               disk' \in KillState
        PROVE  disk' = InMemory'
    BY <1>0 DEF InMemory, State, KillState
  <1>1. CASE UNCHANGED <<cp, disk, faults, reset, restores>>
    BY <1>1 DEF DurableInv, InMemory
  <1>2. ASSUME NEW k \in BOOLEAN, NEW l \in BOOLEAN, NEW e \in 0..MaxEpoch, Transition(k, l, e)
        PROVE  DurableInv'
    BY <1>2, TransitionShape DEF DurableInv, InMemory
  <1>3. CASE Kills
    <2>1. PICK k \in BOOLEAN, l \in BOOLEAN :
            Transition(k, l, cp.epoch + 1) /\ cp.epoch < MaxEpoch
      BY <1>3 DEF Kills, Killing
    <2>2. cp.epoch + 1 \in 0..MaxEpoch
      BY <2>1, StatusShape, Bounds
    <2> QED BY <1>2, <2>1, <2>2
  <1>4. CASE Restores
    BY <1>2, <1>4, StatusShape DEF Restores
  <1>5. CASE Restart
    BY <1>5, <1>0 DEF Restart, DurableInv
  <1>6. CASE RestartUntrusted
    <2>1. cp'.killed = TRUE /\ cp'.listed = FALSE /\ cp'.epoch = 1
      BY <1>6 DEF RestartUntrusted
    <2> QED BY <1>6, <2>1 DEF RestartUntrusted, DurableInv, InMemory
  <1> QED BY <1>1, <1>3, <1>4, <1>5, <1>6 DEF PlaneMoves
-----------------------------------------------------------------------------
(* The calls.                                                              *)

\* Where a call is on its way, past its decision.
Underway ==
    {"forward", "review", "register", "settle", "poll", "polled", "ticket", "checked",
     "burned", "rechecked", "run", "report"}

\* What a step may do to one call.
Stays(d) == pc'[d] = pc[d] /\ answer'[d] = answer[d] /\ live'[d] = live[d]
IsOver(d) == pc'[d] = "idle" /\ answer'[d] = FailClosed /\ d \notin overtaken'
Asks(d) == pc[d] = "idle" /\ pc'[d] = "status" /\ answer'[d] = answer[d]
Hears(d) ==
    /\ pc[d] = "status" /\ pc'[d] = "answered"
    /\ answer'[d] \in {StatusAnswer, FailClosed} /\ UNCHANGED <<controlPlane, tracker, reporter, under>>
IsLet(d) ==
    /\ pc[d] = "answered" /\ ~Denied(answer[d])
    /\ pc'[d] \in {"forward", "review"} /\ answer'[d] = answer[d]
Rechecks(d) ==
    /\ pc[d] = "burned" /\ pc'[d] = "rechecked" /\ answer'[d] = answer[d]
    /\ live'[d] \in {StatusAnswer, FailClosed}
    /\ UNCHANGED controlPlane
Runs(d) ==
    /\ \/ pc[d] \in {"forward", "polled"} /\ d \notin Routed
       \/ pc[d] = "rechecked" /\ TicketHolds(d)
    /\ pc'[d] = "run" /\ answer'[d] = answer[d]
Walks(d) ==
    /\ pc[d] \in Underway /\ pc'[d] \in Underway \ {"run", "rechecked"}
    /\ answer'[d] = answer[d]

Goes(d) ==
    \/ Stays(d) \/ IsOver(d) \/ Asks(d) \/ Hears(d) \/ IsLet(d)
    \/ Rechecks(d) \/ Runs(d) \/ Walks(d)

CallsMove ==
    /\ AnswerType' /\ PlaceType'
    /\ \A d \in Calls : Goes(d)
    /\ overtaken' \subseteq overtaken
          \union {c \in Routed : pc[c] \notin {"idle", "status", "rechecked", "run", "report"}}
    /\ overtaken' \subseteq overtaken \/ Kills

\* A step that leaves the places and the handlers alone.
LEMMA CallsStay ==
    ASSUME AnswerType, PlaceType, UNCHANGED calls
    PROVE  CallsMove
  BY DEF calls, places, AnswerType, PlaceType, CallsMove, Goes, Stays

\* Some handlers are over, the others are where `next' puts them.
LEMMA ReturnMoves ==
    ASSUME AnswerType, PlaceType, NEW S \in SUBSET Calls, NEW next \in [Calls -> Places],
           ReturnAll(S, next),
           \A d \in Calls \ S : \/ next[d] = pc[d]
                                \/ /\ pc[d] \in Underway
                                   /\ next[d] \in Underway \ {"run", "rechecked"}
    PROVE  /\ CallsMove
           /\ \A d \in S : pc'[d] = "idle" /\ waits'[d] = None
           /\ \A d \in Calls \ S : pc'[d] = next[d] /\ waits'[d] = waits[d]
  <1> USE DEF AnswerType, PlaceType
  <1>1. /\ pc' = [c \in Calls |-> IF c \in S THEN "idle" ELSE next[c]]
        /\ answer' = [c \in Calls |-> IF c \in S THEN FailClosed ELSE answer[c]]
        /\ waits' = [c \in Calls |-> IF c \in S THEN None ELSE waits[c]]
        /\ poll' = [c \in Calls |-> IF c \in S THEN "missing" ELSE poll[c]]
        /\ live' = [c \in Calls |-> IF c \in S THEN FailClosed ELSE live[c]]
        /\ overtaken' = overtaken \ S
    BY DEF ReturnAll
  <1>2. AnswerType'
    BY <1>1, AnswerShape
  <1>3. PlaceType'
    BY <1>1 DEF Places
  <1>4. \A d \in S : pc'[d] = "idle" /\ waits'[d] = None /\ IsOver(d)
    BY <1>1 DEF IsOver
  <1>5. \A d \in Calls \ S : /\ pc'[d] = next[d] /\ waits'[d] = waits[d]
                             /\ Stays(d) \/ Walks(d)
    BY <1>1 DEF Stays, Walks
  <1> QED BY <1>1, <1>2, <1>3, <1>4, <1>5 DEF CallsMove, Goes

LEMMA OverMoves ==
    ASSUME AnswerType, PlaceType, NEW c \in Calls, Return(c)
    PROVE  /\ CallsMove /\ pc'[c] = "idle"
           /\ \A d \in Calls \ {c} : pc'[d] = pc[d] /\ waits'[d] = waits[d]
  <1>1. ReturnAll({c}, pc) /\ pc \in [Calls -> Places] /\ {c} \in SUBSET Calls
    BY DEF Return, PlaceType
  <1> QED BY <1>1, ReturnMoves

\* One call goes somewhere, and is told something.
LEMMA OneMoves ==
    ASSUME AnswerType, PlaceType, NEW c \in Calls, NEW p \in Places,
           pc' = [pc EXCEPT ![c] = p],
           UNCHANGED answer \/ answer' \in {[answer EXCEPT ![c] = StatusAnswer], [answer EXCEPT ![c] = FailClosed]},
           UNCHANGED live \/ live' \in {[live EXCEPT ![c] = StatusAnswer], [live EXCEPT ![c] = FailClosed]},
           waits' \in [Calls -> Windows \union {None}], overtaken' = overtaken,
           poll' \in [Calls -> {"missing", "open", "released", "refused", "spent"}],
           cp \in Status,
           Goes(c)
    PROVE  CallsMove
  <1> USE DEF AnswerType, PlaceType
  <1>1. AnswerType'
    BY AnswerShape
  <1>2. PlaceType'
    OBVIOUS
  <1>3. \A d \in Calls \ {c} : Stays(d)
    BY DEF Stays
  <1> QED BY <1>1, <1>2, <1>3 DEF CallsMove, Goes

\* What the end of the forwarding may be for its call.
LEMMA ForwardMoves ==
    ASSUME AnswerType, PlaceType, cp \in Status, NEW c \in Calls,
           pc[c] \in {"forward", "polled"}, ForwardOrKill(c)
    PROVE  CallsMove
  <1> USE DEF PlaceType
  <1>1. CASE Return(c)
    BY <1>1, OverMoves
  <1>2. CASE Goto(c, "report")
    <2>1. /\ pc' = [pc EXCEPT ![c] = "report"] /\ "report" \in Places
          /\ UNCHANGED <<answer, live, waits, poll, overtaken>>
      BY <1>2 DEF Goto, Places
    <2>2. Goes(c)
      BY <2>1 DEF Goes, Walks, Underway
    <2> QED BY <2>1, <2>2, OneMoves
  <1>3. CASE Dispatched(c)
    <2> DEFINE p == IF c \in Routed THEN "ticket" ELSE "run"
    <2>1. Return(c) \/
          /\ pc' = [pc EXCEPT ![c] = p] /\ UNCHANGED <<answer, live, overtaken>>
          /\ waits' = [waits EXCEPT ![c] = None] /\ poll' = [poll EXCEPT ![c] = "missing"]
      BY <1>3 DEF Dispatched
    <2>2. p \in Places /\ (c \in Routed => p = "ticket") /\ (c \notin Routed => p = "run")
      BY DEF Places
    <2> HIDE DEF p
    <2>3. CASE /\ pc' = [pc EXCEPT ![c] = p] /\ UNCHANGED <<answer, live, overtaken>>
               /\ waits' = [waits EXCEPT ![c] = None] /\ poll' = [poll EXCEPT ![c] = "missing"]
      <3>1. pc'[c] = p /\ answer'[c] = answer[c]
        BY <2>3
      <3>2. Goes(c)
        BY <2>2, <3>1 DEF Goes, Runs, Walks, Underway
      <3>3. /\ waits' \in [Calls -> Windows \union {None}]
            /\ poll' \in [Calls -> {"missing", "open", "released", "refused", "spent"}]
        BY <2>3
      <3> QED BY <2>2, <2>3, <3>2, <3>3, OneMoves
    <2> QED BY <1>1, <2>1, <2>3
  <1> QED BY <1>1, <1>2, <1>3 DEF ForwardOrKill

\* A registration that starts.
LEMMA RegisterMoves ==
    ASSUME AnswerType, PlaceType, cp \in Status, NEW c \in Calls,
           pc[c] \in {"review", "polled"}, Register(c)
    PROVE  CallsMove
  <1> USE DEF PlaceType
  <1>1. PICK w \in Windows :
          /\ waits' = [waits EXCEPT ![c] = w] /\ pc' = [pc EXCEPT ![c] = "register"]
          /\ poll' = [poll EXCEPT ![c] = "missing"] /\ UNCHANGED <<answer, live, overtaken>>
    BY DEF Register
  <1>2. "register" \in Places
    BY DEF Places
  <1>3. Goes(c)
    BY <1>1 DEF Goes, Walks, Underway
  <1>4. /\ waits' \in [Calls -> Windows \union {None}]
        /\ poll' \in [Calls -> {"missing", "open", "released", "refused", "spent"}]
    BY <1>1
  <1> QED BY <1>1, <1>2, <1>3, <1>4, OneMoves

LEMMA HandlerMoves ==
    ASSUME AnswerType, PlaceType, PlaneType, MapType, NEW c \in Calls, Handler(c)
    PROVE  CallsMove
  <1> USE DEF PlaceType, MapType
  <1>0. cp \in Status
    BY DEF PlaneType
  <1>00. \A p \in {"idle", "status", "answered", "forward", "review", "register", "settle", "poll",
                   "polled", "ticket", "checked", "burned", "rechecked", "run", "report"} : p \in Places
    BY DEF Places
  <1>1. CASE CallTool(c)
    <2>1. /\ pc[c] = "idle" /\ pc' = [pc EXCEPT ![c] = "status"]
          /\ UNCHANGED <<answer, live, waits, poll, overtaken>>
      BY <1>1 DEF CallTool, Goto
    <2>2. Goes(c)
      BY <2>1 DEF Goes, Asks
    <2> QED BY <1>0, <1>00, <2>1, <2>2, OneMoves
  <1>2. CASE GetStatus(c)
    <2>1. /\ pc[c] = "status" /\ pc' = [pc EXCEPT ![c] = "answered"]
          /\ answer' \in {[answer EXCEPT ![c] = StatusAnswer], [answer EXCEPT ![c] = FailClosed]}
          /\ UNCHANGED <<live, waits, poll, overtaken>>
      BY <1>2 DEF GetStatus
    <2>2. Goes(c)
      <3>1. answer'[c] \in {StatusAnswer, FailClosed}
        BY <2>1 DEF AnswerType
      <3>2. UNCHANGED <<controlPlane, tracker, reporter, under>>
        BY <1>2 DEF GetStatus
      <3> QED BY <2>1, <3>1, <3>2 DEF Goes, Hears
    <2> QED BY <1>0, <1>00, <2>1, <2>2, OneMoves
  <1>3. CASE Decide(c)
    <2>1. \/ Return(c)
          \/ /\ ~Denied(answer[c]) /\ pc[c] = "answered"
             /\ Goto(c, "forward") \/ Goto(c, "review")
      BY <1>3 DEF Decide
    <2>2. ASSUME NEW p \in {"forward", "review"}, Goto(c, p), ~Denied(answer[c]), pc[c] = "answered"
          PROVE  CallsMove
      <3>1. /\ pc' = [pc EXCEPT ![c] = p] /\ p \in Places
            /\ UNCHANGED <<answer, live, waits, poll, overtaken>>
        BY <1>00, <2>2 DEF Goto
      <3>2. Goes(c)
        BY <2>2, <3>1 DEF Goes, IsLet
      <3> QED BY <1>0, <3>1, <3>2, OneMoves
    <2> QED BY <2>1, <2>2, OverMoves
  <1>4. CASE \/ PinRefused(c) \/ ReportSettles(c) \/ TicketRefused(c) \/ GetVetoFails(c)
             \/ ReviewRefuses(c) \/ ReviewSpent(c)
    <2>1. Return(c)
      BY <1>4 DEF PinRefused, ReportSettles, TicketRefused, GetVetoFails, ReviewRefuses, ReviewSpent
    <2> QED BY <2>1, OverMoves
  <1>5. CASE Forward(c) \/ ReviewReleased(c)
    BY <1>0, <1>5, ForwardMoves DEF Forward, ReviewReleased
  <1>6. CASE CallReturns(c)
    <2>1. Return(c) \/ (pc[c] = "run" /\ Goto(c, "report"))
      BY <1>6 DEF CallReturns
    <2>2. CASE pc[c] = "run" /\ Goto(c, "report")
      <3>1. /\ pc' = [pc EXCEPT ![c] = "report"]
            /\ UNCHANGED <<answer, live, waits, poll, overtaken>>
        BY <2>2 DEF Goto
      <3>2. Goes(c)
        BY <2>2, <3>1 DEF Goes, Walks, Underway
      <3> QED BY <1>0, <1>00, <3>1, <3>2, OneMoves
    <2> QED BY <2>1, <2>2, OverMoves
  <1>7. CASE FetchLive(c)
    <2> DEFINE p == IF pc[c] = "ticket" THEN "checked" ELSE "rechecked"
    <2>1. /\ pc[c] \in {"ticket", "burned"} /\ pc' = [pc EXCEPT ![c] = p]
          /\ live' \in {[live EXCEPT ![c] = StatusAnswer], [live EXCEPT ![c] = FailClosed]}
          /\ UNCHANGED <<answer, waits, poll, overtaken>>
      BY <1>7 DEF FetchLive
    <2>2. p \in Places
      BY <1>00
    <2>3. Goes(c)
      <3>1. live'[c] \in {StatusAnswer, FailClosed} /\ pc'[c] = p /\ answer'[c] = answer[c]
        BY <2>1 DEF AnswerType
      <3>2. UNCHANGED controlPlane
        BY <1>7 DEF FetchLive
      <3> QED BY <2>1, <3>1, <3>2 DEF Goes, Rechecks, Walks, Underway
    <2> HIDE DEF p
    <2> QED BY <1>0, <2>1, <2>2, <2>3, OneMoves
  <1>8. CASE BurnTicket(c)
    <2>1. /\ pc[c] = "checked" /\ pc' = [pc EXCEPT ![c] = "burned"]
          /\ live' \in {[live EXCEPT ![c] = StatusAnswer], [live EXCEPT ![c] = FailClosed]}
          /\ UNCHANGED <<answer, waits, poll, overtaken>>
      BY <1>8 DEF BurnTicket
    <2>2. Goes(c)
      BY <2>1 DEF Goes, Walks, Underway
    <2> QED BY <1>0, <1>00, <2>1, <2>2, OneMoves
  <1>9. CASE Execute(c)
    <2>1. /\ pc[c] = "rechecked" /\ TicketHolds(c) /\ pc' = [pc EXCEPT ![c] = "run"]
          /\ live' \in {[live EXCEPT ![c] = StatusAnswer], [live EXCEPT ![c] = FailClosed]}
          /\ UNCHANGED <<answer, waits, poll, overtaken>>
      BY <1>9 DEF Execute
    <2>2. Goes(c)
      BY <2>1 DEF Goes, Runs
    <2> QED BY <1>0, <1>00, <2>1, <2>2, OneMoves
  <1>10. CASE EnterReview(c)
    <2>1. CASE Register(c)
      BY <1>0, <1>10, <2>1, RegisterMoves DEF EnterReview
    <2>2. CASE ~Register(c)
      <3> DEFINE p == IF Settled(windows) THEN "poll" ELSE "settle"
      <3>1. /\ pc[c] = "review" /\ pc' = [pc EXCEPT ![c] = p]
            /\ waits' = [waits EXCEPT ![c] = windows]
            /\ UNCHANGED <<answer, live, poll, overtaken>>
        BY <1>10, <2>2 DEF EnterReview
      <3>2. p \in Places
        BY <1>00
      <3>3. Goes(c)
        BY <3>1 DEF Goes, Walks, Underway
      <3> HIDE DEF p
      <3>4. waits' \in [Calls -> Windows \union {None}]
        BY <3>1
      <3> QED BY <1>0, <3>1, <3>2, <3>3, <3>4, OneMoves
    <2> QED BY <2>1, <2>2
  <1>11. CASE GetVeto(c)
    <2>1. /\ pc[c] = "poll" /\ pc' = [pc EXCEPT ![c] = "polled"]
          /\ poll' = [poll EXCEPT ![c] = WireStatus(waits[c])]
          /\ UNCHANGED <<answer, live, waits, overtaken>>
      BY <1>11 DEF GetVeto
    <2>2. WireStatus(waits[c]) \in {"missing", "open", "released", "refused", "spent"}
      BY <2>1 DEF WireStatus, PlaneType
    <2>3. Goes(c)
      BY <2>1 DEF Goes, Walks, Underway
    <2>4. poll' \in [Calls -> {"missing", "open", "released", "refused", "spent"}]
      BY <2>1, <2>2
    <2> QED BY <1>0, <1>00, <2>1, <2>3, <2>4, OneMoves
  <1>12. CASE ReviewMissing(c)
    BY <1>0, <1>12, RegisterMoves DEF ReviewMissing
  <1> QED BY <1>1, <1>2, <1>3, <1>4, <1>5, <1>6, <1>7, <1>8, <1>9, <1>10, <1>11, <1>12 DEF Handler

\* A kill leaves the handlers where they are.
LEMMA KillMoves ==
    ASSUME AnswerType, PlaceType, Kills
    PROVE  CallsMove
  <1>1. UNCHANGED <<pc, answer, waits, poll, live>>
    BY DEF Kills, places
  <1>2. overtaken' = overtaken
          \union {c \in Routed : pc[c] \notin {"idle", "status", "rechecked", "run", "report"}}
    BY DEF Kills, Killing
  <1>3. AnswerType' /\ PlaceType'
    BY <1>1, <1>2 DEF AnswerType, PlaceType
  <1>4. \A d \in Calls : Stays(d)
    BY <1>1 DEF Stays
  <1> QED BY <1>2, <1>3, <1>4 DEF CallsMove, Goes

\* The calls that awaited the registration of a window.
LEMMA RegistrationMoves ==
    ASSUME AnswerType, PlaceType, NEW w \in Windows, PostRegisterVeto(w) \/ RegistrationFails(w)
    PROVE  /\ CallsMove
           /\ registered' = registered \union {w}
           /\ \A d \in Calls : pc'[d] \in {"poll", "polled"} => waits'[d] = waits[d]
           /\ \A d \in Calls : pc'[d] \in {"poll", "polled"} => pc'[d] = pc[d] \/ waits[d] = w
  <1> USE DEF PlaceType
  <1>1. Openers(w) \in SUBSET Calls /\ Openers(w) \union Sharers(w) \in SUBSET Calls
    BY DEF Openers, Sharers
  <1>2. CASE PostRegisterVeto(w)
    <2> DEFINE next == [c \in Calls |-> IF c \in Sharers(w) THEN "poll" ELSE pc[c]]
    <2>1. next \in [Calls -> Places]
      BY DEF Places
    <2>2. ReturnAll(Openers(w), next) /\ registered' = registered \union {w}
      BY <1>2 DEF PostRegisterVeto
    <2>3. \A d \in Calls : \/ next[d] = pc[d]
                           \/ /\ waits[d] = w /\ pc[d] \in Underway
                              /\ next[d] \in Underway \ {"run", "rechecked"}
      BY DEF Sharers, Underway
    <2> HIDE DEF next
    <2>4. /\ CallsMove
          /\ \A d \in Openers(w) : pc'[d] = "idle"
          /\ \A d \in Calls \ Openers(w) : pc'[d] = next[d] /\ waits'[d] = waits[d]
      BY <1>1, <2>1, <2>2, <2>3, ReturnMoves
    <2> QED BY <2>2, <2>3, <2>4
  <1>3. CASE RegistrationFails(w)
    <2> DEFINE S == Openers(w) \union Sharers(w)
    <2>1. ReturnAll(S, pc) /\ registered' = registered \union {w} /\ S \in SUBSET Calls
      BY <1>1, <1>3 DEF RegistrationFails
    <2> HIDE DEF S
    <2>2. /\ CallsMove
          /\ \A d \in S : pc'[d] = "idle"
          /\ \A d \in Calls \ S : pc'[d] = pc[d] /\ waits'[d] = waits[d]
      BY <2>1, ReturnMoves
    <2> QED BY <2>1, <2>2
  <1> QED BY <1>2, <1>3

\* Every step but those of the handlers and of a registration that ends is a
\* kill, or leaves the calls alone.
LEMMA OtherMoves ==
    ASSUME PlaneType, AnswerType, PlaceType,
           \/ Reporter \/ PostKill \/ PostRestore \/ Restart \/ RestartUntrusted
           \/ (\E w \in Windows : ReviewEnds(w)) \/ UNCHANGED vars
    PROVE  CallsMove /\ UNCHANGED places
  <1>1. CASE UNCHANGED calls
    BY <1>1, CallsStay DEF calls
  <1>2. CASE KillLands \/ LateKillLands
    <2>1. Kills
      BY <1>2, KillAgentKills DEF KillLands, LateKillLands, tracker
    <2> QED BY <2>1, KillMoves DEF Kills
  <1>3. CASE TripwireLands \/ PostKill
    <2>0. cp.killed \in BOOLEAN /\ cp.listed \in BOOLEAN
      BY StatusShape DEF PlaneType
    <2>1. reset' = reset /\ UNCHANGED <<places, latch, generations, total, spent, report>>
      BY <1>3 DEF TripwireLands, PostKill, tracker, reporter
    <2>2. KillAgent \/ Killing(TRUE, cp.listed) \/ Killing(cp.killed, cp.listed)
      BY <1>3 DEF TripwireLands, PostKill
    <2>3. Kills
      BY <2>0, <2>1, <2>2, KillAgentKills DEF Kills
    <2> QED BY <2>3, KillMoves DEF Kills
  <1>4. ASSUME \/ SendKill \/ AttemptFails \/ KillAnswered \/ PostRestore
               \/ Restart \/ RestartUntrusted
               \/ (\E w \in Windows : ReviewEnds(w)) \/ UNCHANGED vars
        PROVE  UNCHANGED calls
    BY <1>4 DEF SendKill, AttemptFails, KillAnswered, PostRestore, Restart, RestartUntrusted,
                ReviewEnds, vars
  <1> QED BY <1>1, <1>2, <1>3, <1>4 DEF Reporter

LEMMA CallsStep ==
    ASSUME PlaneType, AnswerType, PlaceType, MapType, [Next]_vars
    PROVE  CallsMove
  <1>1. ASSUME NEW c \in Calls, Handler(c) PROVE CallsMove
    BY <1>1, HandlerMoves
  <1>2. ASSUME NEW w \in Windows, PostRegisterVeto(w) \/ RegistrationFails(w) PROVE CallsMove
    BY <1>2, RegistrationMoves
  <1> QED BY <1>1, <1>2, OtherMoves DEF Next, ControlPlane

-----------------------------------------------------------------------------
(* The types of the control plane and of the map of windows.               *)

LEMMA ReviewsStep ==
    ASSUME PlaneType, [Next]_vars
    PROVE  review' \in [Windows -> [st : {"missing", "open", "released", "refused"},
                                    epoch : 0..MaxEpoch]]
  <1> DEFINE Entries == [st : {"missing", "open", "released", "refused"}, epoch : 0..MaxEpoch]
  <1>0. review \in [Windows -> Entries] /\ cp.epoch \in 0..MaxEpoch
    BY StatusShape DEF PlaneType
  <1>1. CASE review' = review
    BY <1>0, <1>1
  <1>2. CASE review' = NoReviews
    BY <1>2, Bounds DEF NoReviews
  <1>3. ASSUME NEW w \in Windows, review' = [review EXCEPT ![w] = [st |-> "open", epoch |-> cp.epoch]]
        PROVE  review' \in [Windows -> Entries]
    <2>1. [st |-> "open", epoch |-> cp.epoch] \in Entries
      BY <1>0
    <2> HIDE DEF Entries
    <2> QED BY <1>0, <1>3, <2>1
  <1>4. ASSUME NEW w \in Windows, NEW s \in {"released", "refused"},
               review' = [review EXCEPT ![w].st = s]
        PROVE  review' \in [Windows -> Entries]
    <2>1. [review[w] EXCEPT !.st = s] \in Entries
      BY <1>0
    <2>2. review' = [review EXCEPT ![w] = [review[w] EXCEPT !.st = s]]
      BY <1>4
    <2> HIDE DEF Entries
    <2> QED BY <1>0, <2>1, <2>2
  <1>5. ASSUME NEW c \in Calls, Handler(c) PROVE review' = review
    BY <1>5, HandlerLeaves DEF controlPlane
  <1>6. CASE Reporter \/ PostKill \/ PostRestore \/ UNCHANGED vars
    BY <1>1, <1>6 DEF Reporter, SendKill, KillLands, AttemptFails, LateKillLands, KillAnswered,
                      TripwireLands, PostKill, PostRestore, vars, controlPlane
  <1>7. CASE Restart \/ RestartUntrusted
    BY <1>2, <1>7 DEF Restart, RestartUntrusted
  <1>8. ASSUME NEW w \in Windows, PostRegisterVeto(w) \/ RegistrationFails(w) \/ ReviewEnds(w)
        PROVE  review' \in [Windows -> Entries]
    <2>1. \/ review' = review
          \/ review' = [review EXCEPT ![w] = [st |-> "open", epoch |-> cp.epoch]]
          \/ review' = [review EXCEPT ![w].st = "released"]
          \/ review' = [review EXCEPT ![w].st = "refused"]
      BY <1>8 DEF PostRegisterVeto, RegistrationFails, ReviewEnds
    <2>2. CASE review' = [review EXCEPT ![w].st = "released"]
      BY <1>4, <2>2
    <2>3. CASE review' = [review EXCEPT ![w].st = "refused"]
      BY <1>4, <2>3
    <2>4. CASE review' = [review EXCEPT ![w] = [st |-> "open", epoch |-> cp.epoch]]
      BY <1>3, <2>4
    <2> QED BY <1>1, <2>1, <2>2, <2>3, <2>4
  <1> HIDE DEF Entries
  <1> QED BY <1>1, <1>5, <1>6, <1>7, <1>8 DEF Next, ControlPlane, Entries

\* The calls made under a stop: one is added when it is made, all are dropped
\* when the stop ends.
UnderMoves ==
    \/ under' \subseteq under /\ (Stopped(cp') \/ under' = {} \/ UNCHANGED <<cp, under>>)
    \/ \E c \in Calls :
        /\ UNCHANGED cp /\ pc'[c] = "status"
        /\ under' = under \ {c} \/ (Stopped(cp) /\ under' = under \union {c})

LEMMA UnderStep ==
    ASSUME PlaneType, PlaceType, [Next]_vars
    PROVE  UnderMoves
  <1>0. cp.killed \in BOOLEAN /\ cp.listed \in BOOLEAN /\ cp.epoch \in 0..MaxEpoch
    BY StatusShape DEF PlaneType
  <1>1. ASSUME NEW c \in Calls, CallTool(c) PROVE UnderMoves
    BY <1>1 DEF CallTool, Goto, UnderMoves, PlaceType, controlPlane
  <1>2. ASSUME NEW c \in Calls, Handler(c), ~CallTool(c) PROVE UNCHANGED <<cp, under>>
    <2>1. UNCHANGED cp
      BY <1>2, HandlerLeaves DEF controlPlane
    <2>2. UNCHANGED under
      BY <1>2 DEF Handler, GetStatus, Decide, PinRefused, Forward, CallReturns, ReportSettles,
         FetchLive, BurnTicket, Execute, TicketRefused, EnterReview, GetVeto, GetVetoFails,
         ReviewRefuses, ReviewSpent, ReviewMissing, ReviewReleased
    <2> QED BY <2>1, <2>2
  <1>3. ASSUME NEW k \in BOOLEAN, NEW l \in BOOLEAN, NEW e \in 0..MaxEpoch, Transition(k, l, e)
        PROVE  UnderMoves
    <2>1. under' \subseteq under /\ (~Stopped(cp') => under' = {})
      BY <1>3, TransitionShape
    <2> QED BY <2>1 DEF UnderMoves
  <1>4. ASSUME NEW k \in BOOLEAN, NEW l \in BOOLEAN, Killing(k, l) PROVE UnderMoves
    BY <1>0, <1>3, <1>4, Bounds DEF Killing
  <1>5. CASE KillAgent
    <2>1. PICK s \in BOOLEAN : Killing(cp.killed \/ s, cp.listed \/ ~s)
      BY <1>5 DEF KillAgent
    <2>2. (cp.killed \/ s) \in BOOLEAN /\ (cp.listed \/ ~s) \in BOOLEAN
      BY <1>0
    <2> QED BY <1>4, <2>1, <2>2
  <1>6. CASE PostKill \/ KillLands \/ LateKillLands \/ TripwireLands
    BY <1>0, <1>4, <1>5, <1>6 DEF PostKill, KillLands, LateKillLands, TripwireLands
  <1>7. CASE PostRestore
    BY <1>0, <1>3, <1>7 DEF PostRestore
  <1>8. CASE Restart
    BY <1>8 DEF Restart, UnderMoves
  <1>9. CASE RestartUntrusted
    <2>1. cp'.killed = TRUE
      BY <1>9 DEF RestartUntrusted
    <2> QED BY <1>9, <2>1 DEF RestartUntrusted, UnderMoves, Stopped
  <1>10. ASSUME \/ SendKill \/ AttemptFails \/ KillAnswered \/ UNCHANGED vars
                \/ (\E w \in Windows :
                        PostRegisterVeto(w) \/ RegistrationFails(w) \/ ReviewEnds(w))
         PROVE  UNCHANGED <<cp, under>>
    BY <1>10 DEF SendKill, AttemptFails, KillAnswered, PostRegisterVeto, RegistrationFails,
                 ReviewEnds, vars, controlPlane
  <1>11. CASE UNCHANGED <<cp, under>>
    BY <1>11 DEF UnderMoves
  <1> QED BY <1>1, <1>2, <1>6, <1>7, <1>8, <1>9, <1>10, <1>11 DEF Next, Reporter, ControlPlane

LEMMA PlaneTypeStep ==
    ASSUME PlaneType, PlaceType, [Next]_vars
    PROVE  PlaneType'
  <1>1. PlaneMoves /\ UnderMoves
    BY PlaneStep, UnderStep
  <1>2. under' \subseteq Calls
    BY <1>1 DEF UnderMoves, PlaneType
  <1> QED BY <1>1, <1>2, PlaneShape, ReviewsStep DEF PlaneType

\* A call that asks about a window asks about one that is registered.
LEMMA HandlerPolls ==
    ASSUME PlaceType, MapType, NEW c \in Calls, Handler(c), NEW d \in Calls,
           pc'[d] \in {"poll", "polled"}
    PROVE  (pc[d] \in {"poll", "polled"} /\ waits'[d] = waits[d]) \/ waits'[d] \in registered
  <1> USE DEF PlaceType
  <1>1. CASE Return(c)
    BY <1>1 DEF Return, ReturnAll
  <1>2. ASSUME NEW p \in Places \ {"poll", "polled"}, Goto(c, p)
        PROVE  pc[d] \in {"poll", "polled"} /\ waits'[d] = waits[d]
    BY <1>2 DEF Goto
  <1>3. CASE Dispatched(c)
    BY <1>1, <1>3 DEF Dispatched
  <1>4. CASE ForwardOrKill(c)
    BY <1>1, <1>2, <1>3, <1>4 DEF ForwardOrKill, Places
  <1>5. CASE Register(c)
    BY <1>5 DEF Register
  <1>6. CASE \/ PinRefused(c) \/ ReportSettles(c) \/ TicketRefused(c) \/ GetVetoFails(c)
             \/ ReviewRefuses(c) \/ ReviewSpent(c) \/ Forward(c) \/ ReviewMissing(c)
             \/ ReviewReleased(c)
    BY <1>1, <1>4, <1>5, <1>6 DEF PinRefused, ReportSettles, TicketRefused, GetVetoFails,
       ReviewRefuses, ReviewSpent, Forward, ReviewMissing, ReviewReleased
  <1>7. CASE CallTool(c) \/ Decide(c) \/ CallReturns(c)
    BY <1>1, <1>2, <1>7 DEF CallTool, Decide, CallReturns, Places
  <1>8. CASE GetStatus(c) \/ FetchLive(c) \/ BurnTicket(c) \/ Execute(c)
    BY <1>8 DEF GetStatus, FetchLive, BurnTicket, Execute
  <1>9. CASE GetVeto(c)
    BY <1>9 DEF GetVeto
  <1>10. CASE EnterReview(c)
    <2>1. CASE ~Register(c)
      BY <1>10, <2>1 DEF EnterReview, Settled
    <2> QED BY <1>5, <2>1
  <1> QED BY <1>6, <1>7, <1>8, <1>9, <1>10 DEF Handler

\* What a step may do to the map: the window that is tracked is a new one, or
\* none; registrations are never forgotten.
MapMoves ==
    /\ windows' \in {windows, None} \/ windows' \in Windows \ registered
    /\ registered \subseteq registered' /\ registered' \subseteq Windows
    /\ \/ runs' = runs
       \/ /\ windows' = None
          /\ \E w \in registered : runs' = [runs EXCEPT ![w] = @ + 1]

LEMMA MapStep ==
    ASSUME PlaceType, MapType, [Next]_vars
    PROVE  MapMoves
  <1> USE DEF PlaceType, MapType
  <1>1. CASE UNCHANGED <<map, runs>>
    BY <1>1 DEF map, MapMoves
  <1>2. ASSUME NEW c \in Calls, Register(c), runs' = runs PROVE MapMoves
    BY <1>2 DEF Register, MapMoves
  <1>3. ASSUME NEW c \in Calls, EnterReview(c) \/ ReviewMissing(c) PROVE MapMoves
    BY <1>1, <1>2, <1>3 DEF EnterReview, ReviewMissing
  <1>4. ASSUME NEW c \in Calls, ReviewSpent(c) PROVE MapMoves
    BY <1>4 DEF ReviewSpent, DropEntry, MapMoves
  <1>5. ASSUME NEW c \in Calls, ReviewReleased(c) PROVE MapMoves
    <2>1. /\ waits[c] \in registered /\ windows' = None /\ registered' = registered
          /\ runs' = runs \/ runs' = [runs EXCEPT ![waits[c]] = @ + 1]
      BY <1>5 DEF ReviewReleased, DropEntry
    <2> QED BY <2>1 DEF MapMoves
  <1>6. ASSUME NEW c \in Calls, Handler(c), ~EnterReview(c), ~ReviewMissing(c), ~ReviewSpent(c),
               ~ReviewReleased(c)
        PROVE  UNCHANGED <<map, runs>>
    BY <1>6 DEF Handler, CallTool, GetStatus, Decide, PinRefused, Forward, CallReturns,
         ReportSettles, FetchLive, BurnTicket, Execute, TicketRefused, GetVeto, GetVetoFails,
         ReviewRefuses
  <1>7. ASSUME NEW w \in Windows, PostRegisterVeto(w) \/ RegistrationFails(w) PROVE MapMoves
    BY <1>7 DEF PostRegisterVeto, RegistrationFails, DropEntry, MapMoves
  <1>8. ASSUME \/ Reporter \/ PostKill \/ PostRestore \/ Restart \/ RestartUntrusted
               \/ (\E w \in Windows : ReviewEnds(w)) \/ UNCHANGED vars
        PROVE  UNCHANGED <<map, runs>>
    BY <1>8 DEF Reporter, SendKill, KillLands, AttemptFails, LateKillLands, KillAnswered,
         TripwireLands, PostKill, PostRestore, Restart, RestartUntrusted, ReviewEnds, vars
  <1> QED BY <1>1, <1>3, <1>4, <1>5, <1>6, <1>7, <1>8 DEF Next, ControlPlane

LEMMA MapTypeStep ==
    ASSUME PlaneType, AnswerType, PlaceType, MapType, [Next]_vars
    PROVE  MapType'
  <1>1. MapMoves
    BY MapStep
  <1>2. /\ windows' \in Windows \union {None} /\ registered' \subseteq Windows
        /\ registered \subseteq registered'
    BY <1>1 DEF MapMoves, MapType
  <1>3. runs' \in [Windows -> Nat]
    BY <1>1 DEF MapMoves, MapType
  <1>4. ASSUME NEW d \in Calls, pc'[d] \in {"poll", "polled"} PROVE waits'[d] \in registered'
    <2>1. ASSUME NEW c \in Calls, Handler(c) PROVE waits'[d] \in registered'
      <3>1. (pc[d] \in {"poll", "polled"} /\ waits'[d] = waits[d]) \/ waits'[d] \in registered
        BY <1>4, <2>1, HandlerPolls
      <3> QED BY <1>2, <3>1 DEF MapType
    <2>2. ASSUME NEW w \in Windows, PostRegisterVeto(w) \/ RegistrationFails(w)
          PROVE  waits'[d] \in registered'
      <3>1. /\ waits'[d] = waits[d] /\ registered' = registered \union {w}
            /\ pc'[d] = pc[d] \/ waits[d] = w
        BY <1>4, <2>2, RegistrationMoves
      <3> QED BY <1>4, <3>1 DEF MapType
    <2>3. CASE UNCHANGED places
      BY <1>2, <1>4, <2>3 DEF places, MapType
    <2> QED BY <2>1, <2>2, <2>3, OtherMoves DEF Next, ControlPlane
  <1> QED BY <1>2, <1>3, <1>4 DEF MapType

\* A window that let a call run is not tracked again.
LEMMA UnusedStep ==
    ASSUME PlaceType, MapType, UnusedInv, [Next]_vars
    PROVE  UnusedInv'
  <1>1. MapMoves
    BY MapStep
  <1> SUFFICES ASSUME NEW w \in Windows, runs'[w] /= 0
               PROVE  w \in registered' /\ windows' /= w
    BY DEF UnusedInv
  <1>2. CASE runs' = runs
    BY <1>1, <1>2, NoneAssumption DEF MapMoves, UnusedInv
  <1>3. CASE runs' /= runs
    <2>1. PICK v \in registered : windows' = None /\ runs' = [runs EXCEPT ![v] = @ + 1]
      BY <1>1, <1>3 DEF MapMoves
    <2>2. v = w \/ runs[w] /= 0
      BY <2>1 DEF MapType
    <2> QED BY <1>1, <2>1, <2>2, NoneAssumption DEF MapMoves, UnusedInv
  <1> QED BY <1>2, <1>3

-----------------------------------------------------------------------------
(* The tracker and its latch.                                              *)

\* The decision of a call, and what its answer tells the latch.
Heard(c) ==
    /\ pc[c] = "answered" /\ ~answer[c].killed /\ ObserveKillState(answer[c])
    /\ UNCHANGED <<controlPlane, reporter>>

\* A call is counted, before it runs or when it failed.
Counts(c, metrics, amount) ==
    \E tripped, latched \in BOOLEAN :
        /\ Observe(c, metrics, amount, tripped, latched)
        /\ report' = IF latched THEN generations' ELSE report
        /\ UNCHANGED <<controlPlane, attempt, late, tripwire>>

\* What a step may do to the tracker and to the kill lane of the reporter.
TrackerMoves ==
    \/ UNCHANGED <<tracker, report, attempt>>
    \/ \E c \in Calls : Heard(c)
    \/ \E c \in Calls, amount \in Amounts : Admitted /\ Counts(c, {"calls", "amount"}, amount)
    \/ \E c \in Calls : Counts(c, {"errors"}, 0)
    \/ SendKill
    \/ KillLands
    \/ AttemptFails
    \/ KillAnswered

LEMMA TrackerStep ==
    ASSUME [Next]_vars
    PROVE  /\ TrackerMoves
           /\ late \in BOOLEAN /\ tripwire \in BOOLEAN => late' \in BOOLEAN /\ tripwire' \in BOOLEAN
  <1> DEFINE Flags ==
        late \in BOOLEAN /\ tripwire \in BOOLEAN => late' \in BOOLEAN /\ tripwire' \in BOOLEAN
  <1>1. CASE UNCHANGED <<tracker, reporter>>
    BY <1>1 DEF TrackerMoves, reporter
  <1>2. ASSUME NEW c \in Calls, Decide(c) PROVE TrackerMoves /\ Flags
    <2>1. CASE UNCHANGED tracker
      BY <1>1, <1>2, <2>1 DEF Decide
    <2>2. CASE ~answer[c].killed /\ ObserveKillState(answer[c])
      <3>1. Heard(c)
        BY <1>2, <2>2 DEF Decide, Heard
      <3>2. Flags
        BY <3>1 DEF Heard, reporter
      <3> QED BY <3>1, <3>2 DEF TrackerMoves
    <2> QED BY <1>2, <2>1, <2>2 DEF Decide
  <1>3. ASSUME NEW c \in Calls, PinRefused(c) PROVE TrackerMoves /\ Flags
    <2>1. UNCHANGED <<tracker, report, attempt, late>> /\ tripwire' \in {tripwire, tripwire \/ c \in Decoys}
      BY <1>3 DEF PinRefused
    <2> QED BY <2>1 DEF TrackerMoves
  <1>4. ASSUME NEW c \in Calls, ForwardOrKill(c), UNCHANGED controlPlane
        PROVE  TrackerMoves /\ Flags
    <2>1. CASE UNCHANGED <<tracker, report, attempt, late>> /\ tripwire' = TRUE
      BY <2>1 DEF TrackerMoves
    <2>2. CASE /\ Admitted
               /\ \E amount \in Amounts, tripped, latched \in BOOLEAN :
                    /\ Observe(c, {"calls", "amount"}, amount, tripped, latched)
                    /\ report' = IF latched THEN generations' ELSE report
               /\ UNCHANGED <<attempt, late, tripwire>>
      <3>1. \E amount \in Amounts : Admitted /\ Counts(c, {"calls", "amount"}, amount)
        BY <1>4, <2>2 DEF Counts
      <3>2. Flags
        BY <2>2
      <3> QED BY <3>1, <3>2 DEF TrackerMoves
    <2> QED BY <1>1, <1>4, <2>1, <2>2 DEF ForwardOrKill
  <1>5. ASSUME NEW c \in Calls, Forward(c) \/ ReviewReleased(c) PROVE TrackerMoves /\ Flags
    BY <1>4, <1>5 DEF Forward, ReviewReleased
  <1>6. ASSUME NEW c \in Calls, CallReturns(c) PROVE TrackerMoves /\ Flags
    <2>1. CASE \E tripped, latched \in BOOLEAN :
                 /\ Observe(c, {"errors"}, 0, tripped, latched)
                 /\ report' = IF latched THEN generations' ELSE report
                 /\ UNCHANGED <<attempt, late, tripwire>>
      <3>1. Counts(c, {"errors"}, 0)
        BY <1>6, <2>1 DEF CallReturns, Counts
      <3>2. Flags
        BY <2>1
      <3> QED BY <3>1, <3>2 DEF TrackerMoves
    <2> QED BY <1>1, <1>6, <2>1 DEF CallReturns
  <1>7. ASSUME NEW c \in Calls, Handler(c), ~Decide(c), ~PinRefused(c), ~Forward(c),
               ~ReviewReleased(c), ~CallReturns(c)
        PROVE  UNCHANGED <<tracker, reporter>>
    BY <1>7 DEF Handler, CallTool, GetStatus, ReportSettles, FetchLive, BurnTicket, Execute,
         TicketRefused, EnterReview, GetVeto, GetVetoFails, ReviewRefuses, ReviewSpent, ReviewMissing
  <1>8. CASE SendKill \/ KillLands \/ AttemptFails \/ KillAnswered
    BY <1>8 DEF SendKill, KillLands, AttemptFails, KillAnswered, TrackerMoves
  <1>9. CASE LateKillLands \/ TripwireLands
    BY <1>9 DEF LateKillLands, TripwireLands, TrackerMoves
  <1>10. ASSUME ControlPlane \/ UNCHANGED vars PROVE UNCHANGED <<tracker, reporter>>
    BY <1>10 DEF ControlPlane, PostKill, PostRestore, Restart, RestartUntrusted, PostRegisterVeto,
         RegistrationFails, ReviewEnds, vars
  <1> QED BY <1>1, <1>2, <1>3, <1>5, <1>6, <1>7, <1>8, <1>9, <1>10 DEF Next, Reporter

\* What counting makes of the totals.
LEMMA CountedShape ==
    ASSUME NEW count \in [Rules -> Nat], NEW amount \in Nat \union {Unreadable},
           NEW rules \in SUBSET Rules
    PROVE  /\ Counted(count, amount, rules) \in [Rules -> Nat]
           /\ \A r \in Rules : r \notin rules => Counted(count, amount, rules)[r] = count[r]
           /\ \A r \in rules : Value(amount, r) /= Unreadable =>
                Value(amount, r) \in Nat /\ Counted(count, amount, rules)[r] = count[r] + Value(amount, r)
  <1>1. \A r \in Rules : Value(amount, r) /= Unreadable => Value(amount, r) \in Nat
    BY DEF Value
  <1> QED BY <1>1 DEF Counted

\* The tracker is armed by a restore it hears of, latched by a rule that trips.
LEMMA HeardShape ==
    ASSUME TrackerType, AnswerType, NEW c \in Calls, Heard(c)
    PROVE  /\ generations' = generations /\ UNCHANGED <<controlPlane, reporter>>
           /\ \/ UNCHANGED <<latch, total, spent>>
              \/ /\ latch.phase = "confirmed" /\ ~answer[c].degraded /\ ~answer[c].killed
                 /\ Admissible(answer[c]) /\ ~answer[c].listed
                 /\ latch' = Armed /\ total' = NothingCounted /\ spent' = NothingCounted
              \/ /\ latch.phase = "confirmed" /\ ~answer[c].degraded
                 /\ Admissible(answer[c]) /\ answer[c].listed
                 /\ latch' = [phase |-> "confirmed", epochFloor |-> answer[c].epoch]
                 /\ UNCHANGED <<total, spent>>
  <1>0. answer[c] \in Status
    BY DEF AnswerType
  <1>1. ObserveKillState(answer[c]) /\ ~answer[c].killed
    BY DEF Heard
  <1>2. generations' = generations /\ UNCHANGED <<controlPlane, reporter>>
    BY DEF Heard, ObserveKillState
  <1> DEFINE heard == ~answer[c].degraded /\ latch.phase = "confirmed" /\ Admissible(answer[c])
  <1>3. CASE ~heard
    <2>1. UNCHANGED <<latch, total, spent>>
      BY <1>1, <1>3 DEF ObserveKillState
    <2> QED BY <1>2, <2>1
  <1>4. CASE heard /\ ~answer[c].listed
    BY <1>1, <1>2, <1>4 DEF ObserveKillState
  <1>5. CASE heard /\ answer[c].listed
    <2>1. latch' = [latch EXCEPT !.epochFloor = answer[c].epoch] /\ UNCHANGED <<total, spent>>
      BY <1>1, <1>5 DEF ObserveKillState
    <2>2. latch' = [phase |-> "confirmed", epochFloor |-> answer[c].epoch]
      BY <1>5, <2>1 DEF TrackerType
    <2> QED BY <1>2, <1>5, <2>1, <2>2
  <1> QED BY <1>0, <1>3, <1>4, <1>5, StatusShape

LEMMA CountsShape ==
    ASSUME TrackerType, AnswerType, NEW c \in Calls, NEW metrics, NEW amount \in Nat \union {Unreadable},
           Counts(c, metrics, amount), report \in Nat
    PROVE  /\ UNCHANGED <<controlPlane, attempt>>
           /\ total' = Counted(total, amount, {r \in Rules : Metric[r] \in metrics})
           /\ \/ /\ \A r \in Rules : Metric[r] \in metrics => ~Trips(amount, r)
                 /\ spent' = Counted(spent, amount, {r \in Rules : Metric[r] \in metrics})
                 /\ UNCHANGED <<latch, generations, report>>
              \/ /\ latch.phase /= "armed" /\ UNCHANGED <<spent, latch, generations, report>>
              \/ /\ latch.phase = "armed" /\ spent' = spent
                 /\ latch' = [phase |-> "unconfirmed", epochFloor |-> answer[c].epoch + 1]
                 /\ generations' = generations + 1 /\ report' = generations'
  <1> DEFINE rules == {r \in Rules : Metric[r] \in metrics}
  <1>1. PICK tripped \in BOOLEAN, latched \in BOOLEAN :
          /\ Observe(c, metrics, amount, tripped, latched)
          /\ report' = IF latched THEN generations' ELSE report
          /\ UNCHANGED <<controlPlane, attempt, late, tripwire>>
    BY DEF Counts
  <1>2. /\ tripped = (\E r \in rules : Trips(amount, r))
        /\ latched = (tripped /\ latch.phase = "armed")
        /\ total' = Counted(total, amount, rules)
        /\ spent' = IF tripped THEN spent ELSE Counted(spent, amount, rules)
        /\ latch' = IF latched
                    THEN [phase |-> "unconfirmed", epochFloor |-> answer[c].epoch + 1]
                    ELSE latch
        /\ generations' = IF latched THEN generations + 1 ELSE generations
    BY <1>1 DEF Observe
  <1>3. CASE ~tripped
    <2>1. \A r \in Rules : Metric[r] \in metrics => ~Trips(amount, r)
      BY <1>2, <1>3
    <2>2. ~latched
      BY <1>2, <1>3
    <2>3. spent' = Counted(spent, amount, rules) /\ UNCHANGED <<latch, generations, report>>
      BY <1>1, <1>2, <1>3, <2>2
    <2> HIDE DEF rules
    <2> QED BY <1>1, <1>2, <2>1, <2>3 DEF rules
  <1>4. CASE tripped /\ ~latched
    <2>1. latch.phase /= "armed" /\ UNCHANGED <<spent, latch, generations, report>>
      BY <1>1, <1>2, <1>4
    <2> QED BY <1>1, <1>2, <2>1
  <1>5. CASE tripped /\ latched
    <2>1. /\ latch.phase = "armed" /\ spent' = spent
          /\ latch' = [phase |-> "unconfirmed", epochFloor |-> answer[c].epoch + 1]
          /\ generations' = generations + 1 /\ report' = generations'
      BY <1>1, <1>2, <1>5
    <2> QED BY <1>1, <1>2, <2>1
  <1> QED BY <1>3, <1>4, <1>5

LEMMA KillAnsweredShape ==
    ASSUME KillAnswered
    PROVE  /\ attempt.st = "answered" /\ attempt' = NoAttempt
           /\ UNCHANGED <<controlPlane, calls, generations, total, spent>>
           /\ \/ UNCHANGED <<report, latch>>
              \/ ~attempt.degraded /\ report' = 0 /\ latch' = latch
              \/ /\ ~attempt.degraded /\ report' = 0 /\ latch.phase = "unconfirmed"
                 /\ latch' = [phase |-> "confirmed", epochFloor |-> attempt.epoch]
  BY DEF KillAnswered, IsConfirmation, ConfirmKillDelivered, Shifted, tracker

LEMMA NoAttemptShape ==
    /\ NoAttempt.st = "none" /\ Sent.st = "sent" /\ Sent /= NoAttempt
    /\ NoAttempt \in [st : {"none", "sent", "answered"}, epoch : 0..MaxEpoch, degraded : BOOLEAN]
    /\ Sent \in [st : {"none", "sent", "answered"}, epoch : 0..MaxEpoch, degraded : BOOLEAN]
  BY Bounds DEF NoAttempt, Sent

LEMMA TrackerTypeStep ==
    ASSUME TrackerType, AnswerType, ReporterType, LaneInv, TrackerMoves
    PROVE  TrackerType'
  <1> DEFINE Latches == [phase : {"armed", "unconfirmed", "confirmed"}, epochFloor : 0..MaxEpoch + 1]
  <1>0. report \in Nat
    BY DEF TrackerType, LaneInv
  <1>1. CASE UNCHANGED tracker
    BY <1>1 DEF tracker, TrackerType
  <1>2. ASSUME NEW c \in Calls, Heard(c) PROVE TrackerType'
    <2>0. answer[c].epoch \in 0..(MaxEpoch + 1) /\ 0 \in 0..(MaxEpoch + 1)
      BY StatusShape, Bounds DEF AnswerType
    <2>1. /\ generations' = generations
          /\ \/ UNCHANGED <<latch, total, spent>>
             \/ latch' = Armed /\ total' = NothingCounted /\ spent' = NothingCounted
             \/ /\ latch' = [phase |-> "confirmed", epochFloor |-> answer[c].epoch]
                /\ UNCHANGED <<total, spent>>
      BY <1>2, HeardShape
    <2>2. latch' \in Latches
      BY <2>0, <2>1 DEF TrackerType, Armed
    <2>3. total' \in [Rules -> Nat] /\ spent' \in [Rules -> Nat]
      BY <2>1 DEF TrackerType, NothingCounted
    <2> QED BY <2>1, <2>2, <2>3 DEF TrackerType
  <1>3. ASSUME NEW c \in Calls, NEW metrics, NEW amount \in Nat \union {Unreadable},
               Counts(c, metrics, amount)
        PROVE  TrackerType'
    <2> DEFINE rules == {r \in Rules : Metric[r] \in metrics}
    <2>0. answer[c].epoch + 1 \in 0..(MaxEpoch + 1)
      BY StatusShape, Bounds DEF AnswerType
    <2>1. /\ total' = Counted(total, amount, rules)
          /\ \/ spent' = Counted(spent, amount, rules) /\ UNCHANGED <<latch, generations>>
             \/ UNCHANGED <<spent, latch, generations>>
             \/ /\ spent' = spent /\ generations' = generations + 1
                /\ latch' = [phase |-> "unconfirmed", epochFloor |-> answer[c].epoch + 1]
      BY <1>0, <1>3, CountsShape
    <2>2. rules \in SUBSET Rules
      OBVIOUS
    <2> HIDE DEF rules
    <2>3. total' \in [Rules -> Nat] /\ spent' \in [Rules -> Nat]
      <3>1. total \in [Rules -> Nat] /\ spent \in [Rules -> Nat]
        BY DEF TrackerType
      <3>2. /\ Counted(total, amount, rules) \in [Rules -> Nat]
            /\ Counted(spent, amount, rules) \in [Rules -> Nat]
        BY <2>2, <3>1, CountedShape
      <3>3. spent' = spent \/ spent' = Counted(spent, amount, rules)
        BY <2>1
      <3>4. total' = Counted(total, amount, rules)
        BY <2>1
      <3> QED BY <3>1, <3>2, <3>3, <3>4
    <2>4. latch' \in Latches /\ generations' \in Nat
      BY <2>0, <2>1 DEF TrackerType
    <2> QED BY <2>3, <2>4 DEF TrackerType
  <1>4. CASE KillAnswered
    <2>1. UNCHANGED <<generations, total, spent>>
      BY <1>4, KillAnsweredShape
    <2>2. attempt.epoch \in 0..(MaxEpoch + 1)
      BY Bounds DEF ReporterType
    <2>3. latch' = latch \/ latch' = [phase |-> "confirmed", epochFloor |-> attempt.epoch]
      BY <1>4, KillAnsweredShape
    <2>4. latch' \in Latches
      BY <2>2, <2>3 DEF TrackerType
    <2> QED BY <2>1, <2>4 DEF TrackerType
  <1>5. CASE SendKill \/ KillLands \/ AttemptFails
    BY <1>1, <1>5 DEF SendKill, KillLands, AttemptFails
  <1>6. \A amount \in Amounts : amount \in Nat \union {Unreadable}
    BY AmountAssumption
  <1>7. 0 \in Nat \union {Unreadable}
    OBVIOUS
  <1> QED BY <1>1, <1>2, <1>3, <1>4, <1>5, <1>6, <1>7 DEF TrackerMoves, tracker

LEMMA ReporterTypeStep ==
    ASSUME PlaneType, ReporterType, PlaneMoves, [Next]_vars
    PROVE  ReporterType'
  <1> DEFINE Attempts == [st : {"none", "sent", "answered"}, epoch : 0..MaxEpoch, degraded : BOOLEAN]
  <1>1. late' \in BOOLEAN /\ tripwire' \in BOOLEAN /\ TrackerMoves
    BY TrackerStep DEF ReporterType
  <1>2. ASSUME NEW c \in Calls, Heard(c) PROVE attempt' = attempt
    BY <1>2 DEF Heard, reporter
  <1>3. ASSUME NEW c \in Calls, NEW metrics, NEW amount, Counts(c, metrics, amount)
        PROVE  attempt' = attempt
    BY <1>3 DEF Counts
  <1>4. CASE SendKill \/ AttemptFails \/ KillAnswered
    BY <1>4, NoAttemptShape DEF SendKill, AttemptFails, KillAnswered, ReporterType
  <1>5. CASE KillLands
    <2>1. cp' \in Status
      BY PlaneShape
    <2>2. attempt' = [st |-> "answered", epoch |-> cp'.epoch, degraded |-> cp'.degraded]
      BY <1>5 DEF KillLands
    <2>3. cp'.epoch \in 0..MaxEpoch /\ cp'.degraded \in BOOLEAN
      BY <2>1 DEF Status
    <2>4. attempt' \in Attempts
      BY <2>2, <2>3
    <2> QED BY <1>1, <2>4 DEF ReporterType
  <1>6. CASE attempt' = attempt
    BY <1>1, <1>6 DEF ReporterType
  <1> QED BY <1>1, <1>2, <1>3, <1>4, <1>5, <1>6, NoAttemptShape DEF TrackerMoves, ReporterType

\* One trip at a time is in the lane of the reporter.
LEMMA LaneStep ==
    ASSUME TrackerType, AnswerType, ReporterType, LaneInv, TrackerMoves
    PROVE  LaneInv'
  <1> USE DEF LaneInv
  <1>0. report \in Nat /\ generations \in Nat
    BY DEF TrackerType
  <1>1. CASE UNCHANGED <<tracker, report, attempt>>
    BY <1>1 DEF tracker
  <1>2. ASSUME NEW c \in Calls, Heard(c) PROVE LaneInv'
    <2>1. /\ UNCHANGED <<generations, report, attempt>>
          /\ latch' = latch \/ latch.phase = "confirmed"
      BY <1>2, HeardShape DEF reporter
    <2> QED BY <2>1
  <1>3. ASSUME NEW c \in Calls, NEW metrics, NEW amount \in Nat \union {Unreadable},
               Counts(c, metrics, amount)
        PROVE  LaneInv'
    <2>1. /\ attempt' = attempt
          /\ \/ UNCHANGED <<latch, generations, report>>
             \/ /\ latch' = [phase |-> "unconfirmed", epochFloor |-> answer[c].epoch + 1]
                /\ generations' = generations + 1 /\ report' = generations'
      BY <1>0, <1>3, CountsShape
    <2> QED BY <1>0, <2>1
  <1>4. CASE KillAnswered
    <2>1. attempt' = NoAttempt /\ attempt /= NoAttempt /\ generations' = generations
      BY <1>4, KillAnsweredShape, NoAttemptShape
    <2>2. \/ UNCHANGED <<report, latch>>
          \/ report' = 0
      BY <1>4, KillAnsweredShape
    <2> QED BY <2>1, <2>2
  <1>5. CASE SendKill
    BY <1>5 DEF SendKill, tracker
  <1>6. CASE AttemptFails
    BY <1>6 DEF AttemptFails, tracker
  <1>7. CASE KillLands
    BY <1>7, NoAttemptShape DEF KillLands, tracker
  <1>8. \A amount \in Amounts : amount \in Nat \union {Unreadable}
    BY AmountAssumption
  <1>9. 0 \in Nat \union {Unreadable}
    OBVIOUS
  <1> QED BY <1>1, <1>2, <1>3, <1>4, <1>5, <1>6, <1>7, <1>8, <1>9 DEF TrackerMoves

\* What runs is counted first, in the turn that looks at the latch.
LEMMA BudgetStep ==
    ASSUME TrackerType, AnswerType, LaneInv, BudgetInv, TrackerMoves
    PROVE  BudgetInv'
  <1>0. report \in Nat
    BY DEF TrackerType, LaneInv
  <1>1. CASE UNCHANGED <<total, spent>> /\ (latch'.phase = "armed" => latch.phase = "armed")
    BY <1>1 DEF BudgetInv, NoOverspend
  <1>2. ASSUME NEW c \in Calls, Heard(c) PROVE BudgetInv'
    <2>1. CASE total' = NothingCounted /\ spent' = NothingCounted
      <3>1. \A r \in Rules : Max[r] \in Nat /\ spent'[r] = 0
        BY <2>1, RulesAssumption DEF NothingCounted
      <3> QED BY <2>1, <3>1 DEF BudgetInv, NoOverspend
    <2>2. CASE UNCHANGED <<total, spent>> /\ (latch'.phase = "armed" => latch.phase = "armed")
      BY <1>1, <2>2
    <2> QED BY <1>2, <2>1, <2>2, HeardShape
  <1>3. ASSUME NEW c \in Calls, NEW amount \in Nat \union {Unreadable}, Admitted,
               Counts(c, {"calls", "amount"}, amount)
        PROVE  BudgetInv'
    <2> DEFINE rules == {r \in Rules : Metric[r] \in {"calls", "amount"}}
    <2>1. latch.phase = "armed" /\ total = spent
      BY <1>3 DEF Admitted, BudgetInv
    <2>2. CASE /\ \A r \in rules : ~Trips(amount, r)
               /\ total' = Counted(total, amount, rules) /\ spent' = Counted(spent, amount, rules)
      <3>1. ASSUME NEW r \in Rules, Metric[r] /= "errors" PROVE spent'[r] <= Max[r]
        <4>1. r \in rules /\ Max[r] \in Nat /\ total[r] \in Nat
          BY <3>1, RulesAssumption DEF TrackerType
        <4>2. total[r] <= Max[r]
          BY <2>1, <3>1 DEF BudgetInv, NoOverspend
        <4>3. Value(amount, r) /= Unreadable /\ ~(total[r] + Value(amount, r) > Max[r])
          BY <2>2, <4>1, <4>2 DEF Trips
        <4>4. rules \in SUBSET Rules /\ total \in [Rules -> Nat]
          BY DEF TrackerType
        <4> HIDE DEF rules
        <4>5. /\ Value(amount, r) \in Nat
              /\ Counted(total, amount, rules)[r] = total[r] + Value(amount, r)
          BY <4>1, <4>3, <4>4, CountedShape
        <4> QED BY <2>1, <2>2, <4>1, <4>3, <4>5
      <3>2. total' = spent'
        BY <2>1, <2>2
      <3> QED BY <3>1, <3>2 DEF BudgetInv, NoOverspend
    <2>3. CASE spent' = spent /\ latch'.phase = "unconfirmed"
      BY <2>3 DEF BudgetInv, NoOverspend
    <2> HIDE DEF rules
    <2> QED BY <1>0, <1>3, <2>1, <2>2, <2>3, CountsShape DEF rules
  <1>4. ASSUME NEW c \in Calls, Counts(c, {"errors"}, 0) PROVE BudgetInv'
    <2> DEFINE rules == {r \in Rules : Metric[r] \in {"errors"}}
    <2>1. /\ total' = Counted(total, 0, rules)
          /\ \/ spent' = Counted(spent, 0, rules) /\ latch' = latch
             \/ spent' = spent /\ latch'.phase /= "armed"
      <3>1. 0 \in Nat \union {Unreadable}
        OBVIOUS
      <3> QED BY <1>0, <1>4, <3>1, CountsShape
    <2>2. \A r \in Rules : Metric[r] /= "errors" => Counted(spent, 0, rules)[r] = spent[r]
      BY DEF Counted, TrackerType
    <2> HIDE DEF rules
    <2>3. \A r \in Rules : Metric[r] /= "errors" => spent'[r] = spent[r]
      BY <2>1, <2>2
    <2>4. latch'.phase = "armed" => total' = spent'
      BY <2>1 DEF BudgetInv
    <2> QED BY <2>3, <2>4 DEF BudgetInv, NoOverspend
  <1>5. CASE KillAnswered
    <2>1. UNCHANGED <<total, spent>> /\ (latch' = latch \/ latch'.phase = "confirmed")
      BY <1>5, KillAnsweredShape
    <2> QED BY <1>1, <2>1
  <1>6. CASE SendKill \/ AttemptFails \/ KillLands
    BY <1>1, <1>6 DEF SendKill, AttemptFails, KillLands, tracker
  <1>7. CASE UNCHANGED tracker
    BY <1>1, <1>7 DEF tracker
  <1>8. \A amount \in Amounts : amount \in Nat \union {Unreadable}
    BY AmountAssumption
  <1> QED BY <1>2, <1>3, <1>4, <1>5, <1>6, <1>7, <1>8 DEF TrackerMoves

-----------------------------------------------------------------------------
(* Every trip has its restore.                                             *)

\* What no move takes back, short of a boot from untrusted state: an epoch that
\* memory and disk have reached, and a stop, unless the owner ended it.
LEMMA PlaneKeeps ==
    ASSUME PlaneType, DurableInv, PlaneMoves, ~reset', disk /= Missing => disk.epoch <= cp.epoch
    PROVE  /\ ~reset
           /\ disk' /= Missing => disk'.epoch <= cp'.epoch
           /\ \A e \in Nat : e <= cp.epoch /\ (disk /= Missing => e <= disk.epoch) =>
                e <= cp'.epoch /\ (disk' /= Missing => e <= disk'.epoch)
           /\ ~Stopped(cp') => \/ restores' = restores + 1
                               \/ ~Stopped(cp)
                               \/ disk /= Missing /\ ~Stopped(disk)
           /\ disk' /= Missing /\ ~Stopped(disk') => disk' = disk \/ ~Stopped(cp')
  <1> DEFINE G ==
        /\ ~reset
        /\ disk' /= Missing => disk'.epoch <= cp'.epoch
        /\ \A e \in Nat : e <= cp.epoch /\ (disk /= Missing => e <= disk.epoch) =>
             e <= cp'.epoch /\ (disk' /= Missing => e <= disk'.epoch)
        /\ ~Stopped(cp') => \/ restores' = restores + 1
                            \/ ~Stopped(cp)
                            \/ disk /= Missing /\ ~Stopped(disk)
        /\ disk' /= Missing /\ ~Stopped(disk') => disk' = disk \/ ~Stopped(cp')
  <1>0. cp.epoch \in 0..MaxEpoch /\ disk.epoch \in Nat
    BY StatusShape, Bounds DEF PlaneType, KillState
  <1>1. CASE UNCHANGED <<cp, disk, faults, reset, restores>>
    BY <1>1
  <1>2. ASSUME NEW k \in BOOLEAN, NEW l \in BOOLEAN, NEW e \in 0..MaxEpoch, Transition(k, l, e),
               e >= cp.epoch, reset' = reset
        PROVE  G
    <2>1. /\ cp'.epoch = e /\ disk' \in {State(k, l, e), Missing, disk}
          /\ Stopped(cp) /\ ~Stopped(cp') => restores' = restores + 1
          /\ Stopped(cp') <=> k \/ l
      BY <1>2, TransitionShape
    <2>2. State(k, l, e).epoch = e /\ State(k, l, e).killed = k /\ State(k, l, e).listed = l
      BY StateShape
    <2>3. Stopped(State(k, l, e)) <=> Stopped(cp')
      BY <2>1, <2>2 DEF Stopped
    <2>4. e \in Nat /\ cp.epoch \in Nat
      BY <1>0, Bounds
    <2>5. CASE disk' = State(k, l, e)
      BY <1>2, <2>1, <2>2, <2>3, <2>4, <2>5
    <2>6. CASE disk' = Missing
      BY <1>2, <2>1, <2>4, <2>6
    <2>7. CASE disk' = disk
      BY <1>0, <1>2, <2>1, <2>4, <2>7
    <2> QED BY <2>1, <2>5, <2>6, <2>7
  <1>3. CASE Kills
    <2>1. PICK k \in BOOLEAN, l \in BOOLEAN :
            Transition(k, l, cp.epoch + 1) /\ cp.epoch < MaxEpoch /\ reset' = reset
      BY <1>3 DEF Kills, Killing
    <2>2. cp.epoch + 1 \in 0..MaxEpoch /\ cp.epoch + 1 >= cp.epoch
      BY <1>0, <2>1, Bounds
    <2> QED BY <1>2, <2>1, <2>2
  <1>4. CASE Restores
    <2>1. PICK k \in BOOLEAN, l \in BOOLEAN : Transition(k, l, cp.epoch) /\ reset' = reset
      BY <1>4 DEF Restores
    <2>2. cp.epoch >= cp.epoch
      BY <1>0
    <2> QED BY <1>0, <1>2, <2>1, <2>2
  <1>5. CASE Restart
    <2>1. /\ disk /= Missing /\ disk' = disk /\ cp'.epoch = disk.epoch /\ reset' = reset
          /\ Stopped(cp') <=> Stopped(disk)
      BY <1>5 DEF Restart, Stopped
    <2> QED BY <1>0, <2>1
  <1>6. CASE RestartUntrusted
    BY <1>6 DEF RestartUntrusted
  <1> QED BY <1>1, <1>3, <1>4, <1>5, <1>6 DEF PlaneMoves

\* What a call was told, after a step: what it had, nothing it would act on, or
\* the state of a control plane that stands still.
LEMMA AnswerKept ==
    ASSUME PlaneType, AnswerType, CallsMove, NEW d \in Calls
    PROVE  \/ answer'[d] = answer[d]
           \/ answer'[d] = FailClosed
           \/ answer'[d] = StatusAnswer /\ UNCHANGED <<controlPlane, tracker, reporter>>
  BY DEF CallsMove, Goes, Stays, IsOver, Asks, Hears, IsLet, Rechecks, Runs, Walks

LEMMA AfterKept ==
    ASSUME PlaneType, AnswerType, DurableInv, CallsMove, PlaneMoves, ~reset', TrackerType,
           disk /= Missing => disk.epoch <= cp.epoch,
           generations' = generations, generations <= restores + 1,
           NEW e \in Nat, After(e)
    PROVE  After(e)'
  <1>1. restores \in Nat /\ restores' \in Nat /\ restores' >= restores /\ generations \in Nat
    BY PlaneShape DEF PlaneType, TrackerType
  <1>2. /\ e <= cp'.epoch /\ (disk' /= Missing => e <= disk'.epoch)
        /\ ~Stopped(cp') => \/ restores' = restores + 1
                            \/ ~Stopped(cp)
                            \/ disk /= Missing /\ ~Stopped(disk)
        /\ disk' /= Missing /\ ~Stopped(disk') => disk' = disk \/ ~Stopped(cp')
    BY PlaneKeeps DEF After
  <1>3. ~Stopped(cp') => generations' <= restores'
    BY <1>1, <1>2 DEF After
  <1>4. disk' /= Missing /\ ~Stopped(disk') => generations' <= restores'
    BY <1>1, <1>2, <1>3 DEF After
  <1>5. ASSUME NEW d \in Calls, ~answer'[d].degraded, ~Denied(answer'[d]), answer'[d].epoch >= e
        PROVE  generations' <= restores'
    <2>1. CASE answer'[d] = answer[d]
      BY <1>1, <1>5, <2>1 DEF After
    <2>2. CASE answer'[d] = FailClosed
      BY <1>5, <2>2, AnswerShape
    <2>3. CASE answer'[d] = StatusAnswer
      <3>1. ~Stopped(cp)
        BY <1>5, <2>3, AnswerShape
      <3> QED BY <1>1, <3>1 DEF After
    <2> QED BY <2>1, <2>2, <2>3, AnswerKept
  <1> QED BY <1>2, <1>3, <1>4, <1>5 DEF After

\* Epochs on the disk and in the answers do not run ahead of memory.
EpochsInOrder ==
    /\ disk /= Missing => disk.epoch <= cp.epoch
    /\ \A c \in Calls : ~answer[c].degraded =>
          answer[c].epoch <= cp.epoch /\ (disk /= Missing => answer[c].epoch <= disk.epoch)

LEMMA EpochsKept ==
    ASSUME PlaneType, AnswerType, DurableInv, CallsMove, PlaneMoves, ~reset', EpochsInOrder
    PROVE  EpochsInOrder'
  <1>1. /\ disk' /= Missing => disk'.epoch <= cp'.epoch
        /\ \A e \in Nat : e <= cp.epoch /\ (disk /= Missing => e <= disk.epoch) =>
             e <= cp'.epoch /\ (disk' /= Missing => e <= disk'.epoch)
    BY PlaneKeeps DEF EpochsInOrder
  <1>2. ASSUME NEW d \in Calls, ~answer'[d].degraded
        PROVE  answer'[d].epoch <= cp'.epoch /\ (disk' /= Missing => answer'[d].epoch <= disk'.epoch)
    <2>1. CASE answer'[d] = answer[d]
      <3>1. answer[d].epoch \in Nat
        BY StatusShape DEF AnswerType
      <3> QED BY <1>1, <1>2, <2>1, <3>1 DEF EpochsInOrder
    <2>2. CASE answer'[d] = FailClosed
      BY <1>2, <2>2, AnswerShape
    <2>3. CASE answer'[d] = StatusAnswer /\ UNCHANGED controlPlane
      <3>1. ~cp.degraded /\ answer'[d].epoch = cp.epoch /\ cp.epoch \in Nat
        BY <1>2, <2>3, AnswerShape, StatusShape DEF PlaneType
      <3>2. disk.epoch = cp.epoch
        BY <3>1, StateShape DEF DurableInv, InMemory
      <3> QED BY <1>1, <3>1, <3>2
    <2> QED BY <2>1, <2>2, <2>3, AnswerKept
  <1> QED BY <1>1, <1>2 DEF EpochsInOrder

\* A kill that was saved is of the past from then on, and for everybody.
LEMMA LandedAfter ==
    ASSUME PlaneType, AnswerType, DurableInv, EpochsInOrder, KillLands, ~cp'.degraded
    PROVE  /\ attempt'.epoch \in Nat
           /\ \A e \in Nat : e = attempt'.epoch => After(e)'
  <1>0. cp.killed \in BOOLEAN /\ cp.listed \in BOOLEAN /\ cp.epoch \in 0..MaxEpoch
    BY StatusShape DEF PlaneType
  <1>1. PICK s \in BOOLEAN : Killing(cp.killed \/ s, cp.listed \/ ~s)
    BY DEF KillLands, KillAgent
  <1> DEFINE k == cp.killed \/ s
             l == cp.listed \/ ~s
  <1>2. /\ k \in BOOLEAN /\ l \in BOOLEAN /\ (k \/ l)
        /\ Transition(k, l, cp.epoch + 1) /\ cp.epoch + 1 \in 0..MaxEpoch
    BY <1>0, <1>1, Bounds DEF Killing
  <1> HIDE DEF k, l
  <1>3. /\ cp'.epoch = cp.epoch + 1 /\ disk' = State(k, l, cp.epoch + 1) /\ Stopped(cp')
    BY <1>2, TransitionShape
  <1>4. disk'.epoch = cp.epoch + 1 /\ Stopped(disk')
    BY <1>2, <1>3, StateShape DEF Stopped
  <1>5. attempt'.epoch = cp.epoch + 1 /\ UNCHANGED answer /\ cp.epoch \in Nat
    BY <1>0, <1>3, Bounds DEF KillLands, places
  <1>6. \A d \in Calls : ~answer'[d].degraded => answer'[d].epoch < cp.epoch + 1
    <2>1. \A d \in Calls : answer[d].epoch \in Nat
      BY StatusShape DEF AnswerType
    <2> QED BY <1>5, <2>1 DEF EpochsInOrder
  <1>7. ASSUME NEW e \in Nat, e = attempt'.epoch PROVE After(e)'
    <2>1. e = cp.epoch + 1 /\ e <= cp'.epoch /\ e <= disk'.epoch
      BY <1>3, <1>4, <1>5, <1>7
    <2>2. \A d \in Calls : ~answer'[d].degraded => answer'[d].epoch < e /\ answer'[d].epoch \in Nat
      <3>1. \A d \in Calls : answer[d].epoch \in Nat
        BY StatusShape DEF AnswerType
      <3> QED BY <1>5, <1>6, <2>1, <3>1
    <2>3. \A d \in Calls : ~answer'[d].degraded => ~(answer'[d].epoch >= e)
      BY <2>2
    <2> QED BY <1>3, <1>4, <2>1, <2>3 DEF After
  <1> QED BY <1>5, <1>7

LEMMA NoLess ==
    \A g, m, n \in Nat : n >= m => (g <= m => g <= n /\ g <= n + 1) /\ (g <= m + 1 => g <= n + 1)
                                 /\ (g <= m => g + 1 <= n + 1)
  OBVIOUS

\* The parts of RestoreInv.
TripsRestored == generations <= restores + 1 /\ (latch.phase = "armed" => generations <= restores)
LatchAfter == latch.phase = "confirmed" => After(latch.epochFloor)
AttemptAfter == attempt.st = "answered" /\ ~attempt.degraded => After(attempt.epoch)

LEMMA RestoreParts == RestoreInv <=> (~reset => EpochsInOrder /\ TripsRestored /\ LatchAfter /\ AttemptAfter)
  BY DEF RestoreInv, EpochsInOrder, TripsRestored, LatchAfter, AttemptAfter

LEMMA RestoreStep ==
    ASSUME PlaneType, AnswerType, PlaceType, MapType, TrackerType, ReporterType,
           LaneInv, DurableInv, RestoreInv, [Next]_vars
    PROVE  RestoreInv'
  <1> SUFFICES ASSUME ~reset'
               PROVE  EpochsInOrder' /\ TripsRestored' /\ LatchAfter' /\ AttemptAfter'
    BY DEF RestoreInv, EpochsInOrder, TripsRestored, LatchAfter, AttemptAfter
  <1>1. PlaneMoves /\ CallsMove /\ TrackerMoves
    BY PlaneStep, CallsStep, TrackerStep
  <1>2. ~reset
    <2>1. CASE RestartUntrusted
      BY <2>1 DEF RestartUntrusted
    <2>2. CASE ~RestartUntrusted
      BY <1>1, <2>2 DEF PlaneMoves, Kills, Restores, Restart
    <2> QED BY <2>1, <2>2
  <1>3. EpochsInOrder /\ TripsRestored /\ LatchAfter /\ AttemptAfter
    BY <1>2, RestoreParts
  <1>4. EpochsInOrder'
    BY <1>1, <1>3, EpochsKept
  <1>5. /\ restores \in Nat /\ restores' \in Nat /\ restores' >= restores
        /\ generations \in Nat /\ report \in Nat
    BY <1>1, PlaneShape DEF PlaneType, TrackerType, LaneInv
  <1>6. generations' = generations => \A e \in Nat : After(e) => After(e)'
    BY <1>1, <1>3, AfterKept DEF EpochsInOrder, TripsRestored
  <1>7. latch.epochFloor \in Nat /\ attempt.epoch \in Nat /\ \A c \in Calls : answer[c].epoch \in Nat
    BY StatusShape, BoundsAssumption DEF TrackerType, ReporterType, AnswerType
  <1>8. ASSUME generations' = generations, latch'.phase = "armed" => latch.phase = "armed"
        PROVE  TripsRestored'
    <2>1. generations' \in Nat
      BY <1>5, <1>8
    <2> QED BY <1>3, <1>5, <1>8, <2>1, NoLess DEF TripsRestored
  <1>9. ASSUME generations' = generations, NEW e \in Nat, After(e), latch'.epochFloor = e
        PROVE  LatchAfter'
    <2>1. After(e)'
      BY <1>6, <1>9
    <2> QED BY <1>9, <2>1 DEF LatchAfter
  <1>10. ASSUME generations' = generations, latch' = latch PROVE LatchAfter'
    <2>1. CASE latch.phase /= "confirmed"
      BY <1>10, <2>1 DEF LatchAfter
    <2>2. CASE latch.phase = "confirmed"
      <3>1. PICK e \in Nat : e = latch.epochFloor
        BY <1>7
      <3>2. After(e)
        BY <1>3, <2>2, <3>1 DEF LatchAfter
      <3> QED BY <1>9, <1>10, <3>1, <3>2
    <2> QED BY <2>1, <2>2
  <1>11. ASSUME generations' = generations, attempt' = attempt PROVE AttemptAfter'
    <2>1. CASE ~(attempt.st = "answered" /\ ~attempt.degraded)
      BY <1>11, <2>1 DEF AttemptAfter
    <2>2. CASE attempt.st = "answered" /\ ~attempt.degraded
      <3>1. PICK e \in Nat : e = attempt.epoch
        BY <1>7
      <3>2. After(e)
        BY <1>3, <2>2, <3>1 DEF AttemptAfter
      <3>3. After(e)' /\ attempt'.epoch = e
        BY <1>6, <1>11, <3>1, <3>2
      <3> QED BY <3>3 DEF AttemptAfter
    <2> QED BY <2>1, <2>2
  <1>12. ASSUME attempt'.st /= "answered" PROVE AttemptAfter'
    BY <1>12 DEF AttemptAfter
  <1>13. CASE UNCHANGED <<tracker, report, attempt>>
    BY <1>4, <1>8, <1>10, <1>11, <1>13 DEF tracker
  <1>14. ASSUME NEW c \in Calls, Heard(c) PROVE TripsRestored' /\ LatchAfter' /\ AttemptAfter'
    <2>1. generations' = generations /\ attempt' = attempt
      BY <1>14, HeardShape DEF reporter
    <2>2. AttemptAfter'
      BY <1>11, <2>1
    <2>3. CASE latch' = latch
      BY <1>8, <1>10, <2>1, <2>2, <2>3
    <2>4. CASE /\ latch.phase = "confirmed" /\ ~answer[c].degraded /\ ~answer[c].killed
               /\ Admissible(answer[c]) /\ ~answer[c].listed /\ latch' = Armed
      <3>1. After(latch.epochFloor) /\ ~Denied(answer[c]) /\ answer[c].epoch >= latch.epochFloor
        BY <1>3, <2>4 DEF Admissible, Denied, LatchAfter
      <3>2. generations <= restores
        BY <2>4, <3>1 DEF After
      <3>3. TripsRestored'
        BY <1>5, <2>1, <3>2, NoLess DEF TripsRestored
      <3>4. LatchAfter'
        BY <2>4 DEF LatchAfter, Armed
      <3> QED BY <2>2, <3>3, <3>4
    <2>5. CASE /\ latch.phase = "confirmed" /\ ~answer[c].degraded
               /\ Admissible(answer[c]) /\ answer[c].listed
               /\ latch' = [phase |-> "confirmed", epochFloor |-> answer[c].epoch]
      <3>1. PICK e \in Nat : e = answer[c].epoch
        BY <1>7
      <3>2. After(latch.epochFloor) /\ e >= latch.epochFloor
        BY <1>3, <2>5, <3>1 DEF Admissible, LatchAfter
      <3>3. e <= cp.epoch /\ (disk /= Missing => e <= disk.epoch)
        BY <1>3, <2>5, <3>1 DEF EpochsInOrder
      <3>4. \A d \in Calls : answer[d].epoch >= e => answer[d].epoch >= latch.epochFloor
        BY <1>7, <3>2
      <3>5. After(e)
        BY <3>2, <3>3, <3>4 DEF After
      <3>6. latch'.epochFloor = e /\ latch'.phase = "confirmed"
        BY <2>5, <3>1
      <3>7. LatchAfter' /\ TripsRestored'
        BY <1>8, <1>9, <2>1, <3>5, <3>6
      <3> QED BY <2>2, <3>7
    <2> QED BY <1>14, <2>3, <2>4, <2>5, HeardShape
  <1>15. ASSUME NEW c \in Calls, NEW metrics, NEW amount \in Nat \union {Unreadable},
                Counts(c, metrics, amount)
         PROVE  TripsRestored' /\ LatchAfter' /\ AttemptAfter'
    <2>1. attempt' = attempt
      BY <1>5, <1>15, CountsShape
    <2>2. CASE UNCHANGED <<latch, generations>>
      BY <1>8, <1>10, <1>11, <2>1, <2>2
    <2>3. CASE /\ latch.phase = "armed" /\ latch'.phase = "unconfirmed"
               /\ generations' = generations + 1
      <3>1. attempt'.st = "none"
        BY <2>1, <2>3, NoAttemptShape DEF LaneInv
      <3>2. TripsRestored'
        BY <1>3, <1>5, <2>3, NoLess DEF TripsRestored
      <3> QED BY <1>12, <2>3, <3>1, <3>2 DEF LatchAfter
    <2>4. UNCHANGED <<latch, generations>> \/ (/\ latch.phase = "armed" /\ latch'.phase = "unconfirmed"
                                               /\ generations' = generations + 1)
      <3>1. \/ UNCHANGED <<latch, generations>>
            \/ /\ latch.phase = "armed" /\ generations' = generations + 1
               /\ latch' = [phase |-> "unconfirmed", epochFloor |-> answer[c].epoch + 1]
        BY <1>5, <1>15, CountsShape
      <3> QED BY <3>1
    <2> QED BY <2>2, <2>3, <2>4
  <1>16. CASE SendKill \/ AttemptFails
    <2>1. UNCHANGED <<latch, generations>> /\ attempt'.st /= "answered"
      BY <1>16, NoAttemptShape DEF SendKill, AttemptFails, tracker
    <2> QED BY <1>4, <1>8, <1>10, <1>12, <2>1
  <1>17. CASE KillLands
    <2>1. UNCHANGED <<latch, generations>> /\ attempt'.degraded = cp'.degraded
      BY <1>17 DEF KillLands, tracker
    <2>2. AttemptAfter'
      <3>1. CASE attempt'.degraded
        BY <3>1 DEF AttemptAfter
      <3>2. CASE ~attempt'.degraded
        <4>1. attempt'.epoch \in Nat /\ \A e \in Nat : e = attempt'.epoch => After(e)'
          BY <1>3, <1>17, <2>1, <3>2, LandedAfter
        <4>2. PICK e \in Nat : e = attempt'.epoch
          BY <4>1
        <4>3. After(e)'
          BY <4>1, <4>2
        <4> QED BY <4>2, <4>3 DEF AttemptAfter
      <3> QED BY <3>1, <3>2
    <2> QED BY <1>4, <1>8, <1>10, <2>1, <2>2
  <1>18. CASE KillAnswered
    <2>1. generations' = generations /\ attempt'.st /= "answered"
      BY <1>18, KillAnsweredShape, NoAttemptShape
    <2>2. AttemptAfter'
      BY <1>12, <2>1
    <2>3. CASE latch' = latch
      BY <1>4, <1>8, <1>10, <2>1, <2>2, <2>3
    <2>4. CASE ~attempt.degraded /\ latch' = [phase |-> "confirmed", epochFloor |-> attempt.epoch]
      <3>1. PICK e \in Nat : e = attempt.epoch
        BY <1>7
      <3>2. After(e)
        BY <1>3, <1>18, <2>4, <3>1, KillAnsweredShape DEF AttemptAfter
      <3>3. latch'.epochFloor = e /\ latch'.phase = "confirmed"
        BY <2>4, <3>1
      <3>4. LatchAfter' /\ TripsRestored'
        BY <1>8, <1>9, <2>1, <3>2, <3>3
      <3> QED BY <1>4, <2>2, <3>4
    <2> QED BY <1>18, <2>3, <2>4, KillAnsweredShape
  <1>19. \A amount \in Amounts : amount \in Nat \union {Unreadable}
    BY AmountAssumption
  <1>20. 0 \in Nat \union {Unreadable}
    OBVIOUS
  <1> QED BY <1>1, <1>4, <1>13, <1>14, <1>15, <1>16, <1>17, <1>18, <1>19, <1>20 DEF TrackerMoves

-----------------------------------------------------------------------------
(* The stopped agent, and the yes that a kill ends.                        *)

LEMMA UnderInvStep ==
    ASSUME PlaneType, AnswerType, PlaceType, UnderInv, CallsMove, UnderMoves
    PROVE  UnderInv'
  <1> SUFFICES ASSUME NEW d \in Calls, d \in under'
               PROVE  /\ Stopped(cp')
                      /\ pc'[d] \in {"idle", "status"} \/ (pc'[d] = "answered" /\ Denied(answer'[d]))
    <2>1. under' \subseteq Calls
      BY DEF UnderMoves, PlaneType
    <2> QED BY <2>1 DEF UnderInv, Stopped, Denied
  <1>1. Goes(d)
    BY DEF CallsMove
  <1>2. CASE d \in under
    <2>1. /\ Stopped(cp)
          /\ pc[d] \in {"idle", "status"} \/ (pc[d] = "answered" /\ Denied(answer[d]))
      BY <1>2 DEF UnderInv
    <2>2. Stopped(cp')
      BY <2>1 DEF UnderMoves, Stopped
    <2>3. pc'[d] \in {"idle", "status"} \/ (pc'[d] = "answered" /\ Denied(answer'[d]))
      <3>1. CASE Stays(d) \/ IsOver(d) \/ Asks(d)
        BY <2>1, <3>1 DEF Stays, IsOver, Asks
      <3>2. CASE Hears(d)
        <4>1. pc'[d] = "answered" /\ answer'[d] \in {StatusAnswer, FailClosed}
          BY <3>2 DEF Hears
        <4>2. Denied(StatusAnswer) /\ Denied(FailClosed)
          BY <2>1, AnswerShape
        <4> QED BY <4>1, <4>2
      <3>3. CASE IsLet(d) \/ Rechecks(d) \/ Runs(d) \/ Walks(d)
        BY <2>1, <3>3 DEF IsLet, Rechecks, Runs, Walks, Underway
      <3> QED BY <1>1, <3>1, <3>2, <3>3 DEF Goes
    <2> QED BY <2>2, <2>3
  <1>3. CASE d \notin under
    <2>1. Stopped(cp) /\ UNCHANGED cp /\ pc'[d] = "status"
      BY <1>3 DEF UnderMoves
    <2> QED BY <2>1 DEF Stopped
  <1> QED BY <1>2, <1>3

\* Where no save fails, epochs only grow.
LEMMA EpochsGrow ==
    ASSUME PlaneType, DurableInv, PlaneMoves, faults' = 0,
           faults = 0 => ~cp.degraded /\ (cp.killed => cp.epoch >= 1)
    PROVE  /\ faults = 0 /\ ~cp'.degraded /\ (cp'.killed => cp'.epoch >= 1)
           /\ cp'.epoch \in Nat /\ cp.epoch \in Nat /\ cp.epoch <= cp'.epoch
           /\ Kills => cp.epoch < cp'.epoch
  <1>0. cp.epoch \in 0..MaxEpoch /\ cp.epoch \in Nat /\ cp'.epoch \in Nat /\ faults \in Nat
    BY PlaneShape, StatusShape, BoundsAssumption DEF PlaneType
  <1>1. CASE Kills
    <2>1. PICK k \in BOOLEAN, l \in BOOLEAN :
            Transition(k, l, cp.epoch + 1) /\ cp.epoch < MaxEpoch
      BY <1>1 DEF Kills, Killing
    <2>2. cp.epoch + 1 \in 0..MaxEpoch
      BY <1>0, <2>1, Bounds
    <2>3. /\ cp'.epoch = cp.epoch + 1 /\ (~cp'.degraded => faults' = faults)
          /\ (cp'.degraded => faults' = faults + 1)
      BY <2>1, <2>2, TransitionShape
    <2> QED BY <1>0, <2>3
  <1>2. CASE Restores
    <2>1. PICK k \in BOOLEAN, l \in BOOLEAN : Transition(k, l, cp.epoch) /\ (k => cp.killed)
      BY <1>2 DEF Restores
    <2>2. /\ cp'.epoch = cp.epoch /\ cp'.killed = k /\ (~cp'.degraded => faults' = faults)
          /\ (cp'.degraded => faults' = faults + 1)
      BY <1>0, <2>1, TransitionShape
    <2>3. ~Kills
      BY <1>0, <2>2, <1>1 DEF Kills, Killing
    <2> QED BY <1>0, <2>1, <2>2, <2>3
  <1>3. CASE ~Kills /\ ~Restores
    <2>00. /\ RestartUntrusted => faults' = faults + 1 \/ (disk = Missing /\ faults' = faults)
           /\ ~RestartUntrusted => faults' = faults
      <3>1. RestartUntrusted => faults' = faults + 1 \/ (disk = Missing /\ faults' = faults)
        BY DEF RestartUntrusted
      <3>2. Restart => faults' = faults
        BY DEF Restart
      <3> QED BY <1>3, <3>1, <3>2 DEF PlaneMoves
    <2>0. faults = 0 /\ ~cp.degraded /\ (cp.killed => cp.epoch >= 1)
      BY <1>0, <2>00
    <2>1. disk = InMemory
      BY <2>0 DEF DurableInv
    <2>2. disk.killed = cp.killed /\ disk.epoch = cp.epoch
      BY <2>1, StateShape DEF InMemory
    <2>3. disk /= Missing
      BY <1>0, <2>0, <2>2, MissingShape
    <2>4. ~RestartUntrusted
      BY <1>0, <2>0, <2>00, <2>3
    <2>5. (cp'.epoch = cp.epoch /\ cp'.killed = cp.killed /\ cp'.degraded = FALSE) \/ UNCHANGED cp
      BY <1>3, <2>2, <2>4 DEF PlaneMoves, Restart
    <2> QED BY <1>0, <1>3, <2>0, <2>5
  <1> QED BY <1>1, <1>2, <1>3

LEMMA OvertakenStep ==
    ASSUME PlaneType, AnswerType, PlaceType, DurableInv, OvertakenInv, CallsMove, PlaneMoves
    PROVE  OvertakenInv'
  <1> DEFINE onItsWay(d) == pc[d] \notin {"idle", "status", "rechecked", "run", "report"}
  <1> SUFFICES ASSUME faults' = 0
               PROVE  /\ ~cp'.degraded /\ (cp'.killed => cp'.epoch >= 1)
                      /\ \A c \in Calls : answer'[c].epoch <= cp'.epoch
                      /\ \A c \in overtaken' :
                            /\ pc'[c] \notin {"idle", "status", "run"}
                            /\ answer'[c].epoch < cp'.epoch
                            /\ pc'[c] = "rechecked" => ~TicketHolds(c)'
    BY DEF OvertakenInv
  <1>1. /\ faults = 0 /\ ~cp'.degraded /\ (cp'.killed => cp'.epoch >= 1)
        /\ cp'.epoch \in Nat /\ cp.epoch \in Nat /\ cp.epoch <= cp'.epoch
        /\ Kills => cp.epoch < cp'.epoch
    BY EpochsGrow DEF OvertakenInv
  <1>2. /\ \A c \in Calls : answer[c].epoch <= cp.epoch /\ answer[c].epoch \in Nat
        /\ \A c \in overtaken : /\ pc[c] \notin {"idle", "status", "run"}
                                /\ answer[c].epoch < cp.epoch
                                /\ pc[c] = "rechecked" => ~TicketHolds(c)
    BY <1>1, StatusShape DEF OvertakenInv, AnswerType
  <1>3. ASSUME NEW d \in Calls PROVE answer'[d].epoch <= cp'.epoch
    <2>1. CASE answer'[d] = answer[d]
      BY <1>1, <1>2, <2>1
    <2>2. CASE answer'[d] = FailClosed
      BY <1>1, <2>2, AnswerShape
    <2>3. CASE answer'[d] = StatusAnswer /\ UNCHANGED controlPlane
      BY <1>1, <2>3, AnswerShape
    <2> QED BY <2>1, <2>2, <2>3, AnswerKept
  <1>4. ASSUME NEW d \in overtaken'
        PROVE  /\ pc'[d] \notin {"idle", "status", "run"}
               /\ answer'[d].epoch < cp'.epoch
               /\ pc'[d] = "rechecked" => ~TicketHolds(d)'
    <2>0. d \in Routed /\ d \in Calls /\ Goes(d)
      BY <1>4, RoutedAssumption DEF CallsMove, PlaceType
    <2>1. CASE d \in overtaken
      <3>1. /\ pc[d] \notin {"idle", "status", "run"} /\ answer[d].epoch < cp.epoch
            /\ pc[d] = "rechecked" => ~TicketHolds(d)
        BY <1>2, <2>1
      <3>2. answer[d].epoch < cp'.epoch /\ answer[d].epoch \in Nat
        BY <1>1, <1>2, <2>0, <3>1
      <3>3. CASE Stays(d)
        BY <3>1, <3>2, <3>3 DEF Stays, TicketHolds, Denied
      <3>4. CASE IsOver(d) \/ Asks(d) \/ Hears(d)
        BY <1>4, <3>1, <3>4 DEF IsOver, Asks, Hears
      <3>5. CASE IsLet(d) \/ Walks(d)
        BY <3>1, <3>2, <3>5 DEF IsLet, Walks, Underway
      <3>6. CASE Rechecks(d)
        <4>1. /\ pc'[d] = "rechecked" /\ answer'[d] = answer[d]
              /\ live'[d] \in {StatusAnswer, FailClosed}
          BY <3>6 DEF Rechecks
        <4>2. answer'[d].epoch /= StatusAnswer.epoch /\ Denied(FailClosed)
          BY <1>1, <1>2, <2>0, <3>1, <4>1, AnswerShape
        <4>3. ~TicketHolds(d)'
          BY <4>1, <4>2 DEF TicketHolds, Denied
        <4> QED BY <3>2, <4>1, <4>3
      <3>7. CASE Runs(d)
        BY <2>0, <3>1, <3>7 DEF Runs
      <3> QED BY <2>0, <3>3, <3>4, <3>5, <3>6, <3>7 DEF Goes
    <2>2. CASE d \notin overtaken
      <3>1. Kills /\ onItsWay(d)
        BY <1>4, <2>2 DEF CallsMove
      <3>2. pc'[d] = pc[d] /\ answer'[d] = answer[d]
        BY <3>1 DEF Kills, places
      <3> QED BY <1>1, <1>2, <2>0, <3>1, <3>2
    <2> QED BY <2>1, <2>2
  <1> QED BY <1>1, <1>3, <1>4

-----------------------------------------------------------------------------
(* The invariant holds, and what follows from it.                          *)

LEMMA GInvInit == Init => GInv
  <1> SUFFICES ASSUME Init PROVE GInv
    OBVIOUS
  <1>1. /\ cp = [killed |-> FALSE, listed |-> FALSE, epoch |-> 0, degraded |-> FALSE]
        /\ disk = State(FALSE, FALSE, 0) /\ review = NoReviews
        /\ faults = 0 /\ reset = FALSE /\ restores = 0 /\ under = {}
    BY DEF Init
  <1>2. cp \in Status /\ disk \in KillState /\ cp.degraded = FALSE /\ cp.killed = FALSE /\ cp.epoch = 0
    BY <1>1, Bounds, StateShape DEF Status
  <1>3. review \in [Windows -> [st : {"missing", "open", "released", "refused"}, epoch : 0..MaxEpoch]]
    BY <1>1, Bounds DEF NoReviews
  <1>4. PlaneType
    <2>1. 0 \in 0..MaxFaults
      BY BoundsAssumption
    <2> QED BY <1>1, <1>2, <1>3, <2>1 DEF PlaneType
  <1>5. /\ pc = [c \in Calls |-> "idle"] /\ answer = [c \in Calls |-> FailClosed]
        /\ waits = [c \in Calls |-> None] /\ poll = [c \in Calls |-> "missing"]
        /\ live = [c \in Calls |-> FailClosed] /\ overtaken = {}
        /\ windows = None /\ registered = {} /\ runs = [w \in Windows |-> 0]
    BY DEF Init
  <1>6. AnswerType
    BY <1>5, AnswerShape DEF AnswerType
  <1>7. PlaceType
    BY <1>5 DEF PlaceType, Places
  <1>8. MapType /\ UnusedInv
    BY <1>5 DEF MapType, UnusedInv
  <1>9. /\ latch = Armed /\ generations = 0 /\ total = NothingCounted /\ spent = NothingCounted
        /\ report = 0 /\ attempt = NoAttempt /\ late = FALSE /\ tripwire = FALSE
    BY DEF Init
  <1>10. TrackerType
    <2>1. 0 \in 0..(MaxEpoch + 1)
      BY Bounds
    <2> QED BY <1>9, <2>1 DEF TrackerType, Armed, NothingCounted
  <1>11. ReporterType
    BY <1>9, NoAttemptShape DEF ReporterType
  <1>12. LaneInv
    BY <1>9 DEF LaneInv
  <1>13. BudgetInv
    BY <1>9, RulesAssumption DEF BudgetInv, NoOverspend, NothingCounted
  <1>14. DurableInv
    BY <1>1, <1>2 DEF DurableInv, InMemory
  <1>15. RestoreInv
    <2>0. disk.epoch = 0
      BY <1>1 DEF State
    <2>1. \A c \in Calls : answer[c].degraded
      BY <1>5 DEF FailClosed
    <2>2. latch.phase = "armed" /\ attempt.st = "none"
      BY <1>9, NoAttemptShape DEF Armed
    <2>3. generations = 0 /\ restores = 0 /\ disk.epoch = 0 /\ cp.epoch = 0
      BY <1>1, <1>2, <1>9, <2>0
    <2>4. generations <= restores + 1 /\ generations <= restores /\ disk.epoch <= cp.epoch
      BY <2>3
    <2> QED BY <2>1, <2>2, <2>4 DEF RestoreInv
  <1>16. UnderInv
    BY <1>1 DEF UnderInv
  <1>17. OvertakenInv
    BY <1>2, <1>5, AnswerShape DEF OvertakenInv
  <1> QED BY <1>4, <1>6, <1>7, <1>8, <1>10, <1>11, <1>12, <1>13, <1>14, <1>15, <1>16, <1>17 DEF GInv

LEMMA GInvStep == GInv /\ [Next]_vars => GInv'
  <1> SUFFICES ASSUME GInv, [Next]_vars PROVE GInv'
    OBVIOUS
  <1>0. /\ PlaneType /\ AnswerType /\ PlaceType /\ MapType /\ TrackerType /\ ReporterType
        /\ LaneInv /\ BudgetInv /\ DurableInv /\ RestoreInv /\ UnderInv /\ OvertakenInv /\ UnusedInv
    BY DEF GInv
  <1>1. PlaneMoves /\ CallsMove /\ TrackerMoves /\ UnderMoves
    BY <1>0, PlaneStep, CallsStep, TrackerStep, UnderStep
  <1>2. PlaneType' /\ AnswerType' /\ PlaceType' /\ MapType'
    BY <1>0, <1>1, PlaneTypeStep, MapTypeStep DEF CallsMove
  <1>3. TrackerType' /\ ReporterType'
    BY <1>0, <1>1, TrackerTypeStep, ReporterTypeStep
  <1>4. LaneInv' /\ BudgetInv' /\ DurableInv'
    BY <1>0, <1>1, LaneStep, BudgetStep, DurableStep
  <1>5. RestoreInv' /\ UnderInv'
    BY <1>0, <1>1, RestoreStep, UnderInvStep
  <1>6. OvertakenInv' /\ UnusedInv'
    BY <1>0, <1>1, OvertakenStep, UnusedStep
  <1> QED BY <1>2, <1>3, <1>4, <1>5, <1>6 DEF GInv

LEMMA GInvHolds == Spec => []GInv
  BY GInvInit, GInvStep, PTL DEF Spec

\* The shape of the state, and a window that let a call run is not polled for a
\* new one: each release is used by the calls that had asked before (proxy.ts,
\* vetoLane).
THEOREM ReleasesUsedOnce == Spec => [](TypeOK /\ TrackedIsUnused)
  <1>1. GInv => TypeOK
    BY DEF GInv, PlaneType, AnswerType, PlaceType, MapType, TrackerType, ReporterType, LaneInv, TypeOK
  <1>2. GInv => TrackedIsUnused
    BY DEF GInv, MapType, UnusedInv, TrackedIsUnused
  <1> QED BY <1>1, <1>2, GInvHolds, PTL

\* Where no save of the kill state has failed, a routed call that runs was
\* decided on a kill state with no kill between it and the last one its ticket
\* was held against, whoever restored in the meantime (executor.ts, run).
THEOREM NoYesSurvivesKill == Spec => [](faults = 0 => YesEndsWithKill)
  <1>1. GInv => (faults = 0 => YesEndsWithKill)
    BY DEF GInv, OvertakenInv, YesEndsWithKill
  <1> QED BY <1>1, GInvHolds, PTL

\* All of the gateway's invariant, in the runs with no failed save.
THEOREM GatewaySound == Spec => [](faults = 0 => Inv)
  <1>1. (TypeOK /\ TrackedIsUnused) /\ (faults = 0 => YesEndsWithKill) => (faults = 0 => Inv)
    BY DEF Inv
  <1> QED BY <1>1, ReleasesUsedOnce, NoYesSurvivesKill, PTL

\* A budget that tripped is armed again only after a restore of its own, with
\* crashes, failed saves, and late and lost answers, until a boot from
\* untrusted state starts the epochs over (limits.ts, observeKillState).
THEOREM OwnerRearms == Spec => []OneRestorePerTrip
  <1>1. GInv => OneRestorePerTrip
    BY DEF GInv, RestoreInv, OneRestorePerTrip
  <1> QED BY <1>1, GInvHolds, PTL

\* However many calls overtake one another, what runs between two restores is
\* within every maximum on calls and amounts (proxy.ts, observeCallLimits).
THEOREM BudgetsHold == Spec => []NoOverspend
  <1>1. GInv => NoOverspend
    BY DEF GInv, BudgetInv
  <1> QED BY <1>1, GInvHolds, PTL

\* A call made under a stop does not run while that stop lasts, whatever its
\* handler is told and whichever way it goes (proxy.ts, the handler).
THEOREM NothingRunsStopped == Spec => StoppedAgentRunsNothing
  <1> DEFINE A == \A c \in Calls : pc[c] /= "run" /\ pc'[c] = "run" => c \notin under
  <1>1. GInv /\ [Next]_vars => [A]_vars
    <2> SUFFICES ASSUME GInv, [Next]_vars, NEW c \in Calls, pc[c] /= "run", pc'[c] = "run"
                 PROVE  c \notin under
      OBVIOUS
    <2>1. Goes(c)
      BY CallsStep DEF GInv, CallsMove
    <2>2. pc[c] \in {"forward", "polled", "rechecked"}
      BY <2>1 DEF Goes, Stays, IsOver, Asks, Hears, IsLet, Rechecks, Runs, Walks
    <2> QED BY <2>2 DEF GInv, UnderInv
  <1> HIDE DEF A
  <1>2. Spec => [][A]_vars
    BY <1>1, GInvHolds, PTL DEF Spec
  <1> QED BY <1>2 DEF StoppedAgentRunsNothing, A
=============================================================================
