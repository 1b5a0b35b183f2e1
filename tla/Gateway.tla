------------------------------ MODULE Gateway ------------------------------
(***************************************************************************)
(* The gateway: the proxy that decides every tool call of one agent        *)
(* (packages/mcp/src/proxy.ts), the executor that performs a routed call   *)
(* on a ticket (packages/executor/src/executor.ts), the limit tracker with *)
(* its latch (packages/gateway/src/limits.ts) and the reporter that        *)
(* delivers the scoped kill of a tripped limit (honeytoken/src/report.ts). *)
(*                                                                         *)
(* Calls run concurrently: a handler runs without interruption up to its   *)
(* next await, so there is one action for each stretch between two awaits  *)
(* (`pc'), and requests and answers stay on the wire for as long as they   *)
(* like.  The control plane is the state these requests read and write:    *)
(* its kill state, the state file a restarted process boots from, and the  *)
(* owner-review windows (KillSwitch and VetoLane have the details).  It    *)
(* may crash and start again while the gateway runs on.                    *)
(*                                                                         *)
(* Abstracted: all calls of the veto lane are the same tool with the same  *)
(* arguments, so they share one entry of the map of windows; what runs     *)
(* behind the executor or upstream is one step (MergeLane has the broker   *)
(* and its grants); limit rules are kill-action rules without a window,    *)
(* since alert rules change nothing here; request timeouts are answers     *)
(* that never arrive.                                                      *)
(***************************************************************************)
EXTENDS Naturals, FiniteSets

CONSTANTS
    Calls,        \* the calls the agent may have in flight, each made again and again
    Verdicts,     \* for each call, what the policy may say about it
    Decoys,       \* the calls that may, each time they are made, hold a honeytoken
    Routed,       \* the calls of a tool that the executor performs (executorRoutes)
    Amounts,      \* what a rule on amounts may read in a call
    Unreadable,   \* an amount that is not a non-negative safe integer
    Rules,        \* the limit rules
    Metric,       \* for each rule "calls", "amount" or "errors"
    Max,          \* for each rule the largest total it allows
    Windows,      \* ids of owner-review windows (their number is a model bound)
    None,         \* no window
    MaxEpoch,     \* bound on the kill epoch (model bound)
    MaxFaults     \* bound on failed saves and untrusted boots (model bound)

ASSUME VerdictsAssumption ==
    Verdicts \in [Calls -> SUBSET {"allow", "deny", "approve", "veto"}]
ASSUME RoutedAssumption == Routed \subseteq Calls
ASSUME RulesAssumption ==
    Metric \in [Rules -> {"calls", "amount", "errors"}] /\ Max \in [Rules -> Nat]
ASSUME AmountAssumption == Amounts \subseteq Nat \union {Unreadable}
ASSUME NoneAssumption == None \notin Windows
ASSUME BoundsAssumption == MaxEpoch \in Nat \ {0} /\ MaxFaults \in Nat

VARIABLES
    cp,           \* the control plane: killed, agent listed, epoch, degraded
    disk,         \* the kill state a restarted control plane reads
    review,       \* the windows of the control plane
    pc,           \* for each call, the await its handler is at
    answer,       \* for each call, the kill state it was given
    waits,        \* for each call, the window it waits for
    poll,         \* for each call, the status of that window it was given
    live,         \* for each call, the kill state its ticket is held against
    windows,      \* the gateway's map of windows, for the one call identity
    registered,   \* the registrations that have been answered
    latch,        \* the tracker's latch: phase and epochFloor
    generations,  \* latchGenerations
    total,        \* for each rule its lifetimeTotal
    report,       \* generation of the trip in the kill lane, 0 when it is empty
    attempt,      \* the POST /kill under way
    late,         \* a POST /kill that was given up may still arrive
    tripwire,     \* a honeytoken kill waits for delivery
    faults,       \* history: failed saves and boots from untrusted state
    reset,        \* history: there was such a boot
    restores,     \* history: how often the owner let the agent go
    spent,        \* history: for each rule what has run since it was last armed
    under,        \* history: the calls made under a stop that still lasts
    overtaken,    \* history: the routed calls with a kill between the state they
                  \* were decided on and the last one their ticket is held against
    runs          \* history: for each window how many calls it let run

controlPlane == <<cp, disk, review, faults, reset, restores>>
places == <<pc, answer, waits, poll, live>>
calls == <<places, overtaken>>
map == <<windows, registered>>
tracker == <<latch, generations, total, spent>>
reporter == <<report, attempt, late, tripwire>>
vars == <<controlPlane, calls, map, tracker, reporter, under, runs>>

-----------------------------------------------------------------------------
(* The kill state of the control plane.                                    *)

State(k, l, e) == [killed |-> k, listed |-> l, epoch |-> e]
Missing == State(TRUE, FALSE, 0)      \* no state file beside its marker

InMemory == State(cp.killed, cp.listed, cp.epoch)
Stopped(c) == c.killed \/ c.listed

\* A transition and its persist(): saved; visible, but perhaps not durable;
\* quarantined; or neither saved nor quarantined.
Transition(k, l, e) ==
    /\ \/ /\ cp' = [killed |-> k, listed |-> l, epoch |-> e, degraded |-> FALSE]
          /\ disk' = State(k, l, e)
          /\ UNCHANGED faults
       \/ /\ faults < MaxFaults /\ faults' = faults + 1
          /\ cp' = [killed |-> k, listed |-> l, epoch |-> e, degraded |-> TRUE]
          /\ disk' \in {State(k, l, e), Missing, disk}
    /\ restores' = IF Stopped(cp) /\ ~Stopped(cp') THEN restores + 1 ELSE restores
    /\ under' = IF Stopped(cp') THEN under ELSE {}

\* engage() and engageAgent(), the latter at the capacity of its map too.
Killing(k, l) ==
    /\ cp.epoch < MaxEpoch /\ Transition(k, l, cp.epoch + 1)
    /\ overtaken' = overtaken \union
                     {c \in Routed : pc[c] \notin {"idle", "status", "rechecked", "run", "report"}}
KillAgent == \E escalates \in BOOLEAN :
    /\ escalates => ~cp.listed
    /\ Killing(cp.killed \/ escalates, cp.listed \/ ~escalates)

\* Kills by others: of everything, of this agent, of another agent.
PostKill ==
    /\ \/ Killing(TRUE, cp.listed)
       \/ KillAgent
       \/ Killing(cp.killed, cp.listed)
    /\ UNCHANGED <<review, reset, places, map, tracker, reporter, runs>>

\* postRestore answers 503 while stale state may survive a restart.
RestoreDenied == cp.degraded /\ disk \notin {Missing, InMemory}

PostRestore ==
    /\ ~RestoreDenied
    /\ \/ cp.killed /\ Transition(FALSE, cp.listed, cp.epoch)
       \/ cp.listed /\ Transition(cp.killed, FALSE, cp.epoch)
    /\ UNCHANGED <<review, reset, calls, map, tracker, reporter, runs>>

NoReviews == [w \in Windows |-> [st |-> "missing", epoch |-> 0]]

\* The control plane dies and starts again; windows live in memory only.
Restart ==
    /\ disk /= Missing
    /\ cp' = [killed |-> disk.killed, listed |-> disk.listed, epoch |-> disk.epoch,
              degraded |-> FALSE]
    /\ review' = NoReviews
    /\ under' = IF Stopped(cp') THEN under ELSE {}
    /\ UNCHANGED <<disk, faults, reset, restores, calls, map, tracker, reporter, runs>>

\* ... or finds no state it can trust: the quarantine of persist(), or damage.
\* It engages, and that is saved.
RestartUntrusted ==
    /\ \/ disk = Missing /\ UNCHANGED faults
       \/ faults < MaxFaults /\ faults' = faults + 1
    /\ reset' = TRUE
    /\ cp' = [killed |-> TRUE, listed |-> FALSE, epoch |-> 1, degraded |-> FALSE]
    /\ disk' = State(TRUE, FALSE, 1)
    /\ UNCHANGED <<restores, under>>
    /\ review' = NoReviews
    /\ UNCHANGED <<calls, map, tracker, reporter, runs>>

-----------------------------------------------------------------------------
(* Owner review: silence, a veto, or nobody was shown the window in time.  *)

ReviewEnds(w) ==
    /\ review[w].st = "open"
    /\ \/ ~cp.killed /\ review' = [review EXCEPT ![w].st = "released"]
       \/ review' = [review EXCEPT ![w].st = "refused"]
    /\ UNCHANGED <<cp, disk, faults, reset, restores, calls, map, tracker, reporter, under, runs>>

\* getVeto: what the window is worth now.
WireStatus(w) ==
    IF review[w].st = "released" /\ review[w].epoch /= cp.epoch
    THEN "spent" ELSE review[w].st

-----------------------------------------------------------------------------
(* LimitTracker.                                                           *)

Armed == [phase |-> "armed", epochFloor |-> 0]
NothingCounted == [r \in Rules |-> 0]

\* Mutant: any answer that does not list the agent is taken for the restore.
AdmissibleAlways(a) == a.epoch >= 0

\* The answer describes a world that is not older than the confirmed kill.
Admissible(a) == a.epoch >= latch.epochFloor

\* observeKillState(): releases a confirmed latch, or raises its floor.
ObserveKillState(a) ==
    LET heard == ~a.degraded /\ latch.phase = "confirmed" /\ Admissible(a)
    IN  /\ latch' = CASE heard /\ ~a.listed -> Armed
                      [] heard /\ a.listed -> [latch EXCEPT !.epochFloor = a.epoch]
                      [] OTHER -> latch
        /\ total' = IF heard /\ ~a.listed THEN NothingCounted ELSE total
        /\ spent' = IF heard /\ ~a.listed THEN NothingCounted ELSE spent
        /\ UNCHANGED generations

\* confirmKillDelivered(): the answer to the kill of this generation.
ConfirmKillDelivered(epoch, generation) ==
    /\ latch' = IF /\ latch.phase = "unconfirmed"
                   /\ generation = generations
                   /\ epoch >= latch.epochFloor
                THEN [phase |-> "confirmed", epochFloor |-> epoch]
                ELSE latch
    /\ UNCHANGED <<generations, total, spent>>

\* What a call with this amount adds to the total of rule r.
Value(amount, r) == IF Metric[r] = "amount" THEN amount ELSE 1

\* The observation takes the rule over its maximum, or cannot be counted.
Trips(amount, r) ==
    \/ Value(amount, r) = Unreadable
    \/ total[r] <= Max[r] /\ total[r] + Value(amount, r) > Max[r]

Counted(count, amount, rules) ==
    [r \in Rules |-> IF r \in rules /\ Value(amount, r) /= Unreadable
                     THEN count[r] + Value(amount, r) ELSE count[r]]

\* observe(): count, and latch on the first trip while armed.  `latched' says
\* whether this observation did.
Observe(c, metrics, amount, tripped, latched) ==
    LET rules == {r \in Rules : Metric[r] \in metrics}
    IN  /\ tripped = (\E r \in rules : Trips(amount, r))
        /\ latched = (tripped /\ latch.phase = "armed")
        /\ total' = Counted(total, amount, rules)
        /\ spent' = IF tripped THEN spent ELSE Counted(spent, amount, rules)
        /\ latch' = IF latched
                    THEN [phase |-> "unconfirmed", epochFloor |-> answer[c].epoch + 1]
                    ELSE latch
        /\ generations' = IF latched THEN generations + 1 ELSE generations

-----------------------------------------------------------------------------
(* The handler of a tool call.                                             *)

NoAttempt == [st |-> "none", epoch |-> 0, degraded |-> FALSE]
FailClosed == [killed |-> TRUE, listed |-> FALSE, epoch |-> 0, degraded |-> TRUE]

\* The handlers of the calls in S are over, what they held is forgotten; the
\* others are where `next' puts them.
ReturnAll(S, next) ==
    /\ pc' = [c \in Calls |-> IF c \in S THEN "idle" ELSE next[c]]
    /\ answer' = [c \in Calls |-> IF c \in S THEN FailClosed ELSE answer[c]]
    /\ waits' = [c \in Calls |-> IF c \in S THEN None ELSE waits[c]]
    /\ poll' = [c \in Calls |-> IF c \in S THEN "missing" ELSE poll[c]]
    /\ live' = [c \in Calls |-> IF c \in S THEN FailClosed ELSE live[c]]
    /\ overtaken' = overtaken \ S

Return(c) == ReturnAll({c}, pc)

Goto(c, where) ==
    /\ pc' = [pc EXCEPT ![c] = where]
    /\ UNCHANGED <<answer, waits, poll, live, overtaken>>

\* The agent calls a tool: fetchKillState() is sent.
CallTool(c) ==
    /\ pc[c] = "idle"
    /\ Goto(c, "status")
    /\ under' = IF Stopped(cp) THEN under \union {c} ELSE under \ {c}
    /\ UNCHANGED <<controlPlane, map, tracker, reporter, runs>>

\* getStatus(): whether all are stopped, whether this agent is listed, the epoch
\* whatever the answer, and whether it may not last.
StatusAnswer ==
    [killed |-> cp.killed, listed |-> cp.listed, epoch |-> cp.epoch, degraded |-> cp.degraded]

\* GET /status is answered, or fails and reads as killed.
GetStatus(c) ==
    /\ pc[c] = "status"
    /\ pc' = [pc EXCEPT ![c] = "answered"]
    /\ answer' \in {[answer EXCEPT ![c] = StatusAnswer], [answer EXCEPT ![c] = FailClosed]}
    /\ UNCHANGED <<controlPlane, waits, poll, live, overtaken, map, tracker, reporter,
                   under, runs>>

\* Mutant: a stopped agent's call goes by the policy.
DeniedByPolicyOnly(a) == FALSE

\* evaluate(): the kill switch and the scoped kill come before the policy.
Denied(a) == a.killed \/ a.listed

\* The decision: kill state, latch, policy.
Decide(c) ==
    /\ pc[c] = "answered"
    /\ \/ answer[c].killed /\ UNCHANGED tracker
       \/ ~answer[c].killed /\ ObserveKillState(answer[c])
    /\ \/ /\ Denied(answer[c]) \/ latch'.phase /= "armed"
          /\ Return(c)
       \/ /\ ~Denied(answer[c]) /\ latch'.phase = "armed"
          /\ \/ Verdicts[c] \intersect {"deny", "approve"} /= {} /\ Return(c)
             \/ "allow" \in Verdicts[c] /\ Goto(c, "forward")
             \/ "veto" \in Verdicts[c] /\ Goto(c, "review")
    /\ UNCHANGED <<controlPlane, map, reporter, under, runs>>

\* pinIfRoutedMerge() refuses: a decoy would reach GitHub, bad arguments, no
\* connector, or a failed read of the head.
PinRefused(c) ==
    /\ c \in Routed /\ pc[c] \in {"forward", "review"}
    /\ Return(c)
    /\ tripwire' \in {tripwire, tripwire \/ c \in Decoys}
    /\ UNCHANGED <<controlPlane, map, tracker, report, attempt, late, under, runs>>

\* Mutant: forwardOrKill() trusts the handler's earlier look at the latch.
AdmittedBefore == TRUE

\* observeCallLimits() looks at the latch again, in the turn that counts.
Admitted == latch.phase = "armed"

\* The call goes upstream, or to the executor; runRouted() refuses one without
\* the grant its deployment asks for, or whose arguments form no ticket.
Dispatched(c) ==
    \/ /\ pc' = [pc EXCEPT ![c] = IF c \in Routed THEN "ticket" ELSE "run"]
       /\ waits' = [waits EXCEPT ![c] = None] /\ poll' = [poll EXCEPT ![c] = "missing"]
       /\ UNCHANGED <<answer, live, overtaken>>
    \/ c \in Routed /\ Return(c)

\* forwardOrKill(), up to its next await.
ForwardOrKill(c) ==
    \/ /\ c \in Decoys
       /\ tripwire' = TRUE
       /\ Return(c)
       /\ UNCHANGED <<tracker, report, attempt, late>>
    \/ /\ ~Admitted
       /\ Return(c)
       /\ UNCHANGED <<tracker, reporter>>
    \/ /\ Admitted
       /\ \E amount \in Amounts, tripped, latched \in BOOLEAN :
            /\ Observe(c, {"calls", "amount"}, amount, tripped, latched)
            /\ report' = IF latched THEN generations' ELSE report
            /\ \/ latched /\ Goto(c, "report")
               \/ tripped /\ ~latched /\ Return(c)
               \/ ~tripped /\ Dispatched(c)
       /\ UNCHANGED <<attempt, late, tripwire>>

Forward(c) ==
    /\ pc[c] = "forward"
    /\ ForwardOrKill(c)
    /\ UNCHANGED <<controlPlane, map, under, runs>>

\* The upstream tool has run; a failure spends the error budget.
CallReturns(c) ==
    /\ pc[c] = "run"
    /\ \/ Return(c) /\ UNCHANGED <<tracker, reporter>>
       \/ \E tripped, latched \in BOOLEAN :
            /\ Observe(c, {"errors"}, 0, tripped, latched)
            /\ report' = IF latched THEN generations' ELSE report
            /\ IF latched THEN Goto(c, "report") ELSE Return(c)
            /\ UNCHANGED <<attempt, late, tripwire>>
    /\ UNCHANGED <<controlPlane, map, under, runs>>

\* reportKill() settles: delivered, or out of attempts and left to the pump.
ReportSettles(c) ==
    /\ pc[c] = "report"
    /\ report = 0 \/ attempt = NoAttempt
    /\ Return(c)
    /\ UNCHANGED <<controlPlane, map, tracker, reporter, under, runs>>

-----------------------------------------------------------------------------
(* Executor.run(): a ticket is bound to the epoch its call was decided on, *)
(* and held against the live kill state before and after it is burned.     *)

\* Mutant: the epoch of the ticket is not compared.
TicketHoldsAnyEpoch(c) == ~Denied(live[c])

\* refuseTicket() has nothing to say but of the time.
TicketHolds(c) == ~Denied(live[c]) /\ answer[c].epoch = live[c].epoch

\* fetchLive() is answered, or fails and reads as killed.
FetchLive(c) ==
    /\ pc[c] \in {"ticket", "burned"}
    /\ pc' = [pc EXCEPT ![c] = IF @ = "ticket" THEN "checked" ELSE "rechecked"]
    /\ live' \in {[live EXCEPT ![c] = StatusAnswer], [live EXCEPT ![c] = FailClosed]}
    /\ UNCHANGED <<controlPlane, answer, waits, poll, overtaken, map, tracker, reporter,
                   under, runs>>

\* The nonce is burned before the second look.
BurnTicket(c) ==
    /\ pc[c] = "checked" /\ TicketHolds(c)
    /\ pc' = [pc EXCEPT ![c] = "burned"]
    /\ live' = [live EXCEPT ![c] = FailClosed]
    /\ UNCHANGED <<controlPlane, answer, waits, poll, overtaken, map, tracker, reporter,
                   under, runs>>

\* The backend performs the call.
Execute(c) ==
    /\ pc[c] = "rechecked" /\ TicketHolds(c)
    /\ pc' = [pc EXCEPT ![c] = "run"]
    /\ live' = [live EXCEPT ![c] = FailClosed]
    /\ UNCHANGED <<controlPlane, answer, waits, poll, overtaken, map, tracker, reporter,
                   under, runs>>

\* A kill, another epoch or the lifetime of the ticket refuses the call, which
\* spends no error budget.
TicketRefused(c) ==
    /\ pc[c] \in {"checked", "rechecked"}
    /\ Return(c)
    /\ UNCHANGED <<controlPlane, map, tracker, reporter, under, runs>>

-----------------------------------------------------------------------------
(* The veto lane of the handler.                                           *)

\* windows.delete(key).
DropEntry == windows' = None

\* POST /veto is sent for a new entry of the map; both await its answer.
Register(c) ==
    \E w \in Windows \ registered :
        /\ \A d \in Calls : waits[d] /= w
        /\ windows' = w
        /\ waits' = [waits EXCEPT ![c] = w]
        /\ pc' = [pc EXCEPT ![c] = "register"]
        /\ poll' = [poll EXCEPT ![c] = "missing"]
        /\ UNCHANGED <<answer, live, overtaken, registered>>

\* The promise of the registration has its id.
Settled(w) == w \in registered

\* vetoLane(): the first call of this identity registers, the others share.
EnterReview(c) ==
    /\ pc[c] = "review"
    /\ \/ windows = None /\ Register(c)
       \/ /\ windows /= None
          /\ waits' = [waits EXCEPT ![c] = windows]
          /\ pc' = [pc EXCEPT ![c] = IF Settled(windows) THEN "poll" ELSE "settle"]
          /\ UNCHANGED <<answer, poll, live, overtaken, map>>
    /\ UNCHANGED <<controlPlane, tracker, reporter, under, runs>>

\* The calls that await the registration of w: the one that made it, and those
\* that found it in the map.
Openers(w) == {c \in Calls : waits[c] = w /\ pc[c] = "register"}
Sharers(w) == {c \in Calls : waits[c] = w /\ pc[c] = "settle"}

\* POST /veto arrives and is answered: whoever opened the window is told to
\* wait for the owner, the others go on to ask for its status.
PostRegisterVeto(w) ==
    /\ Openers(w) /= {}
    /\ ~cp.listed
    /\ review' = [review EXCEPT ![w] = [st |-> "open", epoch |-> cp.epoch]]
    /\ registered' = registered \union {w}
    /\ ReturnAll(Openers(w), [c \in Calls |-> IF c \in Sharers(w) THEN "poll" ELSE pc[c]])
    /\ UNCHANGED <<cp, disk, faults, reset, restores, windows, tracker, reporter, under, runs>>

\* POST /veto is refused or its answer is lost: settle() drops the entry and
\* every call that awaited it is refused.  The window may have been opened.
RegistrationFails(w) ==
    /\ Openers(w) /= {}
    /\ review' \in {review, [review EXCEPT ![w] = [st |-> "open", epoch |-> cp.epoch]]}
    /\ cp.listed => review' = review
    /\ DropEntry
    /\ registered' = registered \union {w}
    /\ ReturnAll(Openers(w) \union Sharers(w), pc)
    /\ UNCHANGED <<cp, disk, faults, reset, restores, tracker, reporter, under, runs>>

\* GET /veto/:id is answered.
GetVeto(c) ==
    /\ pc[c] = "poll"
    /\ pc' = [pc EXCEPT ![c] = "polled"]
    /\ poll' = [poll EXCEPT ![c] = WireStatus(waits[c])]
    /\ UNCHANGED <<controlPlane, answer, waits, live, overtaken, map, tracker, reporter,
                   under, runs>>

\* ... or not: the call is refused, the entry stays.
GetVetoFails(c) ==
    /\ pc[c] = "poll"
    /\ Return(c)
    /\ UNCHANGED <<controlPlane, map, tracker, reporter, under, runs>>

\* The owner has not decided, or has decided against the call.
ReviewRefuses(c) ==
    /\ pc[c] = "polled" /\ poll[c] \in {"open", "refused"}
    /\ Return(c)
    /\ UNCHANGED <<controlPlane, map, tracker, reporter, under, runs>>

\* The release is of a dead epoch: drop the entry, whosever it is by now.
ReviewSpent(c) ==
    /\ pc[c] = "polled" /\ poll[c] = "spent"
    /\ Return(c)
    /\ DropEntry
    /\ UNCHANGED <<controlPlane, registered, tracker, reporter, under, runs>>

\* The control plane forgot the window: drop the entry and register again.
ReviewMissing(c) ==
    /\ pc[c] = "polled" /\ poll[c] = "missing"
    /\ Register(c)
    /\ UNCHANGED <<controlPlane, tracker, reporter, under, runs>>

\* Silence let it run: drop the entry and forward.
ReviewReleased(c) ==
    /\ pc[c] = "polled" /\ poll[c] = "released"
    /\ DropEntry
    /\ ForwardOrKill(c)
    /\ runs' = IF pc'[c] \in {"ticket", "run"} THEN [runs EXCEPT ![waits[c]] = @ + 1] ELSE runs
    /\ UNCHANGED <<controlPlane, registered, under>>

-----------------------------------------------------------------------------
(* The kill lane of the reporter.                                          *)

Sent == [st |-> "sent", epoch |-> 0, degraded |-> FALSE]

\* drain(): a POST /kill for the trip at the head of the lane.
SendKill ==
    /\ report /= 0 /\ attempt = NoAttempt
    /\ attempt' = Sent
    /\ UNCHANGED <<controlPlane, calls, map, tracker, report, late, tripwire, under, runs>>

\* It arrives, and is answered with the epoch after the kill.
KillLands ==
    /\ attempt = Sent
    /\ KillAgent
    /\ attempt' = [st |-> "answered", epoch |-> cp'.epoch, degraded |-> cp'.degraded]
    /\ UNCHANGED <<review, reset, places, map, tracker, report, late, tripwire, runs>>

\* It times out or its answer is lost; a request under way may still arrive.
AttemptFails ==
    /\ attempt /= NoAttempt
    /\ attempt' = NoAttempt
    /\ late' = (late \/ attempt = Sent)
    /\ UNCHANGED <<controlPlane, calls, map, tracker, report, tripwire, under, runs>>

LateKillLands ==
    /\ late /\ late' = FALSE
    /\ KillAgent
    /\ UNCHANGED <<review, reset, places, map, tracker, report, attempt, tripwire, runs>>

\* queue.shift(): a latch has one report, so the lane is empty.
Shifted == 0

\* isLimitKillConfirmation(): a degraded answer has one key too many.
IsConfirmation(a) == a.st = "answered" /\ ~a.degraded

\* The answer of the attempt is read: the trip leaves the lane and the latch
\* hears of it, or the attempt has failed.
KillAnswered ==
    /\ attempt.st = "answered"
    /\ attempt' = NoAttempt
    /\ \/ /\ IsConfirmation(attempt)
          /\ report' = Shifted
          /\ ConfirmKillDelivered(attempt.epoch, report)
       \/ ~IsConfirmation(attempt) /\ UNCHANGED <<report, tracker>>
    /\ UNCHANGED <<controlPlane, calls, map, late, tripwire, under, runs>>

\* The honeytoken's own kill, of everything, is delivered.
TripwireLands ==
    /\ tripwire /\ tripwire' = FALSE
    /\ Killing(TRUE, cp.listed)
    /\ UNCHANGED <<review, reset, places, map, tracker, report, attempt, late, runs>>

-----------------------------------------------------------------------------
Init ==
    /\ cp = [killed |-> FALSE, listed |-> FALSE, epoch |-> 0, degraded |-> FALSE]
    /\ disk = State(FALSE, FALSE, 0)
    /\ review = NoReviews
    /\ pc = [c \in Calls |-> "idle"]
    /\ answer = [c \in Calls |-> FailClosed]
    /\ waits = [c \in Calls |-> None]
    /\ poll = [c \in Calls |-> "missing"]
    /\ live = [c \in Calls |-> FailClosed] /\ overtaken = {}
    /\ windows = None /\ registered = {}
    /\ latch = Armed /\ generations = 0 /\ total = NothingCounted /\ spent = NothingCounted
    /\ report = 0 /\ attempt = NoAttempt /\ late = FALSE /\ tripwire = FALSE
    /\ faults = 0 /\ reset = FALSE /\ restores = 0 /\ under = {}
    /\ runs = [w \in Windows |-> 0]

Handler(c) ==
    \/ CallTool(c) \/ GetStatus(c) \/ Decide(c) \/ PinRefused(c)
    \/ Forward(c) \/ CallReturns(c) \/ ReportSettles(c)
    \/ FetchLive(c) \/ BurnTicket(c) \/ Execute(c) \/ TicketRefused(c)
    \/ EnterReview(c) \/ GetVeto(c) \/ GetVetoFails(c) \/ ReviewRefuses(c)
    \/ ReviewSpent(c) \/ ReviewMissing(c) \/ ReviewReleased(c)

Reporter ==
    \/ SendKill \/ KillLands \/ AttemptFails \/ LateKillLands
    \/ KillAnswered \/ TripwireLands

ControlPlane ==
    \/ PostKill \/ PostRestore \/ Restart \/ RestartUntrusted
    \/ \E w \in Windows :
        PostRegisterVeto(w) \/ RegistrationFails(w) \/ ReviewEnds(w)

Next == (\E c \in Calls : Handler(c)) \/ Reporter \/ ControlPlane

Spec == Init /\ [][Next]_vars

-----------------------------------------------------------------------------
KillState == [killed : BOOLEAN, listed : BOOLEAN, epoch : 0..MaxEpoch]
Status ==
    [killed : BOOLEAN, listed : BOOLEAN, epoch : 0..MaxEpoch, degraded : BOOLEAN]
Places ==
    {"idle", "status", "answered", "forward", "review", "register", "settle",
     "poll", "polled", "ticket", "checked", "burned", "rechecked", "run", "report"}

\* The types of the variables, and what holds where in the handler: a call
\* asks only about a window that has been registered, and a report waits only
\* for a latch that is set.
TypeOK ==
    /\ cp \in Status /\ disk \in KillState
    /\ review \in [Windows -> [st : {"missing", "open", "released", "refused"},
                               epoch : 0..MaxEpoch]]
    /\ pc \in [Calls -> Places] /\ answer \in [Calls -> Status]
    /\ waits \in [Calls -> Windows \union {None}]
    /\ poll \in [Calls -> {"missing", "open", "released", "refused", "spent"}]
    /\ live \in [Calls -> Status] /\ overtaken \subseteq Routed
    /\ windows \in Windows \union {None} /\ registered \subseteq Windows
    /\ latch \in [phase : {"armed", "unconfirmed", "confirmed"}, epochFloor : 0..MaxEpoch + 1]
    /\ generations \in Nat /\ total \in [Rules -> Nat] /\ spent \in [Rules -> Nat]
    /\ report \in {0, generations} /\ (latch.phase = "armed" => report = 0)
    /\ attempt \in [st : {"none", "sent", "answered"}, epoch : 0..MaxEpoch, degraded : BOOLEAN]
    /\ late \in BOOLEAN /\ tripwire \in BOOLEAN
    /\ faults \in 0..MaxFaults /\ reset \in BOOLEAN /\ restores \in Nat /\ under \subseteq Calls
    /\ runs \in [Windows -> Nat]
    /\ \A c \in Calls : pc[c] \in {"poll", "polled"} => waits[c] \in registered

\* A budget that tripped is armed again only by the owner: every latch that
\* is no longer set has had a restore of its own, after its own kill, however
\* late or out of order the /status answers and the answers of the reporter
\* are and whether or not the control plane crashes (limits.ts,
\* observeKillState and confirmKillDelivered).  A boot from untrusted state
\* starts the epochs over and is left out.
OneRestorePerTrip ==
    ~reset /\ latch.phase = "armed" => generations <= restores

\* What has run since the owner last armed the budgets stays within them, also
\* when calls overtake one another and a trip still awaits its report (proxy.ts,
\* observeCallLimits: "a concurrent call can pass" the handler's check).  A rule
\* on errors sees a call only after it ran and is not about this.
NoOverspend ==
    \A r \in Rules : Metric[r] /= "errors" => spent[r] <= Max[r]

\* A call made after the agent was stopped, by a kill of everything or of this
\* agent, never runs while that stop lasts (proxy.ts, the handler; client.ts,
\* fetchKillState).
StoppedAgentRunsNothing ==
    [][\A c \in Calls : pc[c] /= "run" /\ pc'[c] = "run" => c \notin under]_vars

\* A window the gateway would still poll for a new call has not let a call run:
\* a release is good only for the calls that had asked before it was first
\* used (proxy.ts, vetoLane: the entry is dropped before the call is forwarded,
\* and no late answer of another call brings it back).
TrackedIsUnused == windows /= None => runs[windows] = 0

\* No yes survives a kill: what the executor performs was decided on a kill
\* state with no kill, of anyone, between it and the last one the executor was
\* given, even if the owner restored in the meantime or a review window was
\* opened and released since by another call (executor.ts, run; proxy.ts,
\* runRouted).  A kill after that last look races with the call.
YesEndsWithKill == \A c \in overtaken : pc[c] /= "run"

\* The shape of the state; the window that is tracked and the calls that run
\* in it.
Inv == TypeOK /\ TrackedIsUnused /\ YesEndsWithKill
============================================================================
