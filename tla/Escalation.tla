----------------------------- MODULE Escalation -----------------------------
(***************************************************************************)
(* The escalation service (packages/escalation): a process of its own that *)
(* polls the control plane for open veto windows, climbs a ladder of       *)
(* channels until the owner is known to have looked, and relays a stop     *)
(* that comes back over a channel.                                         *)
(*                                                                         *)
(* Ticks and webhooks are asynchronous jobs over shared memory: each runs  *)
(* alone from one await to the next.  The timer of cli.ts does not wait    *)
(* for the last tick, so that ticks overlap and the listings they asked    *)
(* for are applied in any order.  A restart loses everything.              *)
(*                                                                         *)
(* Abstracted: the windows of the control plane open and end at any time,  *)
(* and it reports any of them as seen (VetoLane.tla has the rules);        *)
(* deadlines and headlines, which only go into the text of an alert, are   *)
(* left out, and so is the push subscription, which decides only where a   *)
(* push goes (Phone.tla has it).  A callback that yields no event changes  *)
(* nothing and is no step.  Time is in units in which the rungs and the    *)
(* horizons of the limits are whole.                                       *)
(***************************************************************************)
EXTENDS Integers, Sequences, FiniteSets

CONSTANTS
    Windows,       \* ids of veto windows
    None,
    Ticks,         \* calls of tickOnce() that are under way at once
    Hooks,         \* callbacks of the provider that are handled at once
    Ladder,        \* the ladder asked for: a sequence of [after, channel]
    Configured,    \* the channels that have credentials
    Cost,          \* the estimated cost of a send over each channel
    MaxVoice,      \* maxVoiceCallsPer10Min
    MaxSms,        \* maxSmsPerHour
    MaxSpend,      \* maxDailySpendUsd
    VoiceHorizon,  \* ten minutes
    SmsHorizon,    \* one hour
    Day,           \* a day
    MaxTime        \* bound on the clock (model bound, not in the code)

Channels == {"push", "email", "sms", "voice"}

ASSUME RungAssumption ==
    /\ Ladder \in Seq([after : Nat, channel : Channels])
    /\ \A i \in 1 .. Len(Ladder) - 1 : Ladder[i].after <= Ladder[i + 1].after
    /\ Configured \subseteq Channels
ASSUME LimitAssumption ==
    /\ Cost \in [Channels -> Nat]
    /\ MaxVoice \in Nat /\ MaxSms \in Nat /\ MaxSpend \in Nat
    /\ VoiceHorizon \in Nat /\ SmsHorizon \in Nat /\ Day \in Nat \ {0}
    /\ MaxTime \in Nat

VARIABLES
    window,        \* the windows of the control plane
    clock,
    run,           \* LadderEngine.run
    ledger,        \* voiceSends, smsSends, spend
    tracked,       \* tracked
    relays,        \* pendingRelays
    job,
    log,           \* the sends admitted since the last restart
    owed,          \* history: windows a stop was to be relayed for
    misled         \* history: open windows that an older listing left out

Jobs == Ticks \union Hooks

engine == <<run, ledger, log>>
vars == <<window, clock, engine, tracked, relays, job, owed, misled>>

-----------------------------------------------------------------------------
(* The engine (ladder.ts).                                                 *)

\* The engine is given the rungs whose channel there is.
RungIds == {i \in 1 .. Len(Ladder) : Ladder[i].channel \in Configured}

\* The clock of a run, the rungs it has fired and the windows it is about.
Runs ==
    [start : -1 .. MaxTime, fired : SUBSET RungIds,
     wins : UNION {[S -> [delivered : BOOLEAN, closed : BOOLEAN]] : S \in SUBSET Windows}]

\* null is neither a run nor a listing.
ASSUME NoneAssumption == None \notin Runs /\ \A S \in SUBSET Windows : None /= S

Fresh == [delivered |-> FALSE, closed |-> FALSE]

OpenIn(r) == IF r = None THEN {} ELSE {w \in DOMAIN r.wins : ~r.wins[w].closed}

\* A window joins the live run, or starts one whose clock the next tick sets.
WindowOpened(r, S) ==
    IF S = {} THEN r
    ELSE IF r = None
    THEN [start |-> -1, fired |-> {}, wins |-> [w \in S |-> Fresh]]
    ELSE [r EXCEPT !.wins = [w \in DOMAIN @ \union S |-> IF w \in DOMAIN @ THEN @[w] ELSE Fresh]]

WindowDelivered(r, S) ==
    IF r = None THEN r
    ELSE [r EXCEPT !.wins = [w \in DOMAIN @ |-> IF w \in S THEN [@[w] EXCEPT !.delivered = TRUE] ELSE @[w]]]

WindowClosed(r, S) ==
    IF r = None THEN r
    ELSE [r EXCEPT !.wins = [w \in DOMAIN @ |-> IF w \in S THEN [@[w] EXCEPT !.closed = TRUE] ELSE @[w]]]

\* The engine's timestamps are kept as the sends they are of, positions in log.
NoSends == [voice |-> {}, sms |-> {}, day |-> -1, usd |-> 0]

Recent(sends, g, horizon) == {i \in sends : clock - g[i].at < horizon}

\* One more send after g, where fewer than max are recent.
Admission(sends, g, horizon, max) ==
    LET recent == Recent(sends, g, horizon)
        ok == Cardinality(recent) < max
    IN [ok |-> ok, sends |-> IF ok THEN recent \union {Len(g) + 1} ELSE recent]

\* What was spent today.
Spent(l) == IF l.day = clock \div Day THEN l.usd ELSE 0

Ledger(voice, sms, usd) == [voice |-> voice, sms |-> sms, day |-> clock \div Day, usd |-> usd]

\* Mutant: what was sent over a channel is not remembered.
AdmitForgets(l, g, ch) ==
    IF Spent(l) + Cost[ch] > MaxSpend
    THEN [ok |-> FALSE, ledger |-> Ledger(l.voice, l.sms, Spent(l))]
    ELSE [ok |-> TRUE, ledger |-> Ledger(l.voice, l.sms, Spent(l) + Cost[ch])]

\* admit(): the day's spend, then the channel's own ceiling.
Admit(l, g, ch) ==
    LET paid == Spent(l) + Cost[ch]
        voice == Admission(l.voice, g, VoiceHorizon, MaxVoice)
        sms == Admission(l.sms, g, SmsHorizon, MaxSms)
    IN CASE paid > MaxSpend -> [ok |-> FALSE, ledger |-> Ledger(l.voice, l.sms, Spent(l))]
         [] paid <= MaxSpend /\ ch = "voice" ->
              [ok |-> voice.ok,
               ledger |-> Ledger(voice.sends, l.sms, IF voice.ok THEN paid ELSE Spent(l))]
         [] paid <= MaxSpend /\ ch = "sms" ->
              [ok |-> sms.ok,
               ledger |-> Ledger(l.voice, sms.sends, IF sms.ok THEN paid ELSE Spent(l))]
         [] OTHER -> [ok |-> TRUE, ledger |-> Ledger(l.voice, l.sms, paid)]

\* The rungs that are due and have not fired.
Due(r) == {i \in RungIds : i \notin r.fired /\ clock - r.start >= Ladder[i].after}

\* A rung over ch fires: its send is admitted, or capped.
Fire(m, ch) ==
    LET a == Admit(m.ledger, m.log, ch)
    IN [ledger |-> a.ledger,
        log |-> IF a.ok THEN Append(m.log, [channel |-> ch, at |-> clock]) ELSE m.log]

\* Each due rung is spent, in order.
Climb(r, m) ==
    LET after[n \in 0 .. Len(Ladder)] ==
            IF n = 0 THEN m
            ELSE IF n \in Due(r) THEN Fire(after[n - 1], Ladder[n].channel) ELSE after[n - 1]
    IN after[Len(Ladder)]

\* The run without its closed windows; it ends with the last of them.
DropClosed(r) ==
    LET open == OpenIn(r)
    IN IF open = {} THEN None
       ELSE [start |-> IF r.start = -1 THEN clock ELSE r.start,
             fired |-> r.fired, wins |-> [w \in open |-> r.wins[w]]]

\* tick(): stand down when every open window is confirmed, climb otherwise.
EngineTick(r0) ==
    LET r == DropClosed(r0)
        quiet == [ledger |-> ledger, log |-> log]
    IN CASE r = None -> [run |-> r, did |-> quiet]
         [] r /= None /\ \A w \in DOMAIN r.wins : r.wins[w].delivered ->
              [run |-> [r EXCEPT !.fired = RungIds], did |-> quiet]
         [] OTHER -> [run |-> [r EXCEPT !.fired = @ \union Due(r)], did |-> Climb(r, quiet)]

-----------------------------------------------------------------------------
(* Jobs.  A job polls, relays what must be retried, ticks the engine and   *)
(* then performs what the tick asked for: relays before sends.  A send is  *)
(* in log when it is admitted; it may fail, which is logged, touches       *)
(* nothing a job reads and keeps no other job waiting, and is left out.    *)

Idle == [at |-> "idle", listing |-> None, relays |-> {}]

\* A job with nothing left to await ends; that of a callback answers as it does.
After(x) == IF x.relays = {} THEN Idle ELSE x

Ticked(j, r, rel) ==
    LET e == EngineTick(r) IN
    /\ run' = e.run /\ ledger' = e.did.ledger /\ log' = e.did.log
    /\ job' = [job EXCEPT ![j] = After([at |-> "act", listing |-> None, relays |-> rel])]

Open(w) == window[w] = "open"

Init ==
    /\ window = [w \in Windows |-> "none"]
    /\ clock = 0
    /\ run = None /\ ledger = NoSends /\ tracked = {} /\ relays = {}
    /\ job = [j \in Jobs |-> Idle]
    /\ log = <<>> /\ owed = {} /\ misled = {}

-----------------------------------------------------------------------------
(* The control plane and the clock.                                        *)

\* A window is stopped, in the app or by a hold, or silence released it; what is
\* owed for it ends with it.
Ended(w) ==
    /\ Open(w)
    /\ window' = [window EXCEPT ![w] = "ended"]
    /\ owed' = owed \ {w} /\ misled' = misled \ {w}
    /\ UNCHANGED <<clock, engine, tracked, relays, job>>

PostRegisterVeto(w) ==
    /\ window[w] = "none"
    /\ window' = [window EXCEPT ![w] = "open"]
    /\ UNCHANGED <<clock, engine, tracked, relays, job, owed, misled>>

Advance ==
    /\ clock < MaxTime
    /\ clock' = clock + 1
    /\ UNCHANGED <<window, engine, tracked, relays, job, owed, misled>>

-----------------------------------------------------------------------------
(* tickOnce().                                                             *)

\* The control plane answers with what is open now; the answer is applied when
\* it arrives.
Poll(j, l) ==
    /\ job[j].at = "idle"
    /\ job' = [job EXCEPT ![j].at = "listed", ![j].listing = l]
    /\ UNCHANGED <<window, clock, engine, tracked, relays, owed, misled>>

GetVetoPending(j) == Poll(j, {w \in Windows : Open(w)})

\* Unreachable, or not answered 200.
ListingFails(j) == Poll(j, None)

\* The engine after a listing: closures, then openings, then evidence.
Reconciled(l, seen) ==
    WindowDelivered(WindowOpened(WindowClosed(run, tracked \ l), l \ tracked), seen)

NowTracked(l) == IF l = None THEN tracked ELSE l

\* The listing is applied and the engine ticks, after the retries if any.
Reconcile(j) ==
    /\ job[j].at = "listed"
    /\ \E seen \in SUBSET (IF job[j].listing = None THEN {} ELSE job[j].listing) :
       LET l == job[j].listing
           r == IF l = None THEN run ELSE Reconciled(l, seen)
           retries == relays \intersect NowTracked(l)
       IN /\ tracked' = NowTracked(l)
          /\ relays' = {}
          /\ IF retries = {}
             THEN Ticked(j, r, {})
             ELSE /\ run' = r
                  /\ job' = [job EXCEPT ![j].at = "retry", ![j].listing = None,
                                        ![j].relays = retries]
                  /\ UNCHANGED <<ledger, log>>
          /\ misled' = misled \union IF l = None THEN {} ELSE {w \in tracked \ l : Open(w)}
    /\ UNCHANGED <<window, clock, owed>>

-----------------------------------------------------------------------------
(* relayVeto(): answered, failed in transport, or refused.                 *)

\* Window w is dealt with; the last retry is followed by the engine's tick.
Relayed(j, w) ==
    /\ job[j].at \in {"retry", "act"} /\ w \in job[j].relays
    /\ IF job[j].at = "retry" /\ job[j].relays = {w}
       THEN Ticked(j, run, {})
       ELSE /\ job' = [job EXCEPT ![j] = After([job[j] EXCEPT !.relays = @ \ {w}])]
            /\ UNCHANGED engine
    /\ UNCHANGED <<clock, tracked>>

\* POST /veto/:id ends a window that is still open, and is answered 409 or
\* 404 otherwise.
Lands(w) ==
    /\ window' = IF Open(w) THEN [window EXCEPT ![w] = "ended"] ELSE window
    /\ owed' = owed \ {w} /\ misled' = misled \ {w}

RelayAnswered(j, w) == Relayed(j, w) /\ Lands(w) /\ UNCHANGED relays

\* Mutant: a relay that failed in transport is only logged.
RelayThrowsOnce(j, w) ==
    /\ Relayed(j, w)
    /\ Lands(w) \/ UNCHANGED <<window, owed, misled>>
    /\ UNCHANGED relays

\* The request, or only its answer, was lost.
RelayThrows(j, w) ==
    /\ Relayed(j, w)
    /\ Lands(w) \/ UNCHANGED <<window, owed, misled>>
    /\ relays' = relays \union {w}

\* Any other status is logged, and the stop is dropped.
RelayRefused(j, w) ==
    /\ Relayed(j, w) /\ owed' = owed \ {w}
    /\ UNCHANGED <<window, relays, misled>>

-----------------------------------------------------------------------------
(* The webhook.                                                            *)

\* What a provider may post: an answer to a message, the status of one, or the
\* keys pressed in a call; with "1" in it, or not.
Callbacks ==
    [signed : BOOLEAN, form : {"reply", "status", "keys"}, owner : BOOLEAN, one : BOOLEAN]

\* Any callback is offered to either channel, which verifies it first.
Verified(c, ch) == ch \in Configured /\ c.signed

\* Stop, deny only, from the owner's number; a receipt is of a handset.
SmsEvents(c) ==
    CASE c.form = "reply" /\ c.owner /\ c.one -> {"veto"}
      [] c.form = "status" -> {"evidence"}
      [] OTHER -> {}

\* Any key shows a human; 1 is the stop.
VoiceEvents(c) ==
    CASE c.form = "keys" /\ c.one -> {"evidence", "veto"}
      [] c.form = "keys" /\ ~c.one -> {"evidence"}
      [] OTHER -> {}

Events(c) ==
    (IF Verified(c, "sms") THEN SmsEvents(c) ELSE {})
    \union (IF Verified(c, "voice") THEN VoiceEvents(c) ELSE {})

\* The callbacks that stop, and those that bring a receipt only.
StopCalls == {c \in Callbacks : "veto" \in Events(c)}
ReceiptCalls == {c \in Callbacks : Events(c) = {"evidence"}}

\* channelEvent(): an event that names no window is about every open one.
Covered(r, named) == {w \in OpenIn(r) : named = {} \/ w \in named}

\* A reply or a keypress: every window the run holds open is to be stopped.  The
\* caller is told that nothing will run, whatever becomes of the relays.
Stop(j) ==
    /\ job[j].at = "idle"
    /\ StopCalls /= {}
    /\ Ticked(j, run, Covered(run, {}))
    /\ owed' = owed \union {w \in OpenIn(run) : Open(w)}
    /\ UNCHANGED <<window, clock, tracked, relays, misled>>

\* A receipt is no evidence that counts; it only ticks the engine.
Receipt(j) ==
    /\ job[j].at = "idle"
    /\ ReceiptCalls /= {}
    /\ Ticked(j, run, {})
    /\ UNCHANGED <<window, clock, tracked, relays, owed, misled>>

Restart ==
    /\ run' = None /\ ledger' = NoSends /\ log' = <<>>
    /\ tracked' = {} /\ relays' = {} /\ job' = [j \in Jobs |-> Idle]
    /\ owed' = {} /\ misled' = {}
    /\ UNCHANGED <<window, clock>>

-----------------------------------------------------------------------------
Relaying(j) == \E w \in Windows : RelayAnswered(j, w) \/ RelayThrows(j, w) \/ RelayRefused(j, w)

Next ==
    \/ \E w \in Windows : PostRegisterVeto(w) \/ Ended(w)
    \/ Advance
    \/ \E j \in Ticks : GetVetoPending(j) \/ ListingFails(j) \/ Reconcile(j)
    \/ \E j \in Hooks : Stop(j) \/ Receipt(j)
    \/ \E j \in Jobs : Relaying(j)
    \/ Restart

Spec == Init /\ [][Next]_vars

-----------------------------------------------------------------------------
(* Properties.                                                             *)

\* The shape of the engine's memory and of the jobs.
TypeOK ==
    /\ window \in [Windows -> {"none", "open", "ended"}]
    /\ clock \in 0 .. MaxTime
    /\ run \in Runs \union {None}
    /\ tracked \subseteq Windows /\ relays \subseteq Windows
    /\ \A j \in Jobs :
        /\ job[j].at \in {"idle", "listed", "retry", "act"}
        /\ job[j].relays \subseteq Windows
    /\ owed \subseteq Windows /\ misled \subseteq Windows

\* What the engine remembers of its sends stays within the ceilings.
LedgerOK ==
    /\ ledger.voice \union ledger.sms \subseteq DOMAIN log
    /\ Cardinality(ledger.voice) <= MaxVoice /\ Cardinality(ledger.sms) <= MaxSms
    /\ ledger.day \in -1 .. MaxTime /\ ledger.usd \in 0 .. MaxSpend

\* The sends over ch within the horizon that ends at t, and those of day d.
Until(g, ch, horizon, t) ==
    {i \in DOMAIN g : g[i].channel = ch /\ t - horizon < g[i].at /\ g[i].at <= t}
OnDay(g, ch, d) == {i \in DOMAIN g : g[i].channel = ch /\ g[i].at \div Day = d}

CostOn(g, ch, d) == Cost[ch] * Cardinality(OnDay(g, ch, d))
SpentOn(g, d) ==
    CostOn(g, "push", d) + CostOn(g, "email", d) + CostOn(g, "sms", d) + CostOn(g, "voice", d)

\* The ceilings hold over every ten minutes, every hour and every day, however
\* many runs of the ladder, ticks and callbacks fall into them (admit).
CeilingsHold ==
    /\ LedgerOK
    /\ \A t \in 0 .. MaxTime :
        /\ Cardinality(Until(log, "voice", VoiceHorizon, t)) <= MaxVoice
        /\ Cardinality(Until(log, "sms", SmsHorizon, t)) <= MaxSms
        /\ SpentOn(log, t \div Day) <= MaxSpend

\* Nothing that closed keeps the ladder climbing, and a coalesced stop leaves
\* out no open window the service tracks.  Polls overlap: a window that a listing
\* left out though it was open, because it was applied after a newer one, is
\* excepted.  The engine may have closed that window for good (windowOpened).
StopCoversTracked ==
    /\ OpenIn(run) \subseteq tracked
    /\ \A w \in tracked \ misled : Open(w) => w \in OpenIn(run)

\* A stop that was accepted is not forgotten: until its window has ended it is
\* being relayed or is queued to be relayed again.  (One the control plane
\* refused, or a restart interrupted, is no longer owed; the queue drops one
\* whose window an older listing left out.)
StopIsNotForgotten ==
    \A w \in owed \ misled : w \in relays \/ \E j \in Jobs : w \in job[j].relays

\* The shape of the state, every open window covered by a stop and every stop
\* remembered, but for the windows an older listing left out.
Inv == TypeOK /\ StopCoversTracked /\ StopIsNotForgotten
=============================================================================
