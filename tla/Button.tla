------------------------------- MODULE Button -------------------------------
(***************************************************************************)
(* The physical button: the firmware of the e-stop (hardware/pico/code.py),*)
(* the serial source that reads its lines (packages/button/src/input.ts),  *)
(* the daemon that turns a press into a confirmed kill (daemon.ts) and the *)
(* reporter of hardware faults (alert.ts).                                 *)
(*                                                                         *)
(* A line crosses USB in two fragments, so that a cable may break inside   *)
(* it.  Time is counted as the age of the last press, line and signal, up  *)
(* to the age at which the code stops telling them apart; the firmware,    *)
(* whose loop runs 200 times a second, is never late by a whole unit, and  *)
(* a line may arrive a unit late.                                          *)
(*                                                                         *)
(* Abstracted: contacts are debounced levels; the length of a backoff,     *)
(* which only says how soon the next attempt is made; the cap on an        *)
(* unterminated line, which no line of this firmware reaches; the keyboard *)
(* and the local HTTP source, which call the same listener as a line does. *)
(***************************************************************************)
EXTENDS Integers, Sequences, SequencesExt

CONSTANTS
    Debounce,      \* debounceMs of the daemon
    Reassert,      \* REASSERT_S: KILL again while the contact is open
    FaultReassert, \* FAULT_REASSERT_S
    EpisodeGap,    \* episodeGapMs of the fault reporter
    AlertTries,    \* attempts for one alert (RETRY_BACKOFF_MS.length + 1)
    OutboxCap,     \* OUTBOX_CAP, in fragments
    MaxStale,      \* requests of superseded sequences that may still arrive
    MaxDrops       \* bound on disconnections (model bound)

\* What the real values satisfy (1 s, 1 s, 5 s, 30 s) and the model relies on.
ASSUME TimeAssumption ==
    /\ Debounce \in Nat /\ Reassert \in Nat \ {0} /\ Debounce <= Reassert
    /\ FaultReassert \in Nat \ {0} /\ EpisodeGap \in Nat /\ FaultReassert <= EpisodeGap
ASSUME BoundAssumption ==
    /\ AlertTries \in Nat \ {0} /\ OutboxCap \in Nat \ {0}
    /\ MaxStale \in Nat /\ MaxDrops \in Nat

VARIABLES
    latched,       \* stable: the contact is open (pressed, or the wire is cut)
    agree,         \* faulted: the two channels agree
    lineAge,       \* age of the last KILL line, while the contact is open
    faultAge,      \* age of the last FAULT line, while the channels agree
    outbox,        \* outbox: fragments that wait for the host
    stream,        \* the serial source: "open", "gone" or "stopped"
    buffer,        \* buffer: the unterminated line
    active,        \* active
    pressAge,      \* now - lastPressAt
    unconfirmed,   \* unconfirmed
    failed,        \* failedInSequence > 0
    loop,          \* the sequence of this generation: "none", "post" or "wait"
    request,       \* its request: "none", "sent" or "landed"
    stale,         \* requests of earlier attempts and sequences still on the wire
    signalAge,     \* now - lastSignalAt
    tries,         \* attempts of postAlert(); 0 is not reporting
    killed,        \* the control plane's switch
    drops,
    pressed        \* history: the contact has opened

firmware == <<latched, agree, lineAge, faultAge, pressed>>
daemon == <<active, pressAge, unconfirmed, failed, loop, request, stale>>
reporter == <<signalAge, tries>>
buttonVars == <<firmware, outbox, stream, buffer, daemon, reporter, killed, drops>>

KillLine == <<"KI", "LL">>
FaultLine == <<"FAU", "LT">>
Heads == {"KI", "FAU"}

Older(age, cap) == IF age < cap THEN age + 1 ELSE age
AtMost(n, max) == IF n < max THEN n ELSE max

ButtonInit ==
    /\ latched = FALSE /\ agree = FALSE
    /\ lineAge = Reassert /\ faultAge = FaultReassert /\ outbox = <<>>
    /\ stream = "open" /\ buffer = <<>>
    /\ active = TRUE /\ pressAge = Debounce /\ unconfirmed = FALSE /\ failed = FALSE
    /\ loop = "none" /\ request = "none" /\ stale = 0
    /\ signalAge = EpisodeGap + 1 /\ tries = 0
    /\ killed = FALSE /\ drops = 0
    /\ pressed = FALSE

-----------------------------------------------------------------------------
(* The firmware.                                                           *)

\* enqueue(): whole lines, dropped when the outbox is full.
Enqueued(line) == IF Len(outbox) < OutboxCap THEN outbox \o line ELSE outbox

\* The contact opens: a press, or a cut wire.
Press ==
    /\ ~latched
    /\ latched' = TRUE /\ pressed' = TRUE /\ lineAge' = 0
    /\ outbox' = Enqueued(KillLine)
    /\ UNCHANGED <<agree, faultAge, stream, buffer, daemon, reporter, killed, drops>>

Unlatch ==
    /\ latched /\ latched' = FALSE /\ lineAge' = Reassert
    /\ UNCHANGED <<agree, faultAge, pressed, outbox, stream, buffer, daemon,
                   reporter, killed, drops>>

KillDue == latched /\ lineAge >= Reassert

\* While the contact is open the line is repeated.
ReassertKill ==
    /\ KillDue
    /\ lineAge' = 0 /\ outbox' = Enqueued(KillLine)
    /\ UNCHANGED <<latched, agree, faultAge, pressed, stream, buffer, daemon, reporter,
                   killed, drops>>

\* The channels have agreed for longer than the cross-check's debounce.  In one
\* pass of the loop KILL comes first.
Fault ==
    /\ ~agree /\ ~KillDue
    /\ agree' = TRUE /\ faultAge' = 0
    /\ outbox' = Enqueued(FaultLine)
    /\ UNCHANGED <<latched, lineAge, pressed, stream, buffer, daemon, reporter, killed,
                   drops>>

Repair ==
    /\ agree /\ agree' = FALSE /\ faultAge' = FaultReassert
    /\ UNCHANGED <<latched, lineAge, pressed, outbox, stream, buffer, daemon, signalAge,
                   tries, killed, drops>>

FaultDue == agree /\ faultAge >= FaultReassert

ReassertFault ==
    /\ FaultDue /\ ~KillDue
    /\ faultAge' = 0 /\ outbox' = Enqueued(FaultLine)
    /\ UNCHANGED <<latched, agree, lineAge, pressed, stream, buffer, daemon, reporter,
                   killed, drops>>

\* A host that is connected is behind by a fragment at most.
Tick ==
    /\ ~KillDue /\ ~FaultDue
    /\ stream = "open" => Len(outbox) <= 1
    /\ lineAge' = Older(lineAge, Reassert)
    /\ faultAge' = Older(faultAge, FaultReassert)
    /\ pressAge' = Older(pressAge, Debounce)
    /\ signalAge' = Older(signalAge, EpisodeGap + 1)
    /\ UNCHANGED <<latched, agree, pressed, outbox, stream, buffer, active, unconfirmed,
                   failed, loop, request, stale, tries, killed, drops>>

-----------------------------------------------------------------------------
(* The daemon.                                                             *)

\* Mutant: a press of exactly the debounce's age is a bounce.
BounceAtEdge == pressAge <= Debounce /\ ~failed

\* Within the debounce, unless an attempt of the sequence has failed.
Bounce == pressAge < Debounce /\ ~failed

\* What is on the wire when a request is given up.
Left == IF request = "sent" THEN AtMost(stale + 1, MaxStale) ELSE stale

\* handlePress() and startSequence(): a new sequence takes over.
HandlePress ==
    /\ pressAge' = IF active THEN 0 ELSE pressAge
    /\ IF active /\ ~Bounce
       THEN /\ unconfirmed' = TRUE /\ failed' = FALSE
            /\ loop' = "post" /\ request' = "sent" /\ stale' = Left
       ELSE UNCHANGED <<unconfirmed, failed, loop, request, stale>>
    /\ UNCHANGED active

\* attemptKill(): the control plane engages.
KillLands ==
    /\ request = "sent" /\ request' = "landed"
    /\ killed' = TRUE
    /\ UNCHANGED <<firmware, outbox, stream, buffer, active, pressAge, unconfirmed, failed,
                   loop, stale, reporter, drops>>

\* A request whose attempt was given up arrives all the same.
LandsLate ==
    /\ stale > 0 /\ stale' = stale - 1
    /\ killed' = TRUE
    /\ UNCHANGED <<firmware, outbox, stream, buffer, active, pressAge, unconfirmed, failed,
                   loop, request, reporter, drops>>

\* runSequence(): an attempt was answered 2xx.
Confirmed ==
    /\ loop = "post" /\ request = "landed"
    /\ unconfirmed' = FALSE /\ failed' = FALSE /\ loop' = "none" /\ request' = "none"
    /\ UNCHANGED <<firmware, outbox, stream, buffer, active, pressAge, stale,
                   reporter, killed, drops>>

\* Mutant: an attempt that timed out ends the sequence.
AttemptFailsForGood ==
    /\ loop = "post"
    /\ failed' = TRUE /\ loop' = "none" /\ request' = "none" /\ stale' = Left
    /\ UNCHANGED <<firmware, outbox, stream, buffer, active, pressAge, unconfirmed,
                   reporter, killed, drops>>

\* Refused, unreachable, or not answered in time.
AttemptFails ==
    /\ loop = "post"
    /\ failed' = TRUE /\ loop' = "wait" /\ request' = "none" /\ stale' = Left
    /\ UNCHANGED <<firmware, outbox, stream, buffer, active, pressAge, unconfirmed,
                   reporter, killed, drops>>

\* The backoff is over: the next attempt, signed afresh.
Retry ==
    /\ loop = "wait"
    /\ loop' = "post" /\ request' = "sent"
    /\ UNCHANGED <<firmware, outbox, stream, buffer, active, pressAge, unconfirmed, failed,
                   stale, reporter, killed, drops>>

\* The shutdown of main.ts: daemon.stop(), source.stop(), and the process exits
\* with whatever was unconfirmed or not reported.
Shutdown ==
    /\ active /\ active' = FALSE
    /\ loop' = "none" /\ request' = "none" /\ stale' = Left
    /\ stream' = "stopped" /\ buffer' = <<>>
    /\ pressAge' = Debounce /\ failed' = FALSE
    /\ signalAge' = EpisodeGap + 1 /\ tries' = 0
    /\ UNCHANGED <<firmware, outbox, unconfirmed, killed, drops>>

\* The owners restore.
Restore ==
    /\ killed /\ killed' = FALSE
    /\ UNCHANGED <<firmware, outbox, stream, buffer, daemon, reporter, drops>>

-----------------------------------------------------------------------------
(* The fault reporter.                                                     *)

\* faultSignal(): a signal after a long silence starts an episode.
FaultSignal ==
    /\ signalAge' = 0
    /\ tries' = IF signalAge > EpisodeGap /\ tries = 0 THEN 1 ELSE tries

AlertRecorded ==
    /\ tries > 0
    /\ tries' = 0
    /\ UNCHANGED <<firmware, outbox, stream, buffer, daemon, signalAge, killed, drops>>

\* Refused or unanswered, perhaps after it was recorded.
AlertFails ==
    /\ tries > 0
    /\ tries' = IF tries < AlertTries THEN tries + 1 ELSE 0
    /\ UNCHANGED <<firmware, outbox, stream, buffer, daemon, signalAge, killed, drops>>

-----------------------------------------------------------------------------
(* The serial source.                                                      *)

\* Mutant: any complete line is a press.
AnyLine(line, whole) == TRUE

LineIs(line, whole) == line = whole

\* feed(): a complete line is a press, a fault or nothing.
Feed(fragment) ==
    LET line == Append(buffer, fragment) IN
    IF fragment \in Heads
    THEN buffer' = line /\ UNCHANGED <<daemon, reporter>>
    ELSE /\ buffer' = <<>>
         /\ IF LineIs(line, KillLine) THEN HandlePress /\ UNCHANGED reporter
            ELSE /\ UNCHANGED daemon
                 /\ IF LineIs(line, FaultLine) THEN FaultSignal ELSE UNCHANGED reporter

\* drain(): the host takes a fragment.
Drain ==
    /\ outbox /= <<>> /\ stream = "open"
    /\ outbox' = Tail(outbox)
    /\ Feed(Head(outbox))
    /\ UNCHANGED <<firmware, stream, killed, drops>>

\* The device errors or closes; what the host had accepted may be lost with it.
Gone ==
    /\ stream = "open" /\ drops < MaxDrops
    /\ stream' = "gone" /\ drops' = drops + 1
    /\ outbox' \in {outbox} \union {IF outbox = <<>> THEN outbox ELSE Tail(outbox)}
    /\ UNCHANGED <<firmware, buffer, daemon, reporter, killed>>

\* connect(), after scheduleReconnect(): a new stream, an empty buffer.
Connect ==
    /\ stream = "gone"
    /\ stream' = "open" /\ buffer' = <<>>
    /\ UNCHANGED <<firmware, outbox, daemon, reporter, killed, drops>>

-----------------------------------------------------------------------------
Firmware == ReassertKill \/ ReassertFault
Attempts == Confirmed \/ AttemptFails \/ Retry
Alerting == AlertRecorded \/ AlertFails

ButtonNext ==
    \/ Press \/ Unlatch \/ Fault \/ Repair \/ Firmware \/ Tick
    \/ Drain \/ Gone \/ Connect
    \/ KillLands \/ LandsLate \/ Attempts \/ Shutdown \/ Restore
    \/ Alerting

ButtonSpec == ButtonInit /\ [][ButtonNext]_buttonVars

\* The firmware's loop and the clock go on, the host reads and reconnects, the
\* loops of the daemon end each await one way or another, and a control plane
\* that is asked again and again is reached and answers.
ButtonFairSpec ==
    /\ ButtonSpec
    /\ WF_buttonVars(Firmware) /\ SF_buttonVars(Tick)
    /\ WF_buttonVars(Drain) /\ WF_buttonVars(Connect)
    /\ WF_buttonVars(Attempts) /\ SF_buttonVars(KillLands) /\ SF_buttonVars(Confirmed)

-----------------------------------------------------------------------------
(* Properties.                                                             *)

\* The shape of the state; a sequence posts or waits exactly while it is not
\* confirmed.
ButtonTypeOK ==
    /\ latched \in BOOLEAN /\ agree \in BOOLEAN
    /\ lineAge \in 0 .. Reassert /\ faultAge \in 0 .. FaultReassert
    /\ outbox \in BoundedSeq({"KI", "LL", "FAU", "LT"}, OutboxCap + 1)
    /\ stream \in {"open", "gone", "stopped"} /\ buffer \in BoundedSeq(Heads, 1)
    /\ active \in BOOLEAN /\ pressAge \in 0 .. Debounce
    /\ unconfirmed \in BOOLEAN /\ failed \in BOOLEAN
    /\ loop \in {"none", "post", "wait"} /\ request \in {"none", "sent", "landed"}
    /\ stale \in 0 .. MaxStale
    /\ signalAge \in 0 .. EpisodeGap + 1 /\ tries \in 0 .. AlertTries
    /\ killed \in BOOLEAN /\ drops \in 0 .. MaxDrops
    /\ pressed \in BOOLEAN

\* A press that was accepted is never orphaned: until it is confirmed, or the
\* daemon is stopped, a loop of the current generation posts or waits to post,
\* and there is no such loop otherwise.
PressIsOwned == active => (unconfirmed <=> loop /= "none")

\* Neither a fault, nor a broken cable, nor half a line is a press: the button
\* engages the switch only after its contact opened.
NoForgedKill == killed \/ unconfirmed => pressed

\* The shape of the state, the owner of a press and the cause of a kill, on the
\* way to an inductive invariant of the daemon (startSequence, runSequence, stop).
ButtonInv == ButtonTypeOK /\ PressIsOwned /\ NoForgedKill

\* Every accepted press is confirmed, unless the daemon is stopped.
PressIsConfirmed == unconfirmed ~> ~unconfirmed \/ ~active

\* A contact that stays open wins against every restore: as long as the daemon
\* runs the switch is engaged again and again, over a broken cable, lost
\* requests and the debounce that would take the repeated line for a bounce.
LatchedWins == <>[](latched /\ active) => []<>killed
=============================================================================
