----------------------------- MODULE Honeytoken -----------------------------
(***************************************************************************)
(* Honeytokens (packages/honeytoken): the watcher that arms decoy files    *)
(* and trips when one is touched (watch.ts), and the reporter that carries *)
(* trips to the control plane over two lanes, one for kills and one for    *)
(* alerts (report.ts), up to the flush at shutdown (cli.ts).               *)
(*                                                                         *)
(* Arming a file is a row of system calls: other processes read, write,    *)
(* replace or delete it between any two.  The stamps of a file are 0, as   *)
(* it was found, -1, primed, and 1, touched since: all touches fall into   *)
(* one tick of the file system's clock, the coarsest there is.             *)
(*                                                                         *)
(* Two processes own a reporter, the watcher and the MCP proxy, whose      *)
(* trips come from tool calls (tripwire.ts); the model lets both report to *)
(* one.  Abstracted: canary ids, the reason and the length of a backoff.   *)
(***************************************************************************)
EXTENDS Integers, Sequences, FiniteSets, SequencesExt

CONSTANTS
    Paths,         \* decoy files
    Calls,         \* trips of tool calls
    FileTier,      \* --DANGER-kill-on-touch: "kill", else "alert"
    CallTier,      \* forwarded calls kill, others alert
    FlushAttempts  \* DEFAULT_FLUSH_ATTEMPTS

Tiers == {"kill", "alert"}
Trips == Paths \union Calls

ASSUME TierAssumption == FileTier \in Tiers /\ CallTier \in [Calls -> Tiers]
ASSUME FlushAssumption == FlushAttempts \in Nat \ {0}

Tier(trip) == IF trip \in Paths THEN FileTier ELSE CallTier[trip]

VARIABLES
    file,          \* what stat() says of each path
    arm,           \* how far arm() has come: "no", "read", "stat", "primed", "armed"
    before,        \* before.mtimeMs
    baseline,      \* what armed holds of each path
    tripped,       \* paths whose tripwire has served its purpose
    queue,         \* queue of each lane
    lane,          \* drain() of each lane: "idle", "post" or "wait"
    attempts,      \* n of its inner loop
    budget,        \* retryBudget; 0 is infinity
    phase,         \* shutdown: "run", "flush" or "exit"
    flushing,      \* lanes whose flush() has not returned
    recorded,      \* trips the control plane has recorded
    reported,      \* history: trips handed to report() while it was active
    touched,       \* history: paths others touched since arm() began
    caught         \* history: paths others touched once armed, and not before

watcher == <<file, arm, before, baseline, tripped, touched, caught>>
lanes == <<queue, lane, attempts, budget>>
honeytokenVars == <<watcher, lanes, phase, flushing, recorded, reported>>

Planted == [ino |-> 0, atime |-> 0, mtime |-> 0]
NoFile == [ino |-> -1, atime |-> 0, mtime |-> 0]

HoneytokenInit ==
    /\ file = [p \in Paths |-> Planted]
    /\ arm = [p \in Paths |-> "no"]
    /\ before = [p \in Paths |-> 0] /\ baseline = [p \in Paths |-> Planted]
    /\ tripped = {}
    /\ queue = [t \in Tiers |-> <<>>] /\ lane = [t \in Tiers |-> "idle"]
    /\ attempts = [t \in Tiers |-> 0] /\ budget = [t \in Tiers |-> 0]
    /\ phase = "run" /\ flushing = {}
    /\ recorded = {} /\ reported = {} /\ touched = {} /\ caught = {}

-----------------------------------------------------------------------------
(* Other processes.  relatime: a read is stamped if the last one is not    *)
(* younger than the last write.                                            *)

Stamped(f) == IF f.atime <= f.mtime THEN [f EXCEPT !.atime = 1] ELSE f

Outside(p, f) ==
    /\ phase = "run" /\ file[p] /= NoFile /\ arm[p] /= "no"
    /\ file' = [file EXCEPT ![p] = f]
    /\ touched' = touched \union {p}
    /\ caught' = IF arm[p] = "armed" /\ p \notin touched THEN caught \union {p} ELSE caught
    /\ UNCHANGED <<arm, before, baseline, tripped, lanes, phase, flushing, recorded, reported>>

ReadFile(p) == Outside(p, Stamped(file[p]))
WriteFile(p) == Outside(p, [file[p] EXCEPT !.mtime = 1])
ReplaceFile(p) == Outside(p, [ino |-> 1, atime |-> 1, mtime |-> 1])
DeleteFile(p) == Outside(p, NoFile)

\* Another watcher primes the same file, which may hide a touch.
PrimeFile(p) ==
    /\ phase = "run" /\ file[p] /= NoFile /\ arm[p] /= "no"
    /\ file' = [file EXCEPT ![p].atime = file[p].mtime - 1]
    /\ touched' = touched \union {p} /\ caught' = caught \ {p}
    /\ UNCHANGED <<arm, before, baseline, tripped, lanes, phase, flushing, recorded, reported>>

-----------------------------------------------------------------------------
(* arm().  A file that is missing at any step fails the watcher, loudly.   *)

Arming(p, from, to) ==
    /\ phase = "run" /\ file[p] /= NoFile
    /\ arm[p] = from /\ arm' = [arm EXCEPT ![p] = to]
    /\ UNCHANGED <<tripped, caught, lanes, phase, flushing, recorded, reported>>

\* readFileSync: our own read.
ArmRead(p) ==
    /\ Arming(p, "no", "read")
    /\ file' = [file EXCEPT ![p] = Stamped(@)]
    /\ UNCHANGED <<before, baseline, touched>>

ArmStat(p) ==
    /\ Arming(p, "read", "stat")
    /\ before' = [before EXCEPT ![p] = file[p].mtime]
    /\ UNCHANGED <<file, baseline, touched>>

\* Mutant: the access time is left as our own read has set it.
ArmPrimeNot(p) ==
    /\ Arming(p, "stat", "primed")
    /\ UNCHANGED <<file, before, baseline, touched>>

\* utimesSync: the access time goes below the modification time.
ArmPrime(p) ==
    /\ Arming(p, "stat", "primed")
    /\ file' = [file EXCEPT ![p].atime = before[p] - 1, ![p].mtime = before[p]]
    /\ UNCHANGED <<before, baseline, touched>>

ArmBaseline(p) ==
    /\ Arming(p, "primed", "armed")
    /\ baseline' = [baseline EXCEPT ![p] = file[p]]
    /\ UNCHANGED <<file, before, touched>>

-----------------------------------------------------------------------------
(* The reporter.                                                           *)

\* enqueue(): once while it waits; ensureDraining().
Enqueue(trip) ==
    LET t == Tier(trip) IN
    /\ reported' = reported \union {trip}
    /\ IF trip \in Range(queue[t])
       THEN UNCHANGED lanes
       ELSE /\ queue' = [queue EXCEPT ![t] = Append(@, trip)]
            /\ IF lane[t] = "idle"
               THEN lane' = [lane EXCEPT ![t] = "post"] /\ attempts' = [attempts EXCEPT ![t] = 1]
               ELSE UNCHANGED <<lane, attempts>>
            /\ UNCHANGED budget

\* A tool call carries a decoy; again only while the first is not delivered.
ReportCall(c) ==
    /\ phase /= "exit"
    /\ c \notin reported \/ c \in Range(queue[Tier(c)])
    /\ Enqueue(c)
    /\ UNCHANGED <<watcher, phase, flushing, recorded>>

\* Mutant: the two lanes are one.
IsNextShared(t, trip) == queue[t] /= <<>> /\ trip = Head(queue[t]) /\ (t = "kill" => queue["alert"] = <<>>)

\* The head of the queue is being posted.
IsNext(t, trip) == queue[t] /= <<>> /\ trip = Head(queue[t])

Posting(t, trip) == lane[t] = "post" /\ IsNext(t, trip)

\* The trip is off the queue, and the drain goes on with the next.  Once the
\* queue is empty the lane is idle at once: the promise that says so is cleared
\* in the microtasks of the same callback, and every report() is called from a
\* callback of its own (fs.watch, the timer, a call of the proxy).
Landed(t) ==
    /\ queue' = [queue EXCEPT ![t] = Tail(@)]
    /\ lane' = [lane EXCEPT ![t] = IF Len(queue[t]) > 1 THEN "post" ELSE "idle"]
    /\ attempts' = [attempts EXCEPT ![t] = IF Len(queue[t]) > 1 THEN 1 ELSE 0]
    /\ UNCHANGED budget

PostLands(t) == \E trip \in Trips :
    /\ Posting(t, trip)
    /\ recorded' = recorded \union {trip}
    /\ Landed(t)
    /\ UNCHANGED <<watcher, phase, flushing, reported>>

\* The drain ends with the trip still queued.
GiveUp(t) ==
    /\ lane' = [lane EXCEPT ![t] = "idle"] /\ attempts' = [attempts EXCEPT ![t] = 0]
    /\ UNCHANGED <<queue, budget>>

\* Attempt n was the last: only a flush bounds them.
Exhausted(t, n) == budget[t] > 0 /\ n >= budget[t]

\* Mutant: a trip that failed is taken off the queue at once.
PostFailsDrops(t) == \E trip \in Trips :
    /\ Posting(t, trip) /\ Landed(t)
    /\ UNCHANGED <<watcher, phase, flushing, recorded, reported>>

\* Refused, or not answered in time, perhaps after it was recorded.
PostFails(t) == \E trip \in Trips :
    /\ Posting(t, trip)
    /\ recorded' \in {recorded, recorded \union {trip}}
    /\ IF Exhausted(t, attempts[t]) THEN GiveUp(t)
       ELSE lane' = [lane EXCEPT ![t] = "wait"] /\ UNCHANGED <<queue, attempts, budget>>
    /\ UNCHANGED <<watcher, phase, flushing, reported>>

\* The backoff is over, or flush() cut it short.
Wake(t) ==
    /\ lane[t] = "wait" /\ phase /= "exit"
    /\ IF Exhausted(t, attempts[t]) THEN GiveUp(t)
       ELSE /\ lane' = [lane EXCEPT ![t] = "post"]
            /\ attempts' = [attempts EXCEPT ![t] = IF @ < FlushAttempts THEN @ + 1 ELSE @]
            /\ UNCHANGED <<queue, budget>>
    /\ UNCHANGED <<watcher, phase, flushing, recorded, reported>>

-----------------------------------------------------------------------------
(* The watcher.                                                            *)

Touched(p) ==
    \/ file[p] = NoFile
    \/ file[p].ino /= baseline[p].ino
    \/ file[p].mtime > baseline[p].mtime
    \/ file[p].atime > baseline[p].atime

\* inspect(), called by an event or by the poller: the first touch trips.
Inspect(p) ==
    /\ phase = "run" /\ arm[p] = "armed" /\ p \notin tripped
    /\ Touched(p)
    /\ tripped' = tripped \union {p}
    /\ Enqueue(p)
    /\ UNCHANGED <<file, arm, before, baseline, touched, caught, phase, flushing, recorded>>

\* Stamps that went backwards become the new baseline.
InspectLower(p) ==
    /\ phase = "run" /\ arm[p] = "armed" /\ p \notin tripped /\ ~Touched(p)
    /\ file[p] /= baseline[p]
    /\ baseline' = [baseline EXCEPT ![p] = file[p]]
    /\ UNCHANGED <<file, arm, before, tripped, touched, caught, lanes, phase, flushing, recorded, reported>>

-----------------------------------------------------------------------------
(* Shutdown.                                                               *)

\* watcher.close(), then flush() on both lanes.
Flush ==
    /\ phase = "run" /\ phase' = "flush" /\ flushing' = Tiers
    /\ budget' = [t \in Tiers |-> FlushAttempts]
    /\ lane' = [t \in Tiers |-> IF lane[t] = "idle" /\ queue[t] /= <<>> THEN "post" ELSE lane[t]]
    /\ attempts' = [t \in Tiers |-> IF lane[t] = "idle" /\ queue[t] /= <<>> THEN 1 ELSE attempts[t]]
    /\ UNCHANGED <<watcher, queue, recorded, reported>>

\* The drain has ended: the lane's flush() returns.
LaneFlushed(t) ==
    /\ t \in flushing /\ lane[t] = "idle"
    /\ flushing' = flushing \ {t}
    /\ budget' = [budget EXCEPT ![t] = 0]
    /\ UNCHANGED <<watcher, queue, lane, attempts, phase, recorded, reported>>

\* reporter.stop() and exit; "delivered" is that nothing is pending.
Exit ==
    /\ phase = "flush" /\ flushing = {} /\ phase' = "exit"
    /\ lane' = [t \in Tiers |-> "idle"]
    /\ UNCHANGED <<watcher, queue, attempts, budget, flushing, recorded, reported>>

-----------------------------------------------------------------------------
Others ==
    \E p \in Paths :
        ReadFile(p) \/ WriteFile(p) \/ ReplaceFile(p) \/ DeleteFile(p) \/ PrimeFile(p)
Arm(p) == ArmRead(p) \/ ArmStat(p) \/ ArmPrime(p) \/ ArmBaseline(p)

HoneytokenNext ==
    \/ Others
    \/ \E p \in Paths : Arm(p) \/ Inspect(p) \/ InspectLower(p)
    \/ \E c \in Calls : ReportCall(c)
    \/ \E t \in Tiers : PostLands(t) \/ PostFails(t) \/ Wake(t) \/ LaneFlushed(t)
    \/ Flush \/ Exit

HoneytokenSpec == HoneytokenInit /\ [][HoneytokenNext]_honeytokenVars

\* The poller runs, a request and a backoff end, and a control plane that is
\* asked to kill again and again answers; nothing is assumed of alerts.
HoneytokenFairSpec ==
    /\ HoneytokenSpec
    /\ \A p \in Paths : WF_honeytokenVars(Inspect(p))
    /\ \A t \in Tiers : WF_honeytokenVars(PostLands(t) \/ PostFails(t)) /\ WF_honeytokenVars(Wake(t))
                        /\ WF_honeytokenVars(LaneFlushed(t))
    /\ WF_honeytokenVars(Exit)
    /\ SF_honeytokenVars(PostLands("kill"))

-----------------------------------------------------------------------------
(* Properties.                                                             *)

Stats == [ino : -1 .. 1, atime : -1 .. 1, mtime : -1 .. 1]

\* The shape of the state; a queue holds a trip once.
HoneytokenTypeOK ==
    /\ file \in [Paths -> Stats] /\ baseline \in [Paths -> Stats]
    /\ arm \in [Paths -> {"no", "read", "stat", "primed", "armed"}]
    /\ before \in [Paths -> 0 .. 1]
    /\ tripped \subseteq Paths /\ touched \subseteq Paths /\ caught \subseteq Paths
    /\ \A t \in Tiers : IsInjective(queue[t]) /\ Range(queue[t]) \subseteq {x \in Trips : Tier(x) = t}
    /\ lane \in [Tiers -> {"idle", "post", "wait"}]
    /\ attempts \in [Tiers -> 0 .. FlushAttempts] /\ budget \in [Tiers -> {0, FlushAttempts}]
    /\ phase \in {"run", "flush", "exit"} /\ flushing \subseteq Tiers
    /\ recorded \subseteq Trips /\ reported \subseteq Trips

\* Arming does not trip its own wire: a path trips only if another process
\* touched it after arm() began.
NoFalseTrip == tripped \subseteq touched

\* A trip that was reported is on its lane until the control plane has recorded
\* it, so that an exit that counts nothing pending leaves no evidence behind.
NothingIsDropped == \A trip \in reported \ recorded : trip \in Range(queue[Tier(trip)])

\* While the process runs a lane with something to deliver is being drained,
\* and no other.
LaneIsDrained == phase = "run" => \A t \in Tiers : queue[t] /= <<>> <=> lane[t] /= "idle"

\* The shape of the state, what armed files saw, and where the trips are.
HoneytokenInv == HoneytokenTypeOK /\ NoFalseTrip /\ NothingIsDropped /\ LaneIsDrained

\* Every touch of an armed file trips, if the file was left alone while it was
\* being armed, unless the process shuts down or another primer hides the touch.
TouchTrips ==
    \A p \in Paths : p \in caught ~> p \in tripped \/ p \notin caught \/ phase /= "run"

\* A kill is delivered, whatever becomes of the alerts, or the process exits.
KillIsDelivered ==
    \A trip \in {x \in Trips : Tier(x) = "kill"} :
        trip \in reported ~> trip \in recorded \/ phase = "exit"
=============================================================================
