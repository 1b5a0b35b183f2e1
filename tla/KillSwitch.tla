----------------------------- MODULE KillSwitch -----------------------------
(***************************************************************************)
(* The kill switch of the control plane and the file store under it        *)
(* (packages/control-plane/src/kill.ts and kill-state.ts).                 *)
(*                                                                         *)
(* A transition (engage, engageAgent, restore, restoreAgent) changes the   *)
(* in-memory state and then runs persist() to its end.  The Node process   *)
(* is single threaded and every file call is synchronous, so no other      *)
(* transition runs in between, but the process can die and the power can   *)
(* fail between any two file calls: persist() is therefore one action per  *)
(* file-system effect, driven by `pc', and Crash and PowerCut are enabled  *)
(* at each of them.  A transition is answered when pc is back to "idle".   *)
(*                                                                         *)
(* The directory that holds the state file and its marker is modelled by   *)
(* what a restarted process reads (`disk') and by what a power cut may     *)
(* leave (`cut': every entry written since the last directory fsync may or *)
(* may not have reached the medium, each of the two entries on its own).   *)
(*                                                                         *)
(* Abstracted: reasons, sources, timestamps and the audit log; the JSON    *)
(* text of the state file (a file is missing, well-formed or not).         *)
(***************************************************************************)
EXTENDS Naturals, FiniteSets

CONSTANTS
    Ids,              \* agent ids a scoped kill may name
    Agents,           \* the ids that satisfy the agentId contract
    Ceremonies,       \* ids of completed 2GO ceremonies
    MaxKilledAgents,  \* MAX_KILLED_AGENTS
    MaxEpoch          \* bound on the kill epoch (model bound, not in the code)

ASSUME AgentsAssumption == Agents \subseteq Ids
ASSUME CapacityAssumption == MaxKilledAgents \in Nat \ {0}
ASSUME EpochAssumption == MaxEpoch \in Nat \ {0}

VARIABLES
    pc,                \* where the process is: dead, idle, or inside persist()
    killed,            \* killedState
    epoch,             \* epochCounter
    agents,            \* keys of agentKillMap
    consumed,          \* consumedCeremonies
    degraded,          \* degradedSince /= undefined
    quarantineFailed,  \* quarantineFailedState
    markerOk,          \* local of save() and degrade(): what ensureMarker gave
    disk,              \* the directory a restarted process reads
    cut,               \* the entries a power cut may leave
    acked,             \* history: the last state a transition answered with
    answering,         \* history: persist() runs for a transition, not for boot
    durable,           \* history: the last completed persist() reported no loss
    excused            \* history: the code gave up the promise before dying

memory == <<killed, epoch, agents, consumed, degraded, quarantineFailed>>
history == <<acked, answering, durable, excused>>
vars == <<pc, memory, markerOk, disk, cut, history>>

-----------------------------------------------------------------------------
(* The state file and its marker.                                          *)

File(st, k, e, A) == [st |-> st, killed |-> k, epoch |-> e, agents |-> A]
NoFile  == File("none", FALSE, 0, {})
BadFile == File("bad", FALSE, 0, {})

PersistedKillState ==
    [st : {"none", "bad", "ok"}, killed : BOOLEAN,
     epoch : 0..MaxEpoch, agents : SUBSET Agents]

\* What persist() writes: the whole in-memory state.
StateToSave == File("ok", killed, epoch, agents)

\* load(): "absent" only when neither file is there; a missing file beside
\* its marker, or a file that is not what save() writes, is "corrupt".
Outcome(marker, file) ==
    CASE file.st = "ok" -> "loaded"
      [] file.st = "none" /\ ~marker -> "absent"
      [] OTHER -> "corrupt"

\* fsyncDir() succeeded: what is visible is what survives a power cut.
Flushed(marker, file) == [markers |-> {marker}, files |-> {file}]

\* ensureMarker() returned r: the marker is there, or has been created.
EnsureMarker(r) ==
    \/ /\ disk.marker
       /\ r = TRUE
       /\ UNCHANGED <<disk, cut>>
    \/ /\ ~disk.marker               \* created, fsynced, directory fsynced
       /\ r = TRUE
       /\ disk' = [disk EXCEPT !.marker = TRUE]
       /\ cut' = Flushed(TRUE, disk.file)
    \/ /\ ~disk.marker               \* created, but the directory fsync failed
       /\ r = FALSE
       /\ disk' = [disk EXCEPT !.marker = TRUE]
       /\ cut' = [cut EXCEPT !.markers = @ \union {TRUE}]

EnsureMarkerThrows ==
    \/ UNCHANGED <<disk, cut>>       \* the marker could not be opened
    \/ /\ ~disk.marker               \* created, but its write or fsync failed
       /\ disk' = [disk EXCEPT !.marker = TRUE]
       /\ cut' = [cut EXCEPT !.markers = @ \union {TRUE}]

-----------------------------------------------------------------------------
(* Boot: the constructor of KillSwitch.                                    *)

FreshDisk == [marker |-> FALSE, file |-> NoFile]

\* A directory the deployment may start on: empty, or written by a release
\* older than the marker.
FirstDisks ==
    {FreshDisk} \union
    {[marker |-> FALSE, file |-> File("ok", k, 1, {})] : k \in BOOLEAN}

Init ==
    /\ pc = "down"
    /\ killed = FALSE /\ epoch = 0 /\ agents = {} /\ consumed = {}
    /\ degraded = FALSE /\ quarantineFailed = FALSE
    /\ markerOk = FALSE
    /\ disk \in FirstDisks
    /\ cut = Flushed(disk.marker, disk.file)
    /\ acked = [killed |-> disk.file.killed, epoch |-> disk.file.epoch,
                agents |-> disk.file.agents]
    /\ answering = FALSE /\ durable = FALSE /\ excused = FALSE

\* A new process: nothing consumed, nothing known to be wrong.
NewProcess ==
    /\ pc = "down"
    /\ UNCHANGED <<consumed, degraded, quarantineFailed, markerOk, history>>

BootAbsent ==
    /\ NewProcess
    /\ Outcome(disk.marker, disk.file) = "absent"
    /\ pc' = "idle"
    /\ killed' = FALSE /\ epoch' = 0 /\ agents' = {}
    /\ UNCHANGED <<disk, cut>>

\* load() heals a missing marker, best effort.
BootLoaded ==
    /\ NewProcess
    /\ Outcome(disk.marker, disk.file) = "loaded"
    /\ pc' = "idle"
    /\ killed' = disk.file.killed
    /\ epoch' = disk.file.epoch
    /\ agents' = disk.file.agents
    /\ \/ \E r \in BOOLEAN : EnsureMarker(r)
       \/ EnsureMarkerThrows

\* Untrusted state, or a state file that could not be opened or read this
\* time: the constructor calls engage() on its initial fields.
BootCorrupt ==
    /\ NewProcess
    /\ Outcome(disk.marker, disk.file) \in {"corrupt", "loaded"}
    /\ pc' = "save"
    /\ killed' = TRUE /\ epoch' = 1 /\ agents' = {}
    /\ UNCHANGED <<disk, cut>>

-----------------------------------------------------------------------------
(* Transitions.  Each changes memory and enters persist().                 *)

Persist ==
    /\ pc' = "save"
    /\ answering' = TRUE
    /\ UNCHANGED <<degraded, quarantineFailed, markerOk, disk, cut, durable, excused>>

EngageStep ==
    /\ epoch' = epoch + 1
    /\ killed' = TRUE
    /\ UNCHANGED <<agents, consumed, acked>>
    /\ Persist

Engage ==
    /\ pc = "idle" /\ epoch < MaxEpoch
    /\ EngageStep

\* Mutant: one agent too many fits the map.
EscalatesLate(id) ==
    \/ id \notin Agents
    \/ id \notin agents /\ Cardinality(agents) > MaxKilledAgents

\* Mutant: the id is not checked against the contract.
EscalatesUnchecked(id) ==
    id \notin agents /\ Cardinality(agents) >= MaxKilledAgents

\* An id outside the contract, or one more agent than the map may hold,
\* escalates to the global kill.
Escalates(id) ==
    \/ id \notin Agents
    \/ id \notin agents /\ Cardinality(agents) >= MaxKilledAgents

EngageAgent(id) ==
    /\ pc = "idle" /\ epoch < MaxEpoch
    /\ \/ Escalates(id) /\ EngageStep
       \/ /\ ~Escalates(id)
          /\ epoch' = epoch + 1
          /\ agents' = agents \union {id}
          /\ UNCHANGED <<killed, consumed, acked>>
          /\ Persist

\* postRestore answers 503 while stale state may survive a restart.
RestoreDenied == quarantineFailed

\* The owner has authorised the release: from here on the state file may say
\* so, whether or not the answer ever leaves the process.
Restore(c) ==
    /\ pc = "idle" /\ ~RestoreDenied
    /\ killed
    /\ c \notin consumed
    /\ consumed' = consumed \union {c}
    /\ killed' = FALSE
    /\ acked' = [acked EXCEPT !.killed = FALSE, !.agents = @ \intersect agents]
    /\ UNCHANGED <<epoch, agents>>
    /\ Persist

RestoreAgent(id, c) ==
    /\ pc = "idle" /\ ~RestoreDenied
    /\ id \in agents
    /\ c \notin consumed
    /\ consumed' = consumed \union {c}
    /\ agents' = agents \ {id}
    /\ acked' = [acked EXCEPT !.agents = @ \ {id}]
    /\ UNCHANGED <<killed, epoch>>
    /\ Persist

-----------------------------------------------------------------------------
(* persist(): save(), and degrade() when save() throws.                    *)

\* The marker before the state.
SaveMarker ==
    /\ pc = "save"
    /\ \/ \E r \in BOOLEAN : EnsureMarker(r) /\ markerOk' = r /\ pc' = "rename"
       \/ EnsureMarkerThrows /\ pc' = "degrade" /\ UNCHANGED markerOk
    /\ UNCHANGED <<memory, history>>

\* Temporary file, fsync, rename: all of it or an exception.
SaveRename ==
    /\ pc = "rename"
    /\ \/ /\ disk' = [disk EXCEPT !.file = StateToSave]
          /\ cut' = [cut EXCEPT !.files = @ \union {StateToSave}]
          /\ pc' = "fsync"
       \/ pc' = "degrade" /\ UNCHANGED <<disk, cut>>
    /\ UNCHANGED <<memory, markerOk, history>>

\* persist() is over: the transition is answered with what is in memory, or
\* the constructor returns and the server starts to listen.
Answer ==
    /\ pc' = "idle"
    /\ durable' = ~degraded'
    /\ \/ /\ answering
          /\ acked' = [killed |-> killed, epoch |-> epoch, agents |-> agents]
          /\ excused' = FALSE
       \/ ~answering /\ UNCHANGED <<acked, excused>>
    /\ markerOk' = FALSE /\ answering' = FALSE
    /\ UNCHANGED <<killed, epoch, agents, consumed>>

\* Mutant: a directory that could not be fsynced passes in silence.
SaveFsyncSilent ==
    /\ pc = "fsync"
    /\ \E ok \in BOOLEAN :
        cut' = IF ok THEN Flushed(disk.marker, disk.file) ELSE cut
    /\ degraded' = FALSE
    /\ quarantineFailed' = FALSE
    /\ UNCHANGED disk
    /\ Answer

SaveFsync ==
    /\ pc = "fsync"
    /\ \E ok \in BOOLEAN :
        /\ cut' = IF ok THEN Flushed(disk.marker, disk.file) ELSE cut
        /\ degraded' = ~(ok /\ markerOk)
    /\ quarantineFailed' = FALSE
    /\ UNCHANGED disk
    /\ Answer

\* degrade(): make the marker exist, whatever became of its fsync ...
DegradeMarker ==
    /\ pc = "degrade"
    /\ pc' = "unlink"
    /\ degraded' = TRUE
    /\ \/ \E r \in BOOLEAN : EnsureMarker(r)
       \/ EnsureMarkerThrows
    /\ markerOk' = disk'.marker
    /\ UNCHANGED <<killed, epoch, agents, consumed, quarantineFailed, history>>

\* ... and the state file not exist.  The directory is not fsynced here.
DegradeUnlink ==
    /\ pc = "unlink"
    /\ pc' = "quarantine"
    /\ \/ /\ disk' = [disk EXCEPT !.file = NoFile]
          /\ cut' = [cut EXCEPT !.files = @ \union {NoFile}]
       \/ UNCHANGED <<disk, cut>>
    /\ UNCHANGED <<memory, markerOk, history>>

\* Mutant: removing the state file is taken for a quarantine.
QuarantinedUnmarked == disk.file.st = "none"

\* degrade()'s result.
Quarantined == markerOk /\ disk.file.st = "none"

DegradeReturn ==
    /\ pc = "quarantine"
    /\ quarantineFailed' = ~Quarantined
    /\ UNCHANGED <<degraded, disk, cut>>
    /\ Answer

-----------------------------------------------------------------------------
(* The environment: process death, power loss, damage to the state file.   *)

\* persist() has removed the state file and could not make the marker, and
\* quarantineFailed does not say so yet.
Unmarked == pc = "quarantine" /\ ~markerOk

Die ==
    /\ pc' = "down"
    /\ killed' = FALSE /\ epoch' = 0 /\ agents' = {} /\ consumed' = {}
    /\ degraded' = FALSE /\ quarantineFailed' = FALSE
    /\ markerOk' = FALSE /\ answering' = FALSE
    /\ UNCHANGED <<acked, durable>>

Crash ==
    /\ pc /= "down"
    /\ excused' = (excused \/ quarantineFailed \/ Unmarked)
    /\ UNCHANGED <<disk, cut>>
    /\ Die

PowerCut ==
    /\ \E m \in cut.markers, f \in cut.files :
        /\ disk' = [marker |-> m, file |-> f]
        /\ cut' = Flushed(m, f)
    /\ excused' = (excused \/ ~durable)
    /\ Die

Damage(file) ==
    /\ disk' = [disk EXCEPT !.file = file]
    /\ cut' = [cut EXCEPT !.files = @ \union {file}]
    /\ UNCHANGED <<pc, memory, markerOk, history>>

\* The state file is overwritten with something else, or can never be read.
Rot == disk.file.st = "ok" /\ Damage(BadFile)

\* The state file of an initialised store is deleted or moved away.
Vanish == disk.file.st /= "none" /\ disk.marker /\ Damage(NoFile)

-----------------------------------------------------------------------------
Boot == BootAbsent \/ BootLoaded \/ BootCorrupt

Transition ==
    \/ Engage
    \/ \E id \in Ids : EngageAgent(id)
    \/ \E c \in Ceremonies : Restore(c)
    \/ \E id \in Agents, c \in Ceremonies : RestoreAgent(id, c)

PersistStep ==
    \/ SaveMarker \/ SaveRename \/ SaveFsync
    \/ DegradeMarker \/ DegradeUnlink \/ DegradeReturn

Environment == Crash \/ PowerCut \/ Rot \/ Vanish

Next == Boot \/ Transition \/ PersistStep \/ Environment

Spec == Init /\ [][Next]_vars

-----------------------------------------------------------------------------
(* Properties.                                                             *)

FlagsOK ==
    /\ killed \in BOOLEAN /\ degraded \in BOOLEAN /\ quarantineFailed \in BOOLEAN
    /\ markerOk \in BOOLEAN
    /\ answering \in BOOLEAN /\ durable \in BOOLEAN /\ excused \in BOOLEAN

MemoryOK ==
    /\ pc \in {"down", "idle", "save", "rename", "fsync",
               "degrade", "unlink", "quarantine"}
    /\ epoch \in 0..MaxEpoch
    /\ agents \in SUBSET Agents
    /\ consumed \in SUBSET Ceremonies

StoreOK ==
    /\ disk \in [marker : BOOLEAN, file : PersistedKillState]
    /\ cut \in [markers : SUBSET BOOLEAN, files : SUBSET PersistedKillState]
    /\ acked \in [killed : BOOLEAN, epoch : 0..MaxEpoch, agents : SUBSET Agents]

\* The types of the variables: the switch records valid agent ids only, and
\* the store never holds a file with another.
TypeOK == FlagsOK /\ MemoryOK /\ StoreOK

\* A process booted from this directory comes up globally killed.
BootsKilled(marker, file) ==
    \/ Outcome(marker, file) = "corrupt"
    \/ Outcome(marker, file) = "loaded" /\ file.killed

\* A process booted from this directory denies all that the kill state
\* (k, A) denies: everything, or the agents in A.
Covers(marker, file, k, A) ==
    BootsKilled(marker, file) \/ (~k /\ A \subseteq file.agents)

\* Between two transitions, whatever the running switch denies, globally or
\* by scope, a restarted process denies too, unless quarantineFailed says it
\* may not: a failed save is either quarantined or reported.
RestartKeepsDenial ==
    pc = "idle" /\ ~quarantineFailed =>
        Covers(disk.marker, disk.file, killed, agents)

\* An answered kill, global or scoped, holds through any number of crashes,
\* power cuts, failed saves and damaged files until an owner's restore,
\* unless the code had reported (quarantineFailed before a crash,
\* persistenceDegraded before a power cut) that it might not.
KillSticks ==
    pc = "idle" /\ ~excused =>
        killed \/ (~acked.killed /\ acked.agents \subseteq agents)

\* The scoped-kill map never outgrows what load() accepts back: a state file
\* this code wrote is never refused for its number of agents.
CapacityHolds ==
    /\ Cardinality(agents) <= MaxKilledAgents
    /\ \A f \in cut.files \union {disk.file} :
        Cardinality(f.agents) <= MaxKilledAgents

-----------------------------------------------------------------------------
(* The promise of the switch, and that this module keeps it.               *)

Promise ==
    INSTANCE Switch WITH
        phase <- CASE pc = "idle" -> "up" [] pc = "down" -> "down" [] OTHER -> "busy",
        denies <- IF pc = "idle" THEN [all |-> killed, agents |-> agents]
                  ELSE [all |-> FALSE, agents |-> {}],
        promised <- [all |-> acked.killed, agents |-> acked.agents],
        warned <- ~durable,
        forfeit <- excused

\* The switch over its file store implements the switch that only promises:
\* every file call is invisible, a promise is taken back by an owner's restore
\* and by nothing else, and a new process denies at least what was promised.
KeepsPromise == Promise!Spec
=============================================================================
