-------------------------- MODULE KillSwitchProofs --------------------------
(***************************************************************************)
(* Proofs that the kill switch keeps what it denies across restarts, for   *)
(* every set of agents, capacity and bound on the epoch.                   *)
(***************************************************************************)
EXTENDS KillSwitch, FiniteSetTheorems, TLAPS

-----------------------------------------------------------------------------
(* The inductive invariant.                                                *)

\* A file that is not there names no agents.
FilesWellFormed ==
    \A f \in cut.files \union {disk.file} : f.st = "none" => f.agents = {}

\* What is visible is one of the things a power cut may leave.
VisibleMaySurvive == disk.marker \in cut.markers /\ disk.file \in cut.files

\* The marker precedes the state; degrade() runs with the degradation flagged
\* and knows whether the marker is there.
MarkerFirst ==
    /\ pc \in {"rename", "fsync"} => disk.marker
    /\ pc \in {"unlink", "quarantine"} => degraded /\ markerOk = disk.marker

\* Once a persist() was durable the marker is on the medium for good.
MarkerDurable == durable => disk.marker /\ cut.markers = {TRUE}

\* What save() published and has not fsynced yet is the memory's state.
PublishedIsCurrent ==
    pc = "fsync" => Covers(disk.marker, disk.file, killed, agents)

\* A dead process reports nothing.
DeadForgets == pc = "down" => ~quarantineFailed

\* The running process denies what it owes.
RunningPays ==
    pc /= "down" /\ ~excused =>
        killed \/ (~acked.killed /\ acked.agents \subseteq agents)

\* The directory (marker, file) boots into a process that denies what is owed.
Pays(marker, file) == Covers(marker, file, acked.killed, acked.agents)

\* A restart from the visible directory pays, and so does one after a crash.
DiskPays ==
    ~excused /\ ~quarantineFailed /\ ~Unmarked => Pays(disk.marker, disk.file)

\* After a durable persist() every directory a power cut may leave pays.
CutPays ==
    ~excused /\ durable =>
        \A m \in cut.markers, f \in cut.files : Pays(m, f)

\* The shape of the directory, apart from what it says.
StoreInv ==
    FilesWellFormed /\ VisibleMaySurvive /\ MarkerFirst /\ MarkerDurable /\ DeadForgets

\* The inductive invariant: the directory's shape, and the debt paid by the
\* running process, by a restart and by a power cut.
IInv ==
    /\ TypeOK
    /\ StoreInv
    /\ PublishedIsCurrent
    /\ RestartKeepsDenial
    /\ RunningPays
    /\ DiskPays
    /\ CutPays

-----------------------------------------------------------------------------
(* Facts about the operators of the model.                                 *)

\* The three kinds of file a directory may hold boot as load() says.
LEMMA CoversByKind ==
    ASSUME NEW f \in PersistedKillState, NEW m \in BOOLEAN,
           NEW k \in BOOLEAN, NEW A
    PROVE  /\ f.st = "ok" =>
               (Covers(m, f, k, A) <=> (f.killed \/ (~k /\ A \subseteq f.agents)))
           /\ f.st = "bad" => Covers(m, f, k, A)
           /\ f.st = "none" /\ m => Covers(m, f, k, A)
           /\ f.st = "none" /\ ~m =>
               (Covers(m, f, k, A) <=> (~k /\ A \subseteq f.agents))
  BY DEF Covers, BootsKilled, Outcome, PersistedKillState

\* What a directory covers it covers with the marker added.
LEMMA MarkerHelps ==
    ASSUME NEW f \in PersistedKillState, NEW m \in BOOLEAN,
           NEW k \in BOOLEAN, NEW A, Covers(m, f, k, A)
    PROVE  Covers(TRUE, f, k, A)
  BY DEF Covers, BootsKilled, Outcome, PersistedKillState

\* The files the code writes and the environment leaves are of the type.
LEMMA FilesTyped ==
    /\ NoFile \in PersistedKillState
    /\ BadFile \in PersistedKillState
    /\ TypeOK => StateToSave \in PersistedKillState
  BY EpochAssumption DEF PersistedKillState, TypeOK, FlagsOK, MemoryOK,
                         File, NoFile, BadFile, StateToSave

\* ensureMarker() touches the marker only: it leaves the directory as it is,
\* or adds the marker, with or without the directory fsync.
EnsuredMarker ==
    \/ disk' = disk /\ cut' = cut
    \/ /\ ~disk.marker
       /\ disk' = [marker |-> TRUE, file |-> disk.file]
       /\ \/ cut' = [markers |-> {TRUE}, files |-> {disk.file}]
          \/ cut' = [markers |-> cut.markers \union {TRUE}, files |-> cut.files]

\* Whatever ensureMarker() returns or throws, the directory changes in one of
\* the ways EnsuredMarker lists.
LEMMA MarkerEffect ==
    ASSUME StoreOK, (\E r \in BOOLEAN : EnsureMarker(r)) \/ EnsureMarkerThrows
    PROVE  EnsuredMarker
  <1>1. ASSUME NEW r \in BOOLEAN, EnsureMarker(r) PROVE EnsuredMarker
    BY <1>1 DEF StoreOK, EnsureMarker, EnsuredMarker, Flushed
  <1>2. CASE EnsureMarkerThrows
    BY <1>2 DEF StoreOK, EnsureMarkerThrows, EnsuredMarker
  <1> QED BY <1>1, <1>2

\* Every one of those ways leaves a directory of the type.
LEMMA MarkerTyped ==
    ASSUME StoreOK, EnsuredMarker, acked' = acked
    PROVE  StoreOK'
  <1>1. CASE disk' = disk /\ cut' = cut
    BY <1>1 DEF StoreOK
  <1>2. CASE disk' = [marker |-> TRUE, file |-> disk.file]
    <2>1. disk' \in [marker : BOOLEAN, file : PersistedKillState]
      BY <1>2 DEF StoreOK
    <2>2. CASE cut' = [markers |-> {TRUE}, files |-> {disk.file}]
      BY <2>1, <2>2 DEF StoreOK
    <2>3. CASE cut' = [markers |-> cut.markers \union {TRUE}, files |-> cut.files]
      BY <2>1, <2>3 DEF StoreOK
    <2>4. CASE disk' = disk /\ cut' = cut
      BY <2>4, <1>1
    <2> QED BY <2>2, <2>3, <2>4 DEF EnsuredMarker
  <1> QED BY <1>1, <1>2 DEF EnsuredMarker

-----------------------------------------------------------------------------
(* Type correctness.                                                       *)

\* The first process finds well-typed state (the constructor of KillSwitch).
LEMMA TypeInit == Init => TypeOK
  <1> SUFFICES ASSUME Init PROVE TypeOK
    OBVIOUS
  <1>1. disk \in [marker : BOOLEAN, file : PersistedKillState]
    <2>1. CASE disk = FreshDisk
      BY <2>1, FilesTyped DEF FreshDisk
    <2>2. CASE \E k \in BOOLEAN :
                 disk = [marker |-> FALSE, file |-> File("ok", k, 1, {})]
      BY <2>2, EpochAssumption DEF PersistedKillState, File
    <2> QED BY <2>1, <2>2 DEF Init, FirstDisks
  <1>2. StoreOK
    BY <1>1 DEF Init, StoreOK, PersistedKillState, Flushed
  <1>3. FlagsOK
    BY DEF Init, FlagsOK
  <1>4. MemoryOK
    BY EpochAssumption DEF Init, MemoryOK
  <1> QED BY <1>2, <1>3, <1>4 DEF TypeOK

\* Every boot, transition, persist step and failure keeps the types.
LEMMA TypeStep == TypeOK /\ [Next]_vars => TypeOK'
  <1> SUFFICES ASSUME TypeOK, [Next]_vars PROVE TypeOK'
    OBVIOUS
  <1> USE EpochAssumption DEF TypeOK, memory, history
  <1>a. CASE Boot
    <2>1. CASE BootAbsent
      <3>1. FlagsOK'
        BY <2>1 DEF FlagsOK, BootAbsent, NewProcess
      <3>2. MemoryOK'
        BY <2>1 DEF MemoryOK, BootAbsent, NewProcess
      <3>3. StoreOK'
        BY <2>1 DEF FlagsOK, MemoryOK, StoreOK, BootAbsent, NewProcess
      <3> QED BY <3>1, <3>2, <3>3
    <2>2. CASE BootLoaded
      <3>0. EnsuredMarker
        BY <2>2, MarkerEffect DEF BootLoaded
      <3>1. FlagsOK'
        BY <2>2 DEF FlagsOK, StoreOK, PersistedKillState, BootLoaded, NewProcess
      <3>2. MemoryOK'
        BY <2>2 DEF MemoryOK, StoreOK, PersistedKillState, BootLoaded, NewProcess
      <3>3. StoreOK'
        BY <2>2, <3>0, MarkerTyped DEF BootLoaded, NewProcess
      <3> QED BY <3>1, <3>2, <3>3
    <2>3. CASE BootCorrupt
      <3>1. FlagsOK'
        BY <2>3 DEF FlagsOK, BootCorrupt, NewProcess
      <3>2. MemoryOK'
        BY <2>3 DEF MemoryOK, BootCorrupt, NewProcess
      <3>3. StoreOK'
        BY <2>3 DEF FlagsOK, MemoryOK, StoreOK, BootCorrupt, NewProcess
      <3> QED BY <3>1, <3>2, <3>3
    <2> QED BY <1>a, <2>1, <2>2, <2>3 DEF Boot
  <1>b. CASE Transition
    <2>1. CASE Engage
      <3>1. FlagsOK'
        BY <2>1 DEF FlagsOK, Engage, EngageStep, Persist
      <3>2. MemoryOK'
        BY <2>1 DEF MemoryOK, Engage, EngageStep, Persist
      <3>3. StoreOK'
        BY <2>1 DEF FlagsOK, MemoryOK, StoreOK, Engage, EngageStep, Persist
      <3> QED BY <3>1, <3>2, <3>3
    <2>2. ASSUME NEW id \in Ids, EngageAgent(id)
          PROVE  TypeOK'
      <3>1. FlagsOK'
        BY <2>2 DEF FlagsOK, EngageAgent, Escalates, EngageStep, Persist
      <3>2. MemoryOK'
        BY <2>2 DEF MemoryOK, EngageAgent, Escalates, EngageStep, Persist
      <3>3. StoreOK'
        BY <2>2 DEF FlagsOK, MemoryOK, StoreOK, EngageAgent, Escalates, EngageStep, Persist
      <3> QED BY <3>1, <3>2, <3>3
    <2>3. ASSUME NEW c \in Ceremonies, Restore(c)
          PROVE  TypeOK'
      <3>1. FlagsOK'
        BY <2>3 DEF FlagsOK, Restore, Persist
      <3>2. MemoryOK'
        BY <2>3 DEF MemoryOK, Restore, Persist
      <3>3. StoreOK'
        BY <2>3 DEF FlagsOK, MemoryOK, StoreOK, Restore, Persist
      <3> QED BY <3>1, <3>2, <3>3
    <2>4. ASSUME NEW id \in Agents, NEW c \in Ceremonies, RestoreAgent(id, c)
          PROVE  TypeOK'
      <3>1. FlagsOK'
        BY <2>4 DEF FlagsOK, RestoreAgent, Persist
      <3>2. MemoryOK'
        BY <2>4 DEF MemoryOK, RestoreAgent, Persist
      <3>3. StoreOK'
        BY <2>4 DEF FlagsOK, MemoryOK, StoreOK, RestoreAgent, Persist
      <3> QED BY <3>1, <3>2, <3>3
    <2> QED BY <1>b, <2>1, <2>2, <2>3, <2>4 DEF Transition
  <1>c. CASE PersistStep
    <2>1. CASE SaveMarker
      <3>0. EnsuredMarker
        BY <2>1, MarkerEffect DEF SaveMarker
      <3>1. FlagsOK'
        BY <2>1 DEF FlagsOK, SaveMarker
      <3>2. MemoryOK'
        BY <2>1 DEF MemoryOK, SaveMarker
      <3>3. StoreOK'
        BY <2>1, <3>0, MarkerTyped DEF SaveMarker
      <3> QED BY <3>1, <3>2, <3>3
    <2>2. CASE SaveRename
      <3>1. FlagsOK'
        BY <2>2 DEF FlagsOK, SaveRename
      <3>2. MemoryOK'
        BY <2>2 DEF MemoryOK, SaveRename
      <3>3. StoreOK'
        BY <2>2, FilesTyped DEF FlagsOK, MemoryOK, StoreOK, SaveRename
      <3> QED BY <3>1, <3>2, <3>3
    <2>3. CASE SaveFsync
      <3>1. FlagsOK'
        BY <2>3 DEF FlagsOK, SaveFsync, Answer
      <3>2. MemoryOK'
        BY <2>3 DEF MemoryOK, SaveFsync, Answer
      <3>3. StoreOK'
        BY <2>3 DEF FlagsOK, MemoryOK, StoreOK, SaveFsync, Answer, Flushed
      <3> QED BY <3>1, <3>2, <3>3
    <2>4. CASE DegradeMarker
      <3>0. EnsuredMarker
        BY <2>4, MarkerEffect DEF DegradeMarker
      <3>1. StoreOK'
        BY <2>4, <3>0, MarkerTyped DEF DegradeMarker
      <3>2. FlagsOK'
        BY <2>4, <3>1 DEF FlagsOK, StoreOK, DegradeMarker
      <3>3. MemoryOK'
        BY <2>4 DEF MemoryOK, DegradeMarker
      <3> QED BY <3>1, <3>2, <3>3
    <2>5. CASE DegradeUnlink
      <3>1. FlagsOK'
        BY <2>5 DEF FlagsOK, DegradeUnlink
      <3>2. MemoryOK'
        BY <2>5 DEF MemoryOK, DegradeUnlink
      <3>3. StoreOK'
        BY <2>5, FilesTyped DEF FlagsOK, MemoryOK, StoreOK, DegradeUnlink
      <3> QED BY <3>1, <3>2, <3>3
    <2>6. CASE DegradeReturn
      <3>1. FlagsOK'
        BY <2>6 DEF FlagsOK, DegradeReturn, Answer, Quarantined
      <3>2. MemoryOK'
        BY <2>6 DEF MemoryOK, DegradeReturn, Answer, Quarantined
      <3>3. StoreOK'
        BY <2>6 DEF FlagsOK, MemoryOK, StoreOK, DegradeReturn, Answer, Quarantined
      <3> QED BY <3>1, <3>2, <3>3
    <2> QED BY <1>c, <2>1, <2>2, <2>3, <2>4, <2>5, <2>6 DEF PersistStep
  <1>d. CASE Environment
    <2>1. CASE Crash
      <3>1. FlagsOK'
        BY <2>1 DEF FlagsOK, Crash, Die, Unmarked
      <3>2. MemoryOK'
        BY <2>1 DEF MemoryOK, Crash, Die, Unmarked
      <3>3. StoreOK'
        BY <2>1 DEF FlagsOK, MemoryOK, StoreOK, Crash, Die, Unmarked
      <3> QED BY <3>1, <3>2, <3>3
    <2>2. CASE PowerCut
      <3>1. FlagsOK'
        BY <2>2 DEF FlagsOK, PowerCut, Die
      <3>2. MemoryOK'
        BY <2>2 DEF MemoryOK, PowerCut, Die
      <3>3. StoreOK'
        BY <2>2 DEF FlagsOK, MemoryOK, StoreOK, PowerCut, Die, Flushed
      <3> QED BY <3>1, <3>2, <3>3
    <2>3. CASE Rot
      <3>1. FlagsOK'
        BY <2>3 DEF FlagsOK, Rot, Damage
      <3>2. MemoryOK'
        BY <2>3 DEF MemoryOK, Rot, Damage
      <3>3. StoreOK'
        BY <2>3, FilesTyped DEF FlagsOK, MemoryOK, StoreOK, Rot, Damage
      <3> QED BY <3>1, <3>2, <3>3
    <2>4. CASE Vanish
      <3>1. FlagsOK'
        BY <2>4 DEF FlagsOK, Vanish, Damage
      <3>2. MemoryOK'
        BY <2>4 DEF MemoryOK, Vanish, Damage
      <3>3. StoreOK'
        BY <2>4, FilesTyped DEF FlagsOK, MemoryOK, StoreOK, Vanish, Damage
      <3> QED BY <3>1, <3>2, <3>3
    <2> QED BY <1>d, <2>1, <2>2, <2>3, <2>4 DEF Environment
  <1>e. CASE UNCHANGED vars
    <2>1. FlagsOK'
      BY <1>e DEF vars, FlagsOK
    <2>2. MemoryOK' /\ StoreOK'
      BY <1>e DEF vars, MemoryOK, StoreOK
    <2> QED BY <2>1, <2>2
  <1> QED BY <1>a, <1>b, <1>c, <1>d, <1>e DEF Next

\* The kill switch and its store keep their types, whatever fails.
THEOREM TypeCorrect == Spec => []TypeOK
  BY TypeInit, TypeStep, PTL DEF Spec

-----------------------------------------------------------------------------
(* The shape of the directory.                                             *)

\* A directory a deployment starts on has the shape of the store's invariant.
LEMMA StoreInit == Init => StoreInv
  <1> SUFFICES ASSUME Init PROVE StoreInv
    OBVIOUS
  <1>1. disk.file.st = "none" => disk.file.agents = {}
    BY DEF Init, FirstDisks, FreshDisk, NoFile, File
  <1>2. cut.markers = {disk.marker} /\ cut.files = {disk.file}
    BY DEF Init, Flushed
  <1> QED
    BY <1>1, <1>2 DEF Init, StoreInv, FilesWellFormed, VisibleMaySurvive,
                      MarkerFirst, MarkerDurable, DeadForgets

\* No file call of save(), degrade() or load(), and no failure between two of
\* them, breaks the shape of the directory.
LEMMA StoreStep == TypeOK /\ StoreInv /\ [Next]_vars => StoreInv'
  <1> SUFFICES ASSUME TypeOK, StoreInv, [Next]_vars PROVE StoreInv'
    OBVIOUS
  <1> USE DEF TypeOK, StoreInv, memory, history
  \* Steps that leave the directory alone.
  <1>1. ASSUME UNCHANGED <<disk, cut>>,
               durable' => durable,
               pc' \in {"rename", "fsync"} => disk.marker,
               pc' \in {"unlink", "quarantine"} => degraded' /\ markerOk' = disk.marker,
               pc' = "down" => ~quarantineFailed'
        PROVE  StoreInv'
    BY <1>1 DEF FilesWellFormed, VisibleMaySurvive, MarkerFirst, MarkerDurable,
                DeadForgets
  \* Steps that ensure the marker.
  <1>2. ASSUME EnsuredMarker, durable' = durable,
               pc' \in {"rename", "fsync"} => disk'.marker,
               pc' \in {"unlink", "quarantine"} => degraded' /\ markerOk' = disk'.marker,
               pc' /= "down"
        PROVE  StoreInv'
    <2>1. CASE disk' = disk /\ cut' = cut
      BY <1>2, <2>1 DEF FilesWellFormed, VisibleMaySurvive, MarkerFirst,
                        MarkerDurable, DeadForgets
    <2>2. CASE /\ ~disk.marker
               /\ disk' = [marker |-> TRUE, file |-> disk.file]
               /\ \/ cut' = [markers |-> {TRUE}, files |-> {disk.file}]
                  \/ cut' = [markers |-> cut.markers \union {TRUE},
                             files |-> cut.files]
      <3>1. ~durable'
        BY <1>2, <2>2 DEF MarkerDurable
      <3>2. disk'.file = disk.file /\ disk'.marker = TRUE
        BY <2>2
      <3>3. TRUE \in cut'.markers /\ disk.file \in cut'.files
            /\ cut'.files \subseteq cut.files
        <4>1. CASE cut' = [markers |-> {TRUE}, files |-> {disk.file}]
          <5>1. cut'.markers = {TRUE} /\ cut'.files = {disk.file}
            BY <4>1
          <5> QED BY <5>1 DEF VisibleMaySurvive
        <4>2. CASE cut' = [markers |-> cut.markers \union {TRUE},
                           files |-> cut.files]
          <5>1. cut'.markers = cut.markers \union {TRUE} /\ cut'.files = cut.files
            BY <4>2
          <5> QED BY <5>1 DEF VisibleMaySurvive
        <4> QED BY <2>2, <4>1, <4>2
      <3> QED
        BY <1>2, <3>1, <3>2, <3>3 DEF FilesWellFormed, VisibleMaySurvive, MarkerFirst,
                                MarkerDurable, DeadForgets
    <2> QED BY <1>2, <2>1, <2>2 DEF EnsuredMarker
  \* Steps that put another file in the directory.
  <1>3. ASSUME NEW f \in PersistedKillState, f.st = "none" => f.agents = {},
               disk' = [disk EXCEPT !.file = f],
               cut' = [cut EXCEPT !.files = @ \union {f}],
               durable' = durable, quarantineFailed' = quarantineFailed,
               pc' \in {"rename", "fsync"} => disk.marker,
               pc' \in {"unlink", "quarantine"} => degraded' /\ markerOk' = disk.marker,
               pc' = "down" => pc = "down"
        PROVE  StoreInv'
    <2>1. disk'.file = f /\ disk'.marker = disk.marker
          /\ cut'.files = cut.files \union {f} /\ cut'.markers = cut.markers
      BY <1>3 DEF StoreOK
    <2> QED
      BY <1>3, <2>1 DEF FilesWellFormed, VisibleMaySurvive, MarkerFirst,
                        MarkerDurable, DeadForgets
  <1>a. CASE Boot
    <2>1. CASE BootAbsent
      BY <2>1, <1>1 DEF BootAbsent, NewProcess
    <2>2. CASE BootLoaded
      BY <2>2, <1>2, MarkerEffect DEF BootLoaded, NewProcess
    <2>3. CASE BootCorrupt
      BY <2>3, <1>1 DEF BootCorrupt, NewProcess
    <2> QED BY <1>a, <2>1, <2>2, <2>3 DEF Boot
  <1>b. CASE Transition
    <2>1. pc' = "save" /\ UNCHANGED <<disk, cut, durable>>
      BY <1>b DEF Transition, Engage, EngageAgent, Restore, RestoreAgent,
                  EngageStep, Persist
    <2> QED BY <2>1, <1>1
  <1>c. CASE PersistStep
    <2>1. CASE SaveMarker
      <3>1. pc' = "rename" => disk'.marker
        BY <2>1 DEF SaveMarker, EnsureMarker, StoreOK
      <3> QED BY <2>1, <3>1, <1>2, MarkerEffect DEF SaveMarker
    <2>2. CASE SaveRename
      <3>1. disk.marker
        BY <2>2 DEF SaveRename, MarkerFirst
      <3>2. StateToSave \in PersistedKillState /\ StateToSave.st = "ok"
        BY FilesTyped DEF StateToSave, File
      <3> QED BY <2>2, <3>1, <3>2, <1>1, <1>3 DEF SaveRename
    <2>3. CASE SaveFsync
      <3>1. disk.marker
        BY <2>3 DEF SaveFsync, MarkerFirst
      <3>2. PICK ok \in BOOLEAN :
              /\ cut' = IF ok THEN Flushed(disk.marker, disk.file) ELSE cut
              /\ degraded' = ~(ok /\ markerOk)
        BY <2>3 DEF SaveFsync
      <3>3. pc' = "idle" /\ disk' = disk /\ durable' = ~degraded'
        BY <2>3 DEF SaveFsync, Answer
      <3>4. CASE ok
        <4>1. cut'.markers = {disk.marker} /\ cut'.files = {disk.file}
          BY <3>2, <3>4 DEF Flushed
        <4>2. disk.marker = TRUE
          BY <3>1 DEF StoreOK
        <4> QED
          BY <3>3, <4>1, <4>2 DEF FilesWellFormed, VisibleMaySurvive, MarkerFirst,
                                  MarkerDurable, DeadForgets
      <3>5. CASE ~ok
        BY <3>2, <3>3, <3>5, <1>1
      <3> QED BY <3>4, <3>5
    <2>4. CASE DegradeMarker
      BY <2>4, <1>2, MarkerEffect DEF DegradeMarker
    <2>5. CASE DegradeUnlink
      <3>1. degraded /\ markerOk = disk.marker
        BY <2>5 DEF DegradeUnlink, MarkerFirst
      <3>2. NoFile \in PersistedKillState /\ NoFile.agents = {}
        BY FilesTyped DEF NoFile, File
      <3> QED BY <2>5, <3>1, <3>2, <1>1, <1>3 DEF DegradeUnlink
    <2>6. CASE DegradeReturn
      BY <2>6, <1>1 DEF DegradeReturn, Answer, MarkerFirst
    <2> QED BY <1>c, <2>1, <2>2, <2>3, <2>4, <2>5, <2>6 DEF PersistStep
  <1>d. CASE Environment
    <2>1. CASE Crash
      BY <2>1, <1>1 DEF Crash, Die
    <2>2. CASE PowerCut
      <3>1. PICK m \in cut.markers, f \in cut.files :
              disk' = [marker |-> m, file |-> f] /\ cut' = Flushed(m, f)
        BY <2>2 DEF PowerCut
      <3>2. disk'.marker = m /\ disk'.file = f
            /\ cut'.markers = {m} /\ cut'.files = {f}
        BY <3>1 DEF Flushed
      <3>3. pc' = "down" /\ quarantineFailed' = FALSE /\ durable' = durable
        BY <2>2 DEF PowerCut, Die
      <3> QED
        BY <3>2, <3>3 DEF FilesWellFormed, VisibleMaySurvive, MarkerFirst,
                          MarkerDurable, DeadForgets
    <2>3. ASSUME NEW f \in {NoFile, BadFile}, Damage(f) PROVE StoreInv'
      <3>0. NoFile.agents = {} /\ BadFile.agents = {}
        BY DEF NoFile, BadFile, File
      <3>1. f \in PersistedKillState /\ f.agents = {}
        BY <3>0, FilesTyped
      <3> QED BY <2>3, <3>1, <1>3 DEF Damage, MarkerFirst
    <2> QED BY <1>d, <2>1, <2>2, <2>3 DEF Environment, Rot, Vanish
  <1>e. CASE UNCHANGED vars
    BY <1>e, <1>1 DEF vars, MarkerFirst, DeadForgets
  <1> QED BY <1>a, <1>b, <1>c, <1>d, <1>e DEF Next

-----------------------------------------------------------------------------
(* The debt.                                                               *)

DebtInv ==
    /\ PublishedIsCurrent /\ RestartKeepsDenial
    /\ RunningPays /\ DiskPays /\ CutPays

\* Nothing is owed before the first process but what its state file says.
LEMMA DebtInit == Init => DebtInv
  <1> SUFFICES ASSUME Init PROVE DebtInv
    OBVIOUS
  <1>1. TypeOK
    BY TypeInit
  <1>2. /\ acked.killed = disk.file.killed /\ acked.agents = disk.file.agents
        /\ pc = "down" /\ ~durable
    BY DEF Init
  <1>3. disk.file.st = "none" => ~disk.file.killed
    BY DEF Init, FirstDisks, FreshDisk, NoFile, File
  <1>4. disk.file.st = "none" \/ disk.file.st = "ok"
    BY DEF Init, FirstDisks, FreshDisk, NoFile, File
  <1>5. disk.file \in PersistedKillState /\ disk.marker \in BOOLEAN
    BY <1>1 DEF TypeOK, StoreOK
  <1>6. disk.file.killed \in BOOLEAN
    BY <1>5 DEF PersistedKillState
  <1>7. Pays(disk.marker, disk.file)
    BY <1>2, <1>3, <1>4, <1>5, <1>6, CoversByKind DEF Pays
  <1> QED
    BY <1>2, <1>7 DEF DebtInv, PublishedIsCurrent, RestartKeepsDenial,
                      RunningPays, DiskPays, CutPays

\* A directory that covers what the process denies covers what it owes.
LEMMA CoversTransfer ==
    ASSUME NEW m \in BOOLEAN, NEW f \in PersistedKillState,
           NEW k \in BOOLEAN, NEW A, NEW ak \in BOOLEAN, NEW aA,
           k \/ (~ak /\ aA \subseteq A),
           Covers(m, f, k, A)
    PROVE  Covers(m, f, ak, aA)
  BY DEF Covers

\* Whatever is owed to an answered kill stays covered by the memory of the
\* process, by the directory and by what a power cut may leave of it, through
\* every step of persist() and every failure.
LEMMA DebtStep == IInv /\ [Next]_vars => DebtInv'
  <1> SUFFICES ASSUME IInv, [Next]_vars PROVE DebtInv'
    OBVIOUS
  <1> USE DEF memory, history
  <1>t. /\ disk.marker \in BOOLEAN /\ disk.file \in PersistedKillState
        /\ cut.markers \subseteq BOOLEAN /\ cut.files \subseteq PersistedKillState
        /\ killed \in BOOLEAN /\ acked.killed \in BOOLEAN
        /\ disk.file.killed \in BOOLEAN /\ StoreOK
    BY DEF IInv, TypeOK, FlagsOK, StoreOK, PersistedKillState
  <1>t2. /\ disk'.marker \in BOOLEAN /\ disk'.file \in PersistedKillState
         /\ killed' \in BOOLEAN /\ acked'.killed \in BOOLEAN
    <2>1. TypeOK'
      BY TypeStep DEF IInv
    <2> QED BY <2>1 DEF TypeOK, FlagsOK, StoreOK
  <1>s. /\ FilesWellFormed /\ VisibleMaySurvive /\ MarkerFirst
        /\ MarkerDurable /\ DeadForgets
    BY DEF IInv, StoreInv
  <1>i. PublishedIsCurrent /\ RestartKeepsDenial /\ RunningPays /\ DiskPays /\ CutPays
    BY DEF IInv
  \* An owner's decision can only lower the debt; a lower debt is still paid.
  <1>1. ASSUME NEW m \in BOOLEAN, NEW f \in PersistedKillState, Pays(m, f),
               acked.killed \/ (~acked'.killed /\ acked'.agents \subseteq acked.agents)
        PROVE  Covers(m, f, acked'.killed, acked'.agents)
    BY <1>1, <1>t, <1>t2, CoversTransfer DEF Pays
  \* Ensuring the marker keeps the debt paid.
  <1>2. ASSUME EnsuredMarker, UNCHANGED <<acked, durable, excused>>,
               ~excused => Pays(disk.marker, disk.file)
        PROVE  (~excused' => Pays(disk.marker, disk.file)') /\ CutPays'
    <2>1. durable => cut' = cut
      BY <1>2, <1>s DEF EnsuredMarker, MarkerDurable
    <2>2. CutPays'
      BY <2>1, <1>2, <1>i DEF CutPays, Pays
    <2>3. CASE disk' = disk
      BY <2>2, <2>3, <1>2 DEF Pays
    <2>4. CASE disk' = [marker |-> TRUE, file |-> disk.file]
      <3>1. disk'.marker = TRUE /\ disk'.file = disk.file
        BY <2>4
      <3> QED BY <2>2, <3>1, <1>2, <1>t, MarkerHelps DEF Pays
    <2> QED BY <1>2, <2>3, <2>4 DEF EnsuredMarker
  \* Putting in a file that pays keeps the debt paid across a power cut.
  <1>3. ASSUME NEW f \in PersistedKillState,
               disk' = [disk EXCEPT !.file = f],
               cut' = [cut EXCEPT !.files = @ \union {f}],
               UNCHANGED <<acked, durable, excused>>,
               ~excused /\ durable => \A m \in cut.markers : Pays(m, f)
        PROVE  /\ disk'.file = f /\ disk'.marker = disk.marker
               /\ CutPays'
    <2>1. disk'.file = f /\ disk'.marker = disk.marker
          /\ cut'.files = cut.files \union {f} /\ cut'.markers = cut.markers
      BY <1>3, <1>t DEF StoreOK
    <2> QED BY <1>3, <2>1, <1>i DEF CutPays, Pays
  <1>4. ASSUME NEW m \in BOOLEAN, NEW k \in BOOLEAN, NEW A
        PROVE  /\ Covers(m, BadFile, k, A)
               /\ m => Covers(m, NoFile, k, A)
    <2>1. BadFile.st = "bad" /\ NoFile.st = "none"
      BY DEF BadFile, NoFile, File
    <2> QED BY <2>1, FilesTyped, CoversByKind
  <1>a. CASE Boot
    <2>0. ASSUME pc = "down" PROVE ~excused => Pays(disk.marker, disk.file)
      BY <2>0, <1>s, <1>i DEF DeadForgets, DiskPays, Unmarked
    <2>1. CASE BootAbsent
      <3>1. pc' = "idle" /\ killed' = FALSE /\ agents' = {} /\ pc = "down"
            /\ UNCHANGED <<disk, cut, quarantineFailed, acked, durable, excused>>
        BY <2>1 DEF BootAbsent, NewProcess
      <3>2. disk.file.st = "none" /\ ~disk.marker
        BY <2>1 DEF BootAbsent, Outcome
      <3>3. disk.file.agents = {}
        BY <3>2, <1>s DEF FilesWellFormed
      <3>4. ~excused => ~acked.killed /\ acked.agents \subseteq {}
        BY <2>0, <3>1, <3>2, <3>3, <1>t, CoversByKind DEF Pays
      <3>5. Covers(disk.marker, disk.file, FALSE, {})
        BY DEF Covers
      <3> QED
        BY <2>0, <3>1, <3>4, <3>5, <1>i DEF DebtInv, PublishedIsCurrent,
             RestartKeepsDenial, RunningPays, DiskPays, CutPays, Pays
    <2>2. CASE BootLoaded
      <3>1. pc' = "idle" /\ pc = "down" /\ EnsuredMarker
            /\ killed' = disk.file.killed /\ agents' = disk.file.agents
            /\ UNCHANGED <<quarantineFailed, acked, durable, excused>>
        BY <2>2, <1>t, MarkerEffect DEF BootLoaded, NewProcess
      <3>2. disk.file.st = "ok"
        BY <2>2 DEF BootLoaded, Outcome
      <3>3. disk'.file = disk.file
        <4>1. CASE disk' = disk
          BY <4>1
        <4>2. CASE disk' = [marker |-> TRUE, file |-> disk.file]
          BY <4>2
        <4> QED BY <3>1, <4>1, <4>2 DEF EnsuredMarker
      <3>4. ~excused => killed' \/ (~acked.killed /\ acked.agents \subseteq agents')
        BY <2>0, <3>1, <3>2, <1>t, CoversByKind DEF Pays
      <3>5. Covers(disk'.marker, disk'.file, killed', agents')
        BY <3>1, <3>2, <3>3, <1>t, <1>t2, CoversByKind
      <3>6. (~excused' => Pays(disk.marker, disk.file)') /\ CutPays'
        BY <2>0, <3>1, <1>2
      <3> QED
        BY <3>1, <3>4, <3>5, <3>6 DEF DebtInv, PublishedIsCurrent,
             RestartKeepsDenial, RunningPays, DiskPays
    <2>3. CASE BootCorrupt
      <3>1. pc' = "save" /\ pc = "down" /\ killed' = TRUE
            /\ UNCHANGED <<disk, cut, quarantineFailed, acked, durable, excused>>
        BY <2>3 DEF BootCorrupt, NewProcess
      <3> QED
        BY <2>0, <3>1, <1>i DEF DebtInv, PublishedIsCurrent,
             RestartKeepsDenial, RunningPays, DiskPays, CutPays, Pays
    <2> QED BY <1>a, <2>1, <2>2, <2>3 DEF Boot
  <1>b. CASE Transition
    <2>1. pc = "idle" /\ pc' = "save"
          /\ UNCHANGED <<disk, cut, quarantineFailed, durable, excused>>
      BY <1>b DEF Transition, Engage, EngageAgent, Restore, RestoreAgent,
                  EngageStep, Persist
    <2>2. ASSUME killed \/ (~acked.killed /\ acked.agents \subseteq agents)
          PROVE  killed' \/ (~acked'.killed /\ acked'.agents \subseteq agents')
      <3>1. CASE EngageStep
        BY <3>1 DEF EngageStep
      <3>2. ASSUME NEW id \in Ids, EngageAgent(id), ~EngageStep
            PROVE  killed' \/ (~acked'.killed /\ acked'.agents \subseteq agents')
        BY <3>2, <2>2 DEF EngageAgent
      <3>3. ASSUME NEW c \in Ceremonies, Restore(c)
            PROVE  ~acked'.killed /\ acked'.agents \subseteq agents'
        BY <3>3, <1>t DEF Restore, StoreOK
      <3>4. ASSUME NEW id \in Agents, NEW c \in Ceremonies, RestoreAgent(id, c)
            PROVE  killed' \/ (~acked'.killed /\ acked'.agents \subseteq agents')
        BY <3>4, <2>2, <1>t DEF RestoreAgent, StoreOK
      <3> QED BY <1>b, <3>1, <3>2, <3>3, <3>4 DEF Transition, Engage
    <2>3. acked.killed \/ (~acked'.killed /\ acked'.agents \subseteq acked.agents)
      <3>1. CASE EngageStep
        BY <3>1, <1>t DEF EngageStep
      <3>2. ASSUME NEW id \in Ids, EngageAgent(id), ~EngageStep PROVE acked' = acked
        BY <3>2 DEF EngageAgent
      <3>3. ASSUME NEW c \in Ceremonies, Restore(c)
            PROVE  ~acked'.killed /\ acked'.agents \subseteq acked.agents
        BY <3>3, <1>t DEF Restore, StoreOK
      <3>4. ASSUME NEW id \in Agents, NEW c \in Ceremonies, RestoreAgent(id, c)
            PROVE  /\ acked'.killed = acked.killed
                   /\ acked'.agents \subseteq acked.agents
        BY <3>4, <1>t DEF RestoreAgent, StoreOK
      <3> QED BY <1>b, <1>t, <3>1, <3>2, <3>3, <3>4 DEF Transition, Engage
    <2>4. RunningPays'
      BY <2>1, <2>2, <1>i DEF RunningPays
    <2>5. DiskPays'
      BY <2>1, <2>3, <1>1, <1>t, <1>i DEF DiskPays, Unmarked, Pays
    <2>6. CutPays'
      BY <2>1, <2>3, <1>1, <1>t, <1>i DEF CutPays, Pays
    <2> QED
      BY <2>1, <2>4, <2>5, <2>6 DEF DebtInv, PublishedIsCurrent, RestartKeepsDenial
  <1>c. CASE PersistStep
    <2>1. CASE SaveMarker
      <3>1. pc = "save" /\ pc' \in {"rename", "degrade"} /\ EnsuredMarker
            /\ UNCHANGED <<killed, agents, quarantineFailed, acked, durable, excused>>
        BY <2>1, <1>t, MarkerEffect DEF SaveMarker
      <3>2. CASE ~quarantineFailed
        <4>1. ~excused => Pays(disk.marker, disk.file)
          BY <3>1, <3>2, <1>i DEF DiskPays, Unmarked
        <4>2. (~excused' => Pays(disk.marker, disk.file)') /\ CutPays'
          BY <4>1, <3>1, <1>2
        <4> QED
          BY <3>1, <4>2, <1>i DEF DebtInv, PublishedIsCurrent, RestartKeepsDenial,
                                  RunningPays, DiskPays
      <3>3. CASE quarantineFailed
        <4>1. durable => cut' = cut
          BY <3>1, <1>s DEF EnsuredMarker, MarkerDurable
        <4> QED
          BY <3>1, <3>3, <4>1, <1>i DEF DebtInv, PublishedIsCurrent,
               RestartKeepsDenial, RunningPays, DiskPays, CutPays, Pays
      <3> QED BY <3>2, <3>3
    <2>2. CASE SaveRename
      <3>1. pc = "rename"
            /\ UNCHANGED <<killed, agents, quarantineFailed, acked, durable, excused>>
        BY <2>2 DEF SaveRename
      <3>2. CASE pc' = "degrade" /\ UNCHANGED <<disk, cut>>
        BY <3>1, <3>2, <1>i DEF DebtInv, PublishedIsCurrent, RestartKeepsDenial,
             RunningPays, DiskPays, CutPays, Pays, Unmarked
      <3>3. CASE /\ disk' = [disk EXCEPT !.file = StateToSave]
                 /\ cut' = [cut EXCEPT !.files = @ \union {StateToSave}]
                 /\ pc' = "fsync"
        <4>1. StateToSave \in PersistedKillState /\ StateToSave.st = "ok"
              /\ StateToSave.killed = killed /\ StateToSave.agents = agents
          BY FilesTyped DEF IInv, StateToSave, File
        <4>2. ASSUME NEW m \in BOOLEAN PROVE Covers(m, StateToSave, killed, agents)
          BY <4>1, <1>t, CoversByKind
        <4>3. ASSUME NEW m \in BOOLEAN, ~excused PROVE Pays(m, StateToSave)
          BY <4>1, <4>2, <4>3, <3>1, <1>t, <1>i, CoversTransfer DEF RunningPays, Pays
        <4>4. disk'.file = StateToSave /\ disk'.marker = disk.marker /\ CutPays'
          BY <3>1, <3>3, <4>1, <4>3, <1>3, <1>t
        <4> QED
          BY <3>1, <3>3, <4>2, <4>3, <4>4, <1>t, <1>i DEF DebtInv,
               PublishedIsCurrent, RestartKeepsDenial, RunningPays, DiskPays, Pays
      <3> QED BY <2>2, <3>2, <3>3 DEF SaveRename
    <2>3. CASE SaveFsync
      <3>1. pc = "fsync" /\ pc' = "idle" /\ UNCHANGED <<disk, killed, agents>>
            /\ durable' = ~degraded'
        BY <2>3 DEF SaveFsync, Answer
      <3>2. Covers(disk.marker, disk.file, killed, agents)
        BY <3>1, <1>i DEF PublishedIsCurrent
      <3>3. RunningPays'
        <4>1. CASE /\ acked' = [killed |-> killed, epoch |-> epoch, agents |-> agents]
                   /\ excused' = FALSE
          <5>1. acked'.killed = killed /\ acked'.agents = agents
            BY <4>1
          <5> QED BY <3>1, <5>1 DEF RunningPays
        <4>2. CASE UNCHANGED <<acked, excused>>
          BY <3>1, <4>2, <1>i DEF RunningPays
        <4> QED BY <2>3, <4>1, <4>2 DEF SaveFsync, Answer
      <3>4. ~excused' => Covers(disk.marker, disk.file, acked'.killed, acked'.agents)
        BY <3>1, <3>2, <3>3, <1>t, <1>t2, CoversTransfer DEF RunningPays
      <3>5. durable' => cut'.markers = {disk.marker} /\ cut'.files = {disk.file}
        BY <2>3, <3>1 DEF SaveFsync, Flushed
      <3> QED
        BY <3>1, <3>2, <3>3, <3>4, <3>5 DEF DebtInv, PublishedIsCurrent,
             RestartKeepsDenial, DiskPays, CutPays, Pays
    <2>4. CASE DegradeMarker
      <3>1. pc = "degrade" /\ pc' = "unlink" /\ EnsuredMarker
            /\ UNCHANGED <<killed, agents, quarantineFailed, acked, durable, excused>>
        BY <2>4, <1>t, MarkerEffect DEF DegradeMarker
      <3>2. CASE ~quarantineFailed
        <4>1. ~excused => Pays(disk.marker, disk.file)
          BY <3>1, <3>2, <1>i DEF DiskPays, Unmarked
        <4>2. (~excused' => Pays(disk.marker, disk.file)') /\ CutPays'
          BY <4>1, <3>1, <1>2
        <4> QED
          BY <3>1, <4>2, <1>i DEF DebtInv, PublishedIsCurrent, RestartKeepsDenial,
                                  RunningPays, DiskPays
      <3>3. CASE quarantineFailed
        <4>1. durable => cut' = cut
          BY <3>1, <1>s DEF EnsuredMarker, MarkerDurable
        <4> QED
          BY <3>1, <3>3, <4>1, <1>i DEF DebtInv, PublishedIsCurrent,
               RestartKeepsDenial, RunningPays, DiskPays, CutPays, Pays
      <3> QED BY <3>2, <3>3
    <2>5. CASE DegradeUnlink
      <3>1. pc = "unlink" /\ pc' = "quarantine"
            /\ UNCHANGED <<killed, agents, quarantineFailed, markerOk,
                          acked, durable, excused>>
        BY <2>5 DEF DegradeUnlink
      <3>2. CASE UNCHANGED <<disk, cut>>
        BY <3>1, <3>2, <1>i DEF DebtInv, PublishedIsCurrent, RestartKeepsDenial,
             RunningPays, DiskPays, CutPays, Pays, Unmarked
      <3>3. CASE /\ disk' = [disk EXCEPT !.file = NoFile]
                 /\ cut' = [cut EXCEPT !.files = @ \union {NoFile}]
        <4>1. durable => \A m \in cut.markers : Pays(m, NoFile)
          BY <1>4, <1>t, <1>s DEF MarkerDurable, Pays
        <4>2. disk'.file = NoFile /\ disk'.marker = disk.marker /\ CutPays'
          BY <3>1, <3>3, <4>1, <1>3, FilesTyped
        <4>3. ~Unmarked' => disk.marker
          BY <3>1, <1>s DEF MarkerFirst, Unmarked
        <4> QED
          BY <3>1, <4>2, <4>3, <1>4, <1>t, <1>i DEF DebtInv, PublishedIsCurrent,
               RestartKeepsDenial, RunningPays, DiskPays, Pays
      <3> QED BY <2>5, <3>2, <3>3 DEF DegradeUnlink
    <2>6. CASE DegradeReturn
      <3>1. pc = "quarantine" /\ pc' = "idle" /\ UNCHANGED <<disk, cut, killed, agents>>
            /\ durable' = ~degraded' /\ degraded' = degraded
            /\ quarantineFailed' = ~Quarantined
        BY <2>6 DEF DegradeReturn, Answer
      <3>2. degraded /\ markerOk = disk.marker
        BY <3>1, <1>s DEF MarkerFirst
      <3>3. ASSUME ~quarantineFailed', NEW k \in BOOLEAN, NEW A
            PROVE  Covers(disk.marker, disk.file, k, A)
        <4>1. Quarantined
          BY <3>1, <3>3, Zenon
        <4>2. disk.marker /\ disk.file.st = "none"
          BY <4>1, <3>2 DEF Quarantined
        <4>3. disk.file \in PersistedKillState /\ disk.marker \in BOOLEAN
          BY <1>t
        <4> QED BY <4>2, <4>3, <3>3 DEF Covers, BootsKilled, Outcome
      <3>4. RunningPays'
        <4>1. CASE /\ acked' = [killed |-> killed, epoch |-> epoch, agents |-> agents]
                   /\ excused' = FALSE
          <5>1. acked'.killed = killed /\ acked'.agents = agents
            BY <4>1
          <5> QED BY <3>1, <5>1 DEF RunningPays
        <4>2. CASE UNCHANGED <<acked, excused>>
          BY <3>1, <4>2, <1>i DEF RunningPays
        <4> QED BY <2>6, <4>1, <4>2 DEF DegradeReturn, Answer
      <3> QED
        BY <3>1, <3>2, <3>3, <3>4, <1>t, <1>t2 DEF DebtInv, PublishedIsCurrent,
             RestartKeepsDenial, DiskPays, CutPays, Pays
    <2> QED BY <1>c, <2>1, <2>2, <2>3, <2>4, <2>5, <2>6 DEF PersistStep
  <1>d. CASE Environment
    <2>1. CASE Crash
      <3>1. pc' = "down" /\ UNCHANGED <<disk, cut, acked, durable>>
            /\ excused' = (excused \/ quarantineFailed \/ Unmarked)
        BY <2>1 DEF Crash, Die
      <3>2. excused => excused'
        BY <3>1
      <3>3. DiskPays'
        BY <3>1, <1>i DEF DiskPays, Pays
      <3>4. CutPays'
        BY <3>1, <3>2, <1>i DEF CutPays, Pays
      <3> QED
        BY <3>1, <3>3, <3>4 DEF DebtInv, PublishedIsCurrent, RestartKeepsDenial,
                                RunningPays
    <2>2. CASE PowerCut
      <3>1. PICK m \in cut.markers, f \in cut.files :
              disk' = [marker |-> m, file |-> f] /\ cut' = Flushed(m, f)
        BY <2>2 DEF PowerCut
      <3>2. disk'.marker = m /\ disk'.file = f
            /\ cut'.markers = {m} /\ cut'.files = {f}
        BY <3>1 DEF Flushed
      <3>3. pc' = "down" /\ UNCHANGED <<acked, durable>>
            /\ excused' = (excused \/ ~durable)
        BY <2>2 DEF PowerCut, Die
      <3>4. ~excused' => Pays(m, f)
        BY <3>1, <3>3, <1>i DEF CutPays
      <3> QED
        BY <3>2, <3>3, <3>4 DEF DebtInv, PublishedIsCurrent, RestartKeepsDenial,
                                RunningPays, DiskPays, CutPays, Pays
    <2>3. ASSUME NEW f \in {NoFile, BadFile}, Damage(f), f = NoFile => disk.marker
          PROVE  DebtInv'
      <3>1. UNCHANGED <<pc, killed, agents, quarantineFailed, markerOk,
                        acked, durable, excused>>
            /\ disk' = [disk EXCEPT !.file = f]
            /\ cut' = [cut EXCEPT !.files = @ \union {f}]
        BY <2>3 DEF Damage
      <3>2. durable => \A m \in cut.markers : Pays(m, f)
        BY <1>4, <1>t, <1>s DEF MarkerDurable, Pays
      <3>3. disk'.file = f /\ disk'.marker = disk.marker /\ CutPays'
        BY <3>1, <3>2, <1>3, FilesTyped
      <3>4. ASSUME NEW k \in BOOLEAN, NEW A PROVE Covers(disk.marker, f, k, A)
        BY <2>3, <1>4, <1>t
      <3> QED
        BY <3>1, <3>3, <3>4, <1>t, <1>i DEF DebtInv, PublishedIsCurrent,
             RestartKeepsDenial, RunningPays, DiskPays, Pays
    <2>4. BadFile /= NoFile
      BY DEF BadFile, NoFile, File
    <2>5. CASE Rot
      BY <2>3, <2>4, <2>5 DEF Rot
    <2>6. CASE Vanish
      BY <2>3, <2>6 DEF Vanish
    <2> QED BY <1>d, <2>1, <2>2, <2>5, <2>6 DEF Environment
  <1>e. CASE UNCHANGED vars
    BY <1>e, <1>i DEF vars, DebtInv, PublishedIsCurrent, RestartKeepsDenial,
                      RunningPays, DiskPays, CutPays, Pays, Unmarked
  <1> QED BY <1>a, <1>b, <1>c, <1>d, <1>e DEF Next

\* The inductive invariant of the kill switch and its store.
LEMMA IInvHolds == Spec => []IInv
  <1>1. Init => IInv
    BY TypeInit, StoreInit, DebtInit DEF IInv, DebtInv
  <1>2. IInv /\ [Next]_vars => IInv'
    <2> SUFFICES ASSUME IInv, [Next]_vars PROVE IInv'
      OBVIOUS
    <2>1. TypeOK'
      BY TypeStep DEF IInv
    <2>2. StoreInv'
      BY StoreStep DEF IInv
    <2>3. DebtInv'
      BY DebtStep
    <2> QED BY <2>1, <2>2, <2>3 DEF IInv, DebtInv
  <1> QED BY <1>1, <1>2, PTL DEF Spec

\* Whatever the running switch denies between two transitions, a restarted
\* process denies, or quarantineFailed is raised (persist() in kill.ts).
THEOREM RestartSafe == Spec => []RestartKeepsDenial
  <1>1. IInv => RestartKeepsDenial
    BY DEF IInv
  <1> QED BY <1>1, IInvHolds, PTL

\* An answered kill outlives every crash, power cut, failed save and damaged
\* file that the code did not report beforehand, until an owner restores.
THEOREM KillsStick == Spec => []KillSticks
  <1>1. IInv => KillSticks
    BY DEF IInv, RunningPays, KillSticks
  <1> QED BY <1>1, IInvHolds, PTL

-----------------------------------------------------------------------------
(* The capacity of the scoped-kill map.                                    *)

Fits(A) == IsFiniteSet(A) /\ Cardinality(A) <= MaxKilledAgents

\* The map fits, and so does every file the process has written.
CapacityInv ==
    /\ Fits(agents)
    /\ \A f \in cut.files \union {disk.file} : Fits(f.agents)

\* What engageAgent() and restoreAgent() do to a map that fits.
LEMMA FitsLemma ==
    /\ Fits({})
    /\ \A A, id : Fits(A) => Fits(A \ {id})
    /\ \A id : Fits(agents) /\ ~Escalates(id) => Fits(agents \union {id})
  <1>1. Fits({})
    BY FS_EmptySet, CapacityAssumption DEF Fits
  <1>2. ASSUME NEW A, NEW id, Fits(A) PROVE Fits(A \ {id})
    <2>1. IsFiniteSet(A \ {id}) /\ Cardinality(A \ {id}) \in Nat
          /\ Cardinality(A) \in Nat /\ Cardinality(A \ {id}) <= Cardinality(A)
      BY <1>2, FS_Subset, FS_CardinalityType, A \ {id} \subseteq A DEF Fits
    <2> QED BY <2>1, <1>2, CapacityAssumption DEF Fits
  <1>3. ASSUME NEW id, Fits(agents), ~Escalates(id) PROVE Fits(agents \union {id})
    <2>1. CASE id \in agents
      <3>1. agents \union {id} = agents
        BY <2>1
      <3> QED BY <3>1, <1>3
    <2>2. CASE id \notin agents
      <3>1. ~(Cardinality(agents) >= MaxKilledAgents)
        BY <2>2, <1>3 DEF Escalates
      <3>2. /\ IsFiniteSet(agents \union {id})
            /\ Cardinality(agents \union {id}) = Cardinality(agents) + 1
            /\ Cardinality(agents) \in Nat
        BY <2>2, <1>3, FS_AddElement, FS_CardinalityType DEF Fits
      <3> QED BY <3>1, <3>2, CapacityAssumption DEF Fits
    <2> QED BY <2>1, <2>2
  <1> QED BY <1>1, <1>2, <1>3

\* A file in the directory was there, is what save() writes, or names no agent.
LEMMA FileOrigin ==
    ASSUME TypeOK, StoreInv, [Next]_vars
    PROVE  \A f \in cut'.files \union {disk'.file} :
              \/ f \in cut.files \union {disk.file}
              \/ f = StateToSave
              \/ f \in {NoFile, BadFile}
  <1> DEFINE Known(f) == \/ f \in cut.files \union {disk.file}
                         \/ f = StateToSave
                         \/ f \in {NoFile, BadFile}
  <1> DEFINE Goal == \A f \in cut'.files \union {disk'.file} : Known(f)
  <1> SUFFICES Goal
    OBVIOUS
  <1>t. /\ disk \in [marker : BOOLEAN, file : PersistedKillState]
        /\ cut \in [markers : SUBSET BOOLEAN, files : SUBSET PersistedKillState]
    BY DEF TypeOK, StoreOK
  <1>1. ASSUME UNCHANGED <<disk, cut>> PROVE Goal
    BY <1>1
  <1>2. ASSUME EnsuredMarker PROVE Goal
    <2>1. disk'.file = disk.file
      <3>1. CASE disk' = disk
        BY <3>1
      <3>2. CASE disk' = [marker |-> TRUE, file |-> disk.file]
        BY <3>2
      <3> QED BY <1>2, <3>1, <3>2 DEF EnsuredMarker
    <2>2. cut'.files \subseteq cut.files \union {disk.file}
      <3>1. CASE cut' = cut
        BY <3>1
      <3>2. CASE cut' = [markers |-> {TRUE}, files |-> {disk.file}]
        BY <3>2
      <3>3. CASE cut' = [markers |-> cut.markers \union {TRUE}, files |-> cut.files]
        BY <3>3
      <3> QED BY <1>2, <3>1, <3>2, <3>3 DEF EnsuredMarker
    <2> QED BY <2>1, <2>2
  <1>3. ASSUME NEW f \in {StateToSave, NoFile, BadFile},
               disk' = [disk EXCEPT !.file = f],
               cut' = [cut EXCEPT !.files = @ \union {f}]
        PROVE  Goal
    <2>1. disk'.file = f /\ cut'.files = cut.files \union {f}
      BY <1>3, <1>t
    <2> QED BY <2>1
  <1>4. ASSUME NEW m, NEW f \in cut.files \union {disk.file},
               disk'.file = f, cut' = Flushed(m, f)
        PROVE  Goal
    <2>1. cut'.files = {f}
      BY <1>4 DEF Flushed
    <2> QED BY <1>4, <2>1
  <1> HIDE DEF Goal
  <1>a. CASE Boot
    BY <1>a, <1>1, <1>2, MarkerEffect
       DEF TypeOK, Boot, BootAbsent, BootLoaded, BootCorrupt
  <1>b. CASE Transition
    BY <1>b, <1>1 DEF Transition, Engage, EngageAgent, Restore, RestoreAgent,
                      EngageStep, Persist
  <1>c. CASE PersistStep
    <2>1. CASE SaveMarker \/ DegradeMarker
      BY <2>1, <1>2, MarkerEffect DEF TypeOK, SaveMarker, DegradeMarker
    <2>2. CASE SaveRename \/ DegradeUnlink
      BY <2>2, <1>1, <1>3 DEF SaveRename, DegradeUnlink
    <2>3. CASE SaveFsync
      <3>1. disk' = disk /\ (cut' = cut \/ cut' = Flushed(disk.marker, disk.file))
        BY <2>3 DEF SaveFsync
      <3> QED BY <3>1, <1>1, <1>4
    <2>4. CASE DegradeReturn
      BY <2>4, <1>1 DEF DegradeReturn
    <2> QED BY <1>c, <2>1, <2>2, <2>3, <2>4 DEF PersistStep
  <1>d. CASE Environment
    <2>1. CASE Crash
      BY <2>1, <1>1 DEF Crash
    <2>2. CASE PowerCut
      <3>1. PICK m \in cut.markers, f \in cut.files :
              disk' = [marker |-> m, file |-> f] /\ cut' = Flushed(m, f)
        BY <2>2 DEF PowerCut
      <3> QED BY <3>1, <1>4
    <2>3. CASE Rot \/ Vanish
      BY <2>3, <1>3 DEF Rot, Vanish, Damage
    <2> QED BY <1>d, <2>1, <2>2, <2>3 DEF Environment
  <1>e. CASE UNCHANGED vars
    BY <1>e, <1>1 DEF vars
  <1> QED BY <1>a, <1>b, <1>c, <1>d, <1>e DEF Next

\* No transition outgrows the map, and no file holds more than the map.
LEMMA CapacityStep == TypeOK /\ StoreInv /\ CapacityInv /\ [Next]_vars => CapacityInv'
  <1> SUFFICES ASSUME TypeOK, StoreInv, CapacityInv, [Next]_vars PROVE CapacityInv'
    OBVIOUS
  <1> USE DEF memory, history
  <1>1. StateToSave.agents = agents /\ NoFile.agents = {} /\ BadFile.agents = {}
    BY DEF StateToSave, NoFile, BadFile, File
  <1>2. \A f \in cut'.files \union {disk'.file} : Fits(f.agents)
    BY <1>1, FileOrigin, FitsLemma DEF CapacityInv
  <1>3. \/ agents' = agents \/ agents' = {} \/ agents' = disk.file.agents
        \/ \E id : agents' = agents \ {id}
        \/ \E id : ~Escalates(id) /\ agents' = agents \union {id}
    <2>1. CASE Boot
      BY <2>1 DEF Boot, BootAbsent, BootLoaded, BootCorrupt
    <2>2. CASE Transition
      BY <2>2 DEF Transition, Engage, EngageAgent, Restore, RestoreAgent, EngageStep
    <2>3. CASE PersistStep
      BY <2>3 DEF PersistStep, SaveMarker, SaveRename, SaveFsync, DegradeMarker,
                  DegradeUnlink, DegradeReturn, Answer
    <2>4. CASE Environment
      BY <2>4 DEF Environment, Crash, PowerCut, Die, Rot, Vanish, Damage
    <2>5. CASE UNCHANGED vars
      BY <2>5 DEF vars
    <2> QED BY <2>1, <2>2, <2>3, <2>4, <2>5 DEF Next
  <1>4. Fits(agents')
    BY <1>3, FitsLemma DEF CapacityInv
  <1> QED BY <1>2, <1>4 DEF CapacityInv, Fits

\* The scoped-kill map and every state file on the medium stay within what
\* load() accepts (the cap in engageAgent() escalates instead).
THEOREM CapacityKept == Spec => []CapacityHolds
  <1>1. Init => CapacityInv
    <2> SUFFICES ASSUME Init PROVE CapacityInv
      OBVIOUS
    <2>1. disk.file.agents = {} /\ cut.files = {disk.file} /\ agents = {}
      BY DEF Init, FirstDisks, FreshDisk, NoFile, File, Flushed
    <2> QED BY <2>1, FitsLemma DEF CapacityInv
  <1>2. CapacityInv => CapacityHolds
    BY DEF CapacityInv, CapacityHolds, Fits
  <1>3. IInv => TypeOK /\ StoreInv
    BY DEF IInv
  <1> QED BY <1>1, <1>2, <1>3, IInvHolds, CapacityStep, PTL DEF Spec

-----------------------------------------------------------------------------
(* The refinement: the switch over its file store keeps the promise of     *)
(* Switch.tla.                                                             *)

\* A process that could not quarantine has said that its state may be lost.
WarnsWhenLost == pc = "idle" /\ quarantineFailed => ~durable

\* degrade() flags the degradation before it can fail to quarantine.
LEMMA WarnStep == IInv /\ WarnsWhenLost /\ [Next]_vars => WarnsWhenLost'
  <1> SUFFICES ASSUME IInv, WarnsWhenLost, [Next]_vars PROVE WarnsWhenLost'
    OBVIOUS
  <1> USE DEF memory, history, WarnsWhenLost
  <1>1. CASE Boot
    BY <1>1 DEF Boot, BootAbsent, BootLoaded, BootCorrupt, NewProcess, IInv, StoreInv,
                DeadForgets
  <1>2. CASE Transition
    BY <1>2 DEF Transition, Engage, EngageAgent, Restore, RestoreAgent, EngageStep, Persist
  <1>3. CASE PersistStep
    <2>1. CASE SaveMarker \/ SaveRename \/ DegradeMarker \/ DegradeUnlink
      BY <2>1 DEF SaveMarker, SaveRename, DegradeMarker, DegradeUnlink
    <2>2. CASE SaveFsync
      BY <2>2 DEF SaveFsync, Answer
    <2>3. CASE DegradeReturn
      <3>1. degraded' = degraded /\ degraded /\ durable' = ~degraded'
        BY <2>3 DEF DegradeReturn, Answer, IInv, StoreInv, MarkerFirst
      <3> QED BY <3>1
    <2> QED BY <1>3, <2>1, <2>2, <2>3 DEF PersistStep
  <1>4. CASE Environment
    BY <1>4 DEF Environment, Crash, PowerCut, Die, Rot, Vanish, Damage
  <1>5. CASE UNCHANGED vars
    BY <1>5 DEF vars
  <1> QED BY <1>1, <1>2, <1>3, <1>4, <1>5 DEF Next

\* The first process starts on a promise its state file makes.
LEMMA PromiseInit == Init => Promise!Init
  <1> SUFFICES ASSUME Init PROVE Promise!Init
    OBVIOUS
  <1>1. acked.killed \in BOOLEAN /\ acked.agents \in SUBSET Agents
    BY TypeInit DEF TypeOK, StoreOK
  <1> QED BY <1>1 DEF Init, Promise!Init, Promise!Nothing, Promise!Denials

\* Every step of the switch over its store is a step of the switch that only
\* promises, or none.
LEMMA PromiseStep ==
    ASSUME IInv, IInv', WarnsWhenLost, [Next]_vars
    PROVE  [Promise!Next]_(Promise!vars)
  <1> USE DEF memory, history
  <1>k. killed' \in BOOLEAN /\ agents' \in SUBSET Agents
    BY DEF IInv, TypeOK, FlagsOK, MemoryOK
  <1>d. acked.killed \in BOOLEAN /\ acked.agents \in SUBSET Agents
        /\ acked'.killed \in BOOLEAN /\ acked'.agents \in SUBSET Agents
        /\ durable \in BOOLEAN /\ durable' \in BOOLEAN
        /\ excused \in BOOLEAN /\ excused' \in BOOLEAN
        /\ acked \in [killed : BOOLEAN, epoch : 0..MaxEpoch, agents : SUBSET Agents]
    BY DEF IInv, TypeOK, FlagsOK, StoreOK
  \* Steps the abstract switch does not see.
  <1>s. ASSUME UNCHANGED <<acked, durable, excused>>,
               \/ UNCHANGED <<pc, killed, agents>>
               \/ pc \notin {"idle", "down"} /\ pc' \notin {"idle", "down"}
        PROVE  UNCHANGED Promise!vars
    BY <1>s DEF Promise!vars
  <1>a. CASE Boot
    <2>1. CASE BootAbsent \/ BootLoaded
      <3>1. pc = "down" /\ pc' = "idle" /\ UNCHANGED <<acked, durable, excused>>
        BY <2>1 DEF BootAbsent, BootLoaded, NewProcess
      <3>2. ~excused => killed' \/ (~acked.killed /\ acked.agents \subseteq agents')
        BY <3>1 DEF IInv, RunningPays
      <3>3. Promise!Boot
        BY <3>1, <3>2, <1>k, <1>d DEF Promise!Boot, Promise!Denials, Promise!Covers
      <3> QED BY <3>3 DEF Promise!Next
    <2>2. CASE BootCorrupt
      <3>1. Promise!BootBusy
        BY <2>2 DEF BootCorrupt, NewProcess, Promise!BootBusy
      <3> QED BY <3>1 DEF Promise!Next
    <2> QED BY <1>a, <2>1, <2>2 DEF Boot
  <1>b. CASE Transition
    <2>0. pc = "idle" /\ pc' = "save" /\ UNCHANGED <<durable, excused>>
      BY <1>b DEF Transition, Engage, EngageAgent, Restore, RestoreAgent,
                  EngageStep, Persist
    <2>1. CASE acked' = acked
      <3>1. Promise!Engage
        BY <2>0, <2>1 DEF Promise!Engage, Promise!Nothing
      <3> QED BY <3>1 DEF Promise!Next
    <2>2. CASE \/ acked.killed
               \/ ~acked'.killed /\ acked'.agents \subseteq acked.agents
      <3>1. Promise!Release
        BY <2>0, <2>2, <1>d DEF Promise!Release, Promise!Nothing, Promise!Denials,
                                Promise!Covers
      <3> QED BY <3>1 DEF Promise!Next
    <2>3. \/ acked' = acked
          \/ acked.killed
          \/ ~acked'.killed /\ acked'.agents \subseteq acked.agents
      <3>1. CASE EngageStep
        BY <3>1 DEF EngageStep
      <3>2. ASSUME NEW id \in Ids, EngageAgent(id), ~EngageStep PROVE acked' = acked
        BY <3>2 DEF EngageAgent
      <3>3. ASSUME NEW c \in Ceremonies, Restore(c)
            PROVE  ~acked'.killed /\ acked'.agents \subseteq acked.agents
        BY <3>3, <1>d DEF Restore
      <3>4. ASSUME NEW id \in Agents, NEW c \in Ceremonies, RestoreAgent(id, c)
            PROVE  acked'.killed = acked.killed /\ acked'.agents \subseteq acked.agents
        BY <3>4, <1>d DEF RestoreAgent
      <3> QED BY <1>b, <1>d, <3>1, <3>2, <3>3, <3>4 DEF Transition, Engage
    <2> QED BY <2>1, <2>2, <2>3
  <1>c. CASE PersistStep
    <2>1. CASE SaveMarker \/ SaveRename \/ DegradeMarker \/ DegradeUnlink
      <3>1. /\ UNCHANGED <<acked, durable, excused>>
            /\ pc \notin {"idle", "down"} /\ pc' \notin {"idle", "down"}
        BY <2>1 DEF SaveMarker, SaveRename, DegradeMarker, DegradeUnlink
      <3> QED BY <3>1, <1>s
    <2>2. CASE SaveFsync \/ DegradeReturn
      <3>1. /\ pc \in {"fsync", "quarantine"} /\ pc' = "idle"
            /\ UNCHANGED <<killed, agents>>
            /\ \/ /\ acked' = [killed |-> killed, epoch |-> epoch, agents |-> agents]
                  /\ excused' = FALSE
               \/ UNCHANGED <<acked, excused>>
        BY <2>2 DEF SaveFsync, DegradeReturn, Answer
      <3>2. ~excused => killed \/ (~acked.killed /\ acked.agents \subseteq agents)
        BY <3>1 DEF IInv, RunningPays
      <3>3. CASE /\ acked' = [killed |-> killed, epoch |-> epoch, agents |-> agents]
                 /\ excused' = FALSE
        <4>1. Promise!Answer
          BY <3>1, <3>2, <3>3, <1>k, <1>d DEF Promise!Answer, Promise!Denials,
                                              Promise!Covers
        <4> QED BY <4>1 DEF Promise!Next
      <3>4. CASE UNCHANGED <<acked, excused>>
        <4>1. Promise!Boot
          BY <3>1, <3>2, <3>4, <1>k, <1>d DEF Promise!Boot, Promise!Denials,
                                              Promise!Covers
        <4> QED BY <4>1 DEF Promise!Next
      <3> QED BY <3>1, <3>3, <3>4
    <2> QED BY <1>c, <2>1, <2>2 DEF PersistStep
  <1>d2. CASE Environment
    <2>1. CASE Crash \/ PowerCut
      <3>1. /\ pc' = "down" /\ UNCHANGED <<acked, durable>>
            /\ \/ pc /= "down" /\ excused' = (excused \/ quarantineFailed \/ Unmarked)
               \/ excused' = (excused \/ ~durable)
        BY <2>1 DEF Crash, PowerCut, Die
      <3>2. \/ excused' = excused
            \/ excused' = TRUE /\ (~durable \/ pc \notin {"idle", "down"})
        BY <3>1, <1>d DEF WarnsWhenLost, Unmarked
      <3>3. Promise!Die
        BY <3>1, <3>2, <1>d DEF Promise!Die, Promise!Nothing
      <3> QED BY <3>3 DEF Promise!Next
    <2>2. CASE Rot \/ Vanish
      BY <2>2, <1>s DEF Rot, Vanish, Damage
    <2> QED BY <1>d2, <2>1, <2>2 DEF Environment
  <1>e. CASE UNCHANGED vars
    BY <1>e, <1>s DEF vars
  <1> QED BY <1>a, <1>b, <1>c, <1>d2, <1>e DEF Next

\* The kill switch over its file store implements the switch that only
\* promises: what it answered as denied, a later process denies, until an
\* owner's restore or a warning given before the loss.
THEOREM PromiseKept == Spec => KeepsPromise
  <1>1. Init => WarnsWhenLost
    BY DEF Init, WarnsWhenLost
  <1>2. Spec => []WarnsWhenLost
    BY <1>1, WarnStep, IInvHolds, PTL DEF Spec
  <1>3. IInv /\ IInv' /\ WarnsWhenLost /\ [Next]_vars => [Promise!Next]_(Promise!vars)
    BY PromiseStep
  <1> QED
    BY <1>2, <1>3, PromiseInit, IInvHolds, PTL DEF Spec, KeepsPromise, Promise!Spec
=============================================================================
