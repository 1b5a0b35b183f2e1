---------------------------- MODULE RegistryProofs ----------------------------
(***************************************************************************)
(* Proofs about the registry of devices, for every set of keys, of static  *)
(* ids and of keys files an operator may boot with, every limit and every  *)
(* v1 file: an enrolment is for ever, a key has one identity, a device is  *)
(* admitted on live authority, and an answered revocation holds.           *)
(***************************************************************************)
EXTENDS Registry, FiniteSetTheorems, TLAPS

-----------------------------------------------------------------------------
(* The inductive invariant.                                                *)

\* The registries a process serves now or may come to serve: in memory, in
\* the file as seen, in the file after a power cut.
Kept == {vis.state, dur.state, mem} \ {None}

\* A registry as load() accepts it and save() writes it.
Sound(r) ==
    r \in States /\ KeysDistinct(r) /\ r.gen <= Len(r.devices) + 1

\* What is up, and what only a process that is up can hold.
PhaseInv ==
    /\ phase = "down" => mem = None
    /\ phase /= "up" => invites = {} /\ trusted = {}

\* A registry that says of the past what was answered: the enrolments.
Remembers(r) == \A a \in acked : HasKey(r, a.key) /\ (a.root => r.gen > a.gen)

\* What was answered 201 is in every registry, and the markers keep a process
\* from taking a missing file for a first boot.
AckInv ==
    /\ \A r \in Kept : Sound(r) /\ Remembers(r)
    /\ acked /= {} => vis.marker /\ dur.marker

\* No static name of a phone that is enrolled is trusted.
AliasInv ==
    phase = "up" /\ mem /= None =>
        \A s \in trusted : \A i \in DOMAIN mem.devices : prov[s] /= mem.devices[i].key

\* An invite is known by its id, was spent by nobody, and is worth nothing
\* once its authority has ended.
InviteInv ==
    /\ dead \subseteq 1 .. minted
    /\ \A a \in acked : a.invite <= minted
    /\ \A x \in invites :
        /\ x.id <= minted /\ x.epoch <= epoch
        /\ \A a \in acked : a.invite /= x.id
        /\ \A y \in invites : y.id = x.id => y = x
        /\ mem /= None => x.by <= Len(mem.devices)
        /\ x.id \in dead => x.epoch < epoch \/ mem = None \/ (x.by /= 0 /\ x.by \notin Active(mem))

\* The standing files a boot may find.
Found == solder \union {sfile}

\* Entries of the registry carry a key, so that they are tombstoned.
EntryInv ==
    \A e \in history \union UNION {f.entries : f \in Found} :
        e.id \in DeviceIds => e.key /= NoKey

\* A registry in which device i is revoked.
Severs(r, i) == i \in DOMAIN r.devices /\ ~r.devices[i].active

\* Every standing file there is says that id is revoked; of a static id, which
\* is trusted when no file speaks of it, there is an entry in each.
FilesAgree(id) ==
    /\ \A f \in Found : \A e \in f.entries : e.id = id => ~e.active
    /\ id \in StaticIds => \A f \in Found : f.st = "ok" /\ \E e \in f.entries : e.id = id

\* A process that boots with keys p and old entries h writes of s in every
\* export, and never that it is active.
Covered(s, p, h) ==
    /\ s \in Provisioned(p) \/ \E e \in h : e.id = s
    /\ \A e \in h : e.id = s => ~e.active

\* The old entries are of ids that are not in the keys file.
HistoryInv == \A e \in history : e.id \notin Provisioned(prov)

\* Every registry and every standing file there is agrees with an answered
\* revocation, and this process will not write another.
RevocationInv ==
    /\ \A id \in Ids : answered[id] = "refused" => killed
    /\ \A id \in Ids : answered[id] = "done" => FilesAgree(id)
    /\ \A i \in DeviceIds : answered[i] = "done" =>
          vis.marker /\ dur.marker /\ \A r \in Kept : Severs(r, i)
    /\ \A s \in StaticIds : answered[s] = "done" =>
          s \notin trusted /\ (phase = "up" => Covered(s, prov, history))

RInv ==
    /\ Inv
    /\ PhaseInv /\ AckInv /\ AliasInv /\ InviteInv /\ EntryInv /\ HistoryInv
    /\ ~StandingFaults => RevocationInv

-----------------------------------------------------------------------------
(* What a registry becomes.                                                *)

\* r is a registry that q may become: no record goes, none changes its key,
\* none that was revoked is active again, and the bootstrap lane stays closed.
Later(q, r) ==
    /\ Len(q.devices) <= Len(r.devices)
    /\ \A i \in DOMAIN q.devices :
          r.devices[i].key = q.devices[i].key /\ (r.devices[i].active => q.devices[i].active)
    /\ q.gen <= r.gen

\* What the model knows of a registry: a sequence of records, and two numbers.
LEMMA StateShape ==
    ASSUME NEW r \in States
    PROVE  /\ r.devices \in Seq(Devices) /\ Len(r.devices) \in 0 .. MaxDevices
           /\ DOMAIN r.devices = 1 .. Len(r.devices)
           /\ r.gen \in 1 .. MaxDevices + 2 /\ r.gen \in Nat
           /\ r.owners \subseteq Owners /\ r.version \in {1, 2}
           /\ \A i \in DOMAIN r.devices : r.devices[i] \in Devices
  <1>1. PICK n \in 0 .. MaxDevices : r.devices \in [1 .. n -> Devices]
    BY DEF States
  <1>2. n \in Nat /\ MaxDevices \in Nat
    BY LimitAssumption
  <1>3. r.devices \in Seq(Devices) /\ Len(r.devices) = n
    BY <1>1, <1>2
  <1> QED BY <1>1, <1>2, <1>3 DEF States

\* It is a record of these four fields.
LEMMA StateRecord ==
    ASSUME NEW r \in States
    PROVE  r \in [version : {1, 2}, gen : 1 .. MaxDevices + 2,
                  devices : Seq(Devices), owners : SUBSET Owners]
  <1>1. States \subseteq [version : {1, 2}, gen : 1 .. MaxDevices + 2,
                  devices : Seq(Devices), owners : SUBSET Owners]
    <2>1. UNION {[1 .. n -> Devices] : n \in 0 .. MaxDevices} \subseteq Seq(Devices)
      BY LimitAssumption
    <2> QED BY <2>1 DEF States
  <1> QED BY <1>1

\* ... and what makes one.
LEMMA MakeState ==
    ASSUME NEW v \in {1, 2}, NEW g \in Nat, g >= 1,
           NEW d \in Seq(Devices), Len(d) <= MaxDevices, g <= Len(d) + 1,
           NEW o, o \subseteq Owners
    PROVE  [version |-> v, gen |-> g, devices |-> d, owners |-> o] \in States
  <1>1. Len(d) \in 0 .. MaxDevices /\ d \in [1 .. Len(d) -> Devices]
    BY LimitAssumption
  <1>2. g \in 1 .. MaxDevices + 2
    BY LimitAssumption, <1>1
  <1> QED BY <1>1, <1>2 DEF States

LEMMA LaterRefl == ASSUME NEW r \in States PROVE Later(r, r)
  BY StateShape DEF Later

LEMMA InitialSound == Sound(Initial)
  <1>1. <<>> \in Seq(Devices) /\ Len(<<>>) = 0
    OBVIOUS
  <1>2. Len(<<>>) <= MaxDevices /\ {} \subseteq Owners /\ 1 <= Len(<<>>) + 1
    BY LimitAssumption, <1>1
  <1>3. Initial \in States
    <2> HIDE DEF Devices
    <2>1. 1 \in Nat /\ 1 >= 1 /\ 2 \in {1, 2}
      OBVIOUS
    <2> QED BY <1>1, <1>2, <2>1, MakeState DEF Initial
  <1> QED BY <1>1, <1>2, <1>3 DEF Initial, Sound, KeysDistinct

\* A migrated registry has the same devices.
LEMMA MigratedSound ==
    ASSUME NEW r, Sound(r)
    PROVE  Sound(Migrated(r)) /\ Later(r, Migrated(r))
  <1>1. r \in States
    BY DEF Sound
  <1> DEFINE own == {r.devices[i].owner : i \in DOMAIN r.devices}
  <1>2. own \subseteq Owners
    <2>1. \A i \in DOMAIN r.devices : r.devices[i] \in Devices
      BY <1>1, StateShape
    <2> QED BY <2>1 DEF Devices
  <1>3. Migrated(r) = [version |-> 2, gen |-> r.gen, devices |-> r.devices, owners |-> own]
    <2> DEFINE D == Seq(Devices)
    <2>1. r \in [version : {1, 2}, gen : 1 .. MaxDevices + 2, devices : D, owners : SUBSET Owners]
      BY <1>1, StateRecord
    <2>2. Migrated(r) = [r EXCEPT !.version = 2, !.owners = own]
      BY DEF Migrated
    <2> HIDE DEF D, own
    <2> QED BY <2>1, <2>2
  <1>4. Migrated(r) \in States
    <2> HIDE DEF own
    <2> QED BY <1>1, <1>2, <1>3, StateShape, MakeState DEF Sound
  <1> QED BY <1>1, <1>3, <1>4, StateShape DEF Sound, KeysDistinct, Later

\* ... and so has one with another owner's handle.
LEMMA OwnersSound ==
    ASSUME NEW r, Sound(r), NEW o \in Owners
    PROVE  LET q == [r EXCEPT !.owners = @ \union {o}] IN Sound(q) /\ Later(r, q)
  <1>1. r \in States
    BY DEF Sound
  <1> DEFINE q == [r EXCEPT !.owners = @ \union {o}]
  <1>2. q = [version |-> r.version, gen |-> r.gen, devices |-> r.devices, owners |-> r.owners \union {o}]
    <2> DEFINE D == Seq(Devices)
    <2>1. r \in [version : {1, 2}, gen : 1 .. MaxDevices + 2, devices : D, owners : SUBSET Owners]
      BY <1>1, StateRecord
    <2> HIDE DEF D
    <2> QED BY <2>1
  <1>3. q \in States
    BY <1>1, <1>2 DEF States
  <1> QED BY <1>1, <1>2, <1>3, StateShape DEF Sound, KeysDistinct, Later

\* A revocation ends one device and leaves the rest.
LEMMA RevokedSound ==
    ASSUME NEW r, Sound(r), NEW i \in DOMAIN r.devices
    PROVE  /\ Sound(Revoked(r, i)) /\ Later(r, Revoked(r, i)) /\ Severs(Revoked(r, i), i)
           /\ DOMAIN Revoked(r, i).devices = DOMAIN r.devices
           /\ \A j \in DOMAIN r.devices : Revoked(r, i).devices[j].key = r.devices[j].key
           /\ ~r.devices[i].active => Revoked(r, i) = r
  <1>1. r \in States
    BY DEF Sound
  <1>2. r.devices \in Seq(Devices) /\ DOMAIN r.devices = 1 .. Len(r.devices) /\ Len(r.devices) \in Nat
    BY <1>1, StateShape, LimitAssumption
  <1> DEFINE x == [r.devices[i] EXCEPT !.active = FALSE]
             d == [r.devices EXCEPT ![i] = x]
  <1>3. r.devices[i] \in Devices
    BY <1>2
  <1>4. x \in Devices /\ x.key = r.devices[i].key /\ x.active = FALSE
        /\ (~r.devices[i].active => x = r.devices[i])
    BY <1>3 DEF Devices
  <1>5. d \in Seq(Devices) /\ Len(d) = Len(r.devices) /\ DOMAIN d = DOMAIN r.devices
        /\ d[i] = x /\ \A j \in DOMAIN r.devices \ {i} : d[j] = r.devices[j]
    <2> HIDE DEF x
    <2> QED BY <1>2, <1>4
  <1>6. Revoked(r, i) = [version |-> r.version, gen |-> r.gen, devices |-> d, owners |-> r.owners]
    <2> DEFINE D == Seq(Devices)
    <2>1. r \in [version : {1, 2}, gen : 1 .. MaxDevices + 2, devices : D, owners : SUBSET Owners]
      BY <1>1, StateRecord
    <2>2. Revoked(r, i) = [r EXCEPT !.devices = d]
      BY DEF Revoked
    <2> HIDE DEF D, d
    <2> QED BY <2>1, <2>2
  <1> HIDE DEF x, d
  <1>7. Revoked(r, i) \in States
    BY <1>1, <1>5, <1>6, StateShape, MakeState DEF Sound
  <1>8. ~r.devices[i].active => d = r.devices
    BY <1>2, <1>4, <1>5
  <1>9. \A j \in DOMAIN r.devices : d[j].key = r.devices[j].key
    BY <1>4, <1>5
  <1>10. Later(r, Revoked(r, i))
    <2>1. r.gen <= r.gen
      BY <1>1, StateShape
    <2>2. \A j \in DOMAIN r.devices : d[j].active => r.devices[j].active
      BY <1>4, <1>5
    <2> QED BY <1>2, <1>5, <1>6, <1>9, <2>1, <2>2 DEF Later
  <1>11. Sound(Revoked(r, i))
    <2>1. Len(d) = Len(r.devices) /\ r.gen <= Len(r.devices) + 1
      BY <1>5 DEF Sound
    <2>2. KeysDistinct(Revoked(r, i))
      BY <1>5, <1>6, <1>9 DEF KeysDistinct, Sound
    <2>3. Revoked(r, i).gen = r.gen /\ Revoked(r, i).devices = d
      BY <1>6
    <2> QED BY <1>7, <2>1, <2>2, <2>3 DEF Sound
  <1>12. ~r.devices[i].active => Revoked(r, i) = r
    <2> DEFINE D == Seq(Devices)
    <2>1. r \in [version : {1, 2}, gen : 1 .. MaxDevices + 2, devices : D, owners : SUBSET Owners]
      BY <1>1, StateRecord
    <2> HIDE DEF D
    <2> QED BY <2>1, <1>6, <1>8
  <1> QED BY <1>4, <1>5, <1>6, <1>9, <1>10, <1>11, <1>12 DEF Severs

\* An admission adds one device, with a key the registry never held.
LEMMA AdmittedSound ==
    ASSUME NEW r, Sound(r), NEW inv \in Invites, NEW k \in Keys,
           ~HasKey(r, k), Len(r.devices) < MaxDevices
    PROVE  LET q == Admitted(r, inv, k) IN
           /\ Sound(q) /\ Later(r, q) /\ HasKey(q, k)
           /\ inv.by = 0 => q.gen = r.gen + 1
           /\ Len(q.devices) = Len(r.devices) + 1
           /\ q.devices[Len(r.devices) + 1].key = k
           /\ \A i \in DOMAIN r.devices : q.devices[i] = r.devices[i]
  <1>1. r \in States
    BY DEF Sound
  <1>2. r.devices \in Seq(Devices) /\ DOMAIN r.devices = 1 .. Len(r.devices) /\ Len(r.devices) \in Nat
        /\ r.gen \in Nat /\ r.gen >= 1
    BY <1>1, StateShape, LimitAssumption
  <1> DEFINE x == [key |-> k, owner |-> inv.owner, active |-> TRUE]
             d == Append(r.devices, x)
             g == IF inv.by = 0 THEN r.gen + 1 ELSE r.gen
  <1>3. x \in Devices /\ x.key = k
    BY DEF Devices, Invites
  <1>4. d \in Seq(Devices) /\ Len(d) = Len(r.devices) + 1 /\ d[Len(r.devices) + 1] = x
        /\ DOMAIN d = 1 .. Len(r.devices) + 1
        /\ \A i \in DOMAIN r.devices : d[i] = r.devices[i]
    <2> HIDE DEF x
    <2> QED BY <1>2, <1>3
  <1>5. Admitted(r, inv, k) = [version |-> r.version, gen |-> g, devices |-> d, owners |-> r.owners]
    <2> DEFINE D == Seq(Devices)
    <2>1. r \in [version : {1, 2}, gen : 1 .. MaxDevices + 2, devices : D, owners : SUBSET Owners]
      BY <1>1, StateRecord
    <2>2. Admitted(r, inv, k) = [r EXCEPT !.gen = g, !.devices = d]
      BY DEF Admitted
    <2> HIDE DEF D, d, g
    <2> QED BY <2>1, <2>2
  <1>6. g \in Nat /\ g >= 1 /\ r.gen <= g /\ (inv.by = 0 => g = r.gen + 1) /\ g <= Len(d) + 1
    BY <1>2, <1>4 DEF Sound
  <1> HIDE DEF x, d, g
  <1>7. Admitted(r, inv, k) \in States
    <2>1. r.version \in {1, 2} /\ r.owners \subseteq Owners
      BY <1>1, StateShape
    <2>2. Len(d) <= MaxDevices
      BY <1>2, <1>4, LimitAssumption
    <2> QED BY <1>4, <1>5, <1>6, <2>1, <2>2, MakeState
  <1>8. Later(r, Admitted(r, inv, k))
    BY <1>2, <1>4, <1>5, <1>6 DEF Later
  <1>9. KeysDistinct(Admitted(r, inv, k))
    <2> SUFFICES ASSUME NEW i \in DOMAIN d, NEW j \in DOMAIN d, d[i].key = d[j].key
                 PROVE  i = j
      BY <1>5 DEF KeysDistinct
    <2>1. CASE i \in DOMAIN r.devices /\ j \in DOMAIN r.devices
      BY <2>1, <1>4 DEF KeysDistinct, Sound
    <2>2. CASE i = Len(r.devices) + 1 /\ j \in DOMAIN r.devices
      BY <2>2, <1>3, <1>4 DEF HasKey
    <2>3. CASE j = Len(r.devices) + 1 /\ i \in DOMAIN r.devices
      BY <2>3, <1>3, <1>4 DEF HasKey
    <2> QED BY <2>1, <2>2, <2>3, <1>2, <1>4
  <1> QED BY <1>2, <1>3, <1>4, <1>5, <1>6, <1>7, <1>8, <1>9 DEF Sound, HasKey
-----------------------------------------------------------------------------
(* What a step does to the registries that are kept.                       *)

\* What is served is durable, every registry kept now was kept or comes of one
\* that was, but for the first, which no marker forbade, and no marker goes.
RegistryMoves ==
    /\ RegistryOK' /\ ServedIsDurable'
    /\ \A q \in Kept' :
          Sound(q) /\ ((\E p \in Kept : Later(p, q)) \/ (q = Initial /\ ~vis.marker))
    /\ vis.marker /\ dur.marker => vis'.marker /\ dur'.marker

\* A directory is its two parts, and no registry is the missing one.
LEMMA KeptShape ==
    ASSUME RegistryOK
    PROVE  /\ vis = [marker |-> vis.marker, state |-> vis.state]
           /\ dur = [marker |-> dur.marker, state |-> dur.state]
           /\ vis.marker \in BOOLEAN /\ dur.marker \in BOOLEAN
           /\ Kept \subseteq States
           /\ \A q \in Kept : Later(q, q)
           /\ \A q : Sound(q) => q /= None
  <1>1. vis \in [marker : BOOLEAN, state : States \union {None}]
        /\ dur \in [marker : BOOLEAN, state : States \union {None}]
    BY DEF RegistryOK, Directories
  <1> HIDE DEF States
  <1>2. Kept \subseteq States
    BY <1>1 DEF RegistryOK, Kept
  <1>3. \A q \in Kept : Later(q, q)
    BY <1>2, LaterRefl
  <1> QED BY <1>1, <1>2, <1>3, LegacyAssumption DEF Sound

LEMMA MarkerSet ==
    ASSUME NEW S, NEW v \in [marker : BOOLEAN, state : S]
    PROVE  /\ [v EXCEPT !.marker = TRUE] = [marker |-> TRUE, state |-> v.state]
           /\ [v EXCEPT !.marker = TRUE].state = v.state
  <1> DEFINE w == [v EXCEPT !.marker = TRUE]
  <1>1. w \in [marker : BOOLEAN, state : S] /\ w.state = v.state /\ w.marker = TRUE
    OBVIOUS
  <1> HIDE DEF w
  <1>2. w = [marker |-> TRUE, state |-> v.state]
    BY <1>1
  <1> QED BY <1>1, <1>2 DEF w

\* A registry may be left alone, or no more served.
LEMMA LeftAlone ==
    ASSUME RegistryOK, ServedIsDurable, \A p \in Kept : Sound(p),
           UNCHANGED <<vis, dur>>, mem' \in {mem, None}, phase' \in {"down", "half", "up"}
    PROVE  RegistryMoves
  <1>1. RegistryOK' /\ ServedIsDurable'
    BY DEF RegistryOK, ServedIsDurable
  <1>2. Kept' \subseteq Kept
    BY DEF Kept
  <1> QED BY <1>1, <1>2, KeptShape DEF RegistryMoves

\* A publish of what the registry in memory becomes, whatever its outcome.
LEMMA PublishMoves ==
    ASSUME RegistryOK, ServedIsDurable, \A p \in Kept : Sound(p), mem /= None,
           NEW r, Sound(r), Later(mem, r), NEW out \in Outcomes, Publish(r, out),
           mem' = None \/ mem' = Served(r, out, mem), phase' = phase
    PROVE  RegistryMoves
  <1>1. r \in States /\ r /= None
    BY LegacyAssumption DEF Sound
  <1>2. mem \in Kept /\ vis.marker /\ vis.state = mem /\ dur = vis
    BY DEF Kept, ServedIsDurable
  <1>3. [vis EXCEPT !.marker = TRUE] = vis
    BY <1>2, KeptShape
  <1>4. CASE out = "failed"
    <2>1. UNCHANGED <<vis, dur>> /\ mem' \in {mem, None}
      BY <1>4, <1>3 DEF Publish, Served
    <2> QED BY <2>1, LeftAlone DEF RegistryOK
  <1>5. CASE out \in {"durable", "unproven"}
    <2>1. vis' = [marker |-> TRUE, state |-> r] /\ dur' \in {vis', dur} /\ mem' \in {r, None}
          /\ (mem' = r => dur' = vis')
      BY <1>5, <1>1 DEF Publish, Served
    <2>2. RegistryOK' /\ ServedIsDurable'
      <3>1. [marker |-> TRUE, state |-> r] \in Directories
        BY <1>1 DEF Directories
      <3>2. vis' \in Directories /\ dur' \in Directories
        BY <2>1, <3>1 DEF RegistryOK
      <3>3. mem' \in States \union {None} /\ phase' \in {"down", "half", "up"}
        BY <2>1, <1>1 DEF RegistryOK
      <3>4. mem' /= None => vis'.state = mem' /\ dur' = vis' /\ vis'.marker
        BY <2>1
      <3> QED BY <3>2, <3>3, <3>4 DEF RegistryOK, ServedIsDurable
    <2>3. \A q \in Kept' : q = r \/ q \in Kept
      BY <2>1 DEF Kept
    <2> QED BY <2>1, <2>2, <2>3, <1>2, KeptShape DEF RegistryMoves
  <1> QED BY <1>4, <1>5 DEF Outcomes

\* A boot reads a registry, makes the first, or serves none.
LEMMA BootMoves ==
    ASSUME RegistryOK, ServedIsDurable, \A p \in Kept : Sound(p),
           phase = "down" => mem = None, BootRegistry
    PROVE  RegistryMoves
  <1>1. phase' = "half" /\ mem = None
    BY DEF BootRegistry
  <1>2. CASE mem' = None /\ UNCHANGED <<vis, dur>>
    BY <1>1, <1>2, LeftAlone
  <1>3. ASSUME FirstBoot, NEW out \in Outcomes, Publish(Initial, out), mem' = Served(Initial, out, None)
        PROVE  RegistryMoves
    <2>1. Sound(Initial) /\ Initial \in States /\ Initial /= None /\ vis.state = None /\ ~vis.marker
      BY <1>3, InitialSound, KeptShape DEF Sound, FirstBoot
    <2> DEFINE marked == [vis EXCEPT !.marker = TRUE]
               first == [marker |-> TRUE, state |-> Initial]
    <2>2. vis' \in {vis, marked, first}
          /\ dur' \in {vis', dur} /\ mem' \in {Initial, None}
          /\ (mem' = Initial => dur' = vis' /\ vis' = first)
      BY <1>3, <2>1 DEF Publish, Served, Outcomes
    <2>3. vis' \in Directories /\ vis'.state \in {None, Initial}
      <3>1. first \in Directories /\ first.state = Initial
        BY <2>1 DEF Directories
      <3>2. vis.state \in States \union {None} /\ vis \in Directories
        BY DEF RegistryOK, Directories
      <3>3. marked \in Directories /\ marked.state = vis.state
        BY MarkerSet DEF RegistryOK, Directories
      <3> HIDE DEF marked, first
      <3> QED BY <2>1, <2>2, <3>1, <3>2, <3>3
    <2>4. RegistryOK' /\ ServedIsDurable'
      BY <1>1, <2>1, <2>2, <2>3 DEF RegistryOK, ServedIsDurable
    <2>5. \A q \in Kept' : q = Initial \/ q \in Kept
      BY <2>1, <2>2, <2>3 DEF Kept
    <2> QED BY <2>1, <2>4, <2>5, KeptShape DEF RegistryMoves
  <1>4. CASE LoadLegacy
    <2> DEFINE m == Migrated(vis.state)
    <2>1. vis.state \in Kept
      BY <1>4 DEF LoadLegacy, Kept
    <2>2. Sound(m) /\ Later(vis.state, m) /\ m /= None /\ m \in States
      BY <2>1, MigratedSound, KeptShape DEF Sound
    <2> HIDE DEF m
    <2>3. PICK out \in Outcomes :
            /\ vis' = [marker |-> TRUE, state |-> IF out = "failed" THEN vis.state ELSE m]
            /\ dur' = IF out = "durable" THEN vis' ELSE [marker |-> TRUE, state |-> vis.state]
            /\ mem' = Served(m, out, None)
      BY <1>4 DEF LoadLegacy, m
    <2>4. vis'.marker /\ dur'.marker /\ vis'.state \in {vis.state, m} /\ dur'.state \in {vis.state, m}
          /\ mem' \in {m, None} /\ (mem' /= None => vis'.state = mem' /\ dur' = vis')
      BY <2>2, <2>3 DEF Served, Outcomes
    <2>5. RegistryOK' /\ ServedIsDurable'
      <3>1. vis.state \in States \union {None}
        BY DEF RegistryOK, Directories
      <3>2. vis' \in Directories /\ dur' \in Directories
        BY <2>2, <2>3, <3>1 DEF Directories
      <3> QED BY <1>1, <2>2, <2>4, <3>2 DEF RegistryOK, ServedIsDurable
    <2>6. \A q \in Kept' : q = m \/ q \in Kept
      BY <2>1, <2>4 DEF Kept
    <2> QED BY <2>1, <2>2, <2>4, <2>5, <2>6, KeptShape DEF RegistryMoves
  <1>5. CASE LoadCurrent
    <2>1. vis' = [marker |-> TRUE, state |-> vis.state] /\ dur' = vis' /\ mem' = vis.state
      BY <1>5, KeptShape DEF LoadCurrent
    <2>2. RegistryOK' /\ ServedIsDurable'
      BY <1>1, <2>1 DEF RegistryOK, ServedIsDurable, Directories
    <2>3. \A q \in Kept' : q \in Kept
      BY <2>1 DEF Kept
    <2> QED BY <2>1, <2>2, <2>3, KeptShape DEF RegistryMoves
  <1> QED BY <1>2, <1>3, <1>4, <1>5 DEF BootRegistry

\* The steps that publish: a mint, an admission, a revocation.
LEMMA HandlerMoves ==
    ASSUME TypeOK, ServedIsDurable, \A p \in Kept : Sound(p),
           \/ \E o \in Owners, by \in DeviceIds \union {0} : Mint(o, by)
           \/ \E inv \in invites, k \in Keys : EnrolNotAdmitted(inv, k) \/ Enrol(inv, k)
           \/ \E i \in DeviceIds : RevokeEnrolled(i) \/ RevokeEnrolledUnwritten(i)
    PROVE  RegistryMoves
  <1> USE DEF TypeOK
  <1>0. RegistryOK /\ (mem /= None => mem \in Kept)
    BY DEF Kept
  <1>1. ASSUME NEW o \in Owners, NEW by \in DeviceIds \union {0}, Mint(o, by) PROVE RegistryMoves
    <2>1. mem /= None /\ phase' = phase
      BY <1>1 DEF Mint
    <2>2. CASE UNCHANGED registry
      BY <1>0, <2>1, <2>2, LeftAlone DEF registry, RegistryOK
    <2>3. ASSUME NEW out \in Outcomes, Publish([mem EXCEPT !.owners = @ \union {o}], out),
                 mem' = Served([mem EXCEPT !.owners = @ \union {o}], out, mem)
          PROVE  RegistryMoves
      <3> DEFINE r == [mem EXCEPT !.owners = @ \union {o}]
      <3>1. Sound(r) /\ Later(mem, r)
        BY <1>0, <2>1, OwnersSound
      <3> HIDE DEF r
      <3>2. Publish(r, out) /\ mem' = Served(r, out, mem)
        BY <2>3 DEF r
      <3> QED BY <1>0, <2>1, <3>1, <3>2, PublishMoves
    <2> QED BY <1>1, <2>2, <2>3 DEF Mint
  <1>2. ASSUME NEW inv \in invites, NEW k \in Keys, EnrolNotAdmitted(inv, k) \/ Enrol(inv, k)
        PROVE  RegistryMoves
    <2>1. mem /= None /\ phase' = phase /\ inv \in Invites
      BY <1>2 DEF EnrolNotAdmitted, Enrol, Enrolling, InvitesOK
    <2>2. CASE UNCHANGED registry
      BY <1>0, <2>1, <2>2, LeftAlone DEF registry, RegistryOK
    <2> DEFINE r == Admitted(mem, inv, k)
    <2>3. ASSUME ~KnownKey(k), Len(mem.devices) < MaxDevices PROVE Sound(r) /\ Later(mem, r)
      BY <1>0, <2>1, <2>3, AdmittedSound DEF KnownKey
    <2>4. CASE Enrol(inv, k)
      <3>1. Publish(r, "durable") /\ mem' = r /\ Sound(r) /\ Later(mem, r)
        BY <2>3, <2>4 DEF Enrol
      <3> HIDE DEF r
      <3> QED BY <1>0, <2>1, <3>1, PublishMoves DEF Served, Outcomes
    <2>5. CASE EnrolNotAdmitted(inv, k) /\ ~UNCHANGED registry
      <3>1. PICK out \in Outcomes \ {"durable"} : Publish(r, out) /\ mem' = Served(r, out, mem)
        BY <2>5 DEF EnrolNotAdmitted
      <3>2. Sound(r) /\ Later(mem, r)
        BY <2>3, <2>5 DEF EnrolNotAdmitted
      <3> HIDE DEF r
      <3> QED BY <1>0, <2>1, <3>1, <3>2, PublishMoves
    <2> QED BY <1>2, <2>2, <2>4, <2>5
  <1>3. ASSUME NEW i \in DeviceIds, RevokeEnrolled(i) \/ RevokeEnrolledUnwritten(i)
        PROVE  RegistryMoves
    <2> DEFINE r == Revoked(mem, i)
    <2>1. mem /= None /\ phase' = phase /\ i \in DOMAIN mem.devices
      BY <1>3 DEF RevokeEnrolled, RevokeEnrolledUnwritten, Active
    <2>2. Sound(r) /\ Later(mem, r) /\ (~mem.devices[i].active => r = mem)
      BY <1>0, <2>1, RevokedSound
    <2>3. CASE RevokeEnrolled(i)
      <3>1. mem' = r /\ (Publish(r, "durable") \/ (~mem.devices[i].active /\ UNCHANGED <<vis, dur>>))
        BY <2>1, <2>3 DEF RevokeEnrolled, Active
      <3> HIDE DEF r
      <3> QED BY <1>0, <2>1, <2>2, <3>1, PublishMoves, LeftAlone DEF Served, Outcomes, RegistryOK
    <2>4. CASE RevokeEnrolledUnwritten(i)
      <3>1. PICK out \in Outcomes \ {"durable"} : Publish(r, out) /\ mem' = None
        BY <2>4 DEF RevokeEnrolledUnwritten, RevocationFails
      <3> HIDE DEF r
      <3> QED BY <1>0, <2>1, <2>2, <3>1, PublishMoves
    <2> QED BY <1>3, <2>3, <2>4
  <1> QED BY <1>1, <1>2, <1>3

\* Every step.
LEMMA RegistryStep ==
    ASSUME TypeOK, ServedIsDurable, PhaseInv, \A p \in Kept : Sound(p), [Next]_vars
    PROVE  RegistryMoves
  <1> USE DEF TypeOK
  <1>1. CASE BootRegistry
    BY <1>1, BootMoves DEF PhaseInv
  <1>2. CASE \/ \E p \in Provisions : BootStanding(p) \/ BootStandingCorrupt(p)
             \/ Kill \/ Restore
             \/ \E inv \in invites : Expire(inv) \/ EnrolUnproven(inv) \/ EnrolRefused(inv)
             \/ \E s \in StaticIds : RevokeStatic(s) \/ RevokeStaticAgain(s)
             \/ UNCHANGED vars
    <2>1. UNCHANGED <<vis, dur>> /\ mem' \in {mem, None} /\ phase' \in {"down", "half", "up"}
      BY <1>2 DEF BootStanding, BootStandingCorrupt, Kill, Restore, Expire, EnrolUnproven,
                  EnrolRefused, RevokeStatic, RevokeStaticAgain, vars, registry, RegistryOK
    <2> QED BY <2>1, LeftAlone
  <1>3. CASE Stop
    <2>1. phase' = "down" /\ mem' = None /\ vis' \in {vis, dur} /\ dur' \in {vis, dur}
      BY <1>3 DEF Stop
    <2>2. RegistryOK' /\ ServedIsDurable' /\ Kept' \subseteq Kept
      BY <2>1 DEF RegistryOK, ServedIsDurable, Kept
    <2> QED BY <2>1, <2>2, KeptShape DEF RegistryMoves
  <1>4. CASE LoseFile
    <2>1. mem = None /\ mem' = mem /\ phase' = phase
          /\ vis' = [marker |-> vis.marker, state |-> None] /\ dur' = vis'
      BY <1>4, KeptShape DEF LoseFile, PhaseInv
    <2>2. RegistryOK' /\ ServedIsDurable' /\ Kept' \subseteq Kept
      BY <2>1 DEF RegistryOK, ServedIsDurable, Kept, Directories
    <2> QED BY <2>1, <2>2, KeptShape DEF RegistryMoves
  <1>5. CASE \/ \E o \in Owners : BootstrapMint(o)
             \/ \E o \in Owners, by \in DeviceIds : Mint(o, by)
             \/ \E inv \in invites, k \in Keys : EnrolNotAdmitted(inv, k) \/ Enrol(inv, k)
             \/ \E i \in DeviceIds : RevokeEnrolled(i) \/ RevokeEnrolledUnwritten(i)
    BY <1>5, HandlerMoves DEF BootstrapMint
  <1> QED BY <1>1, <1>2, <1>3, <1>4, <1>5 DEF Next
-----------------------------------------------------------------------------
(* What is exported.                                                       *)

LEMMA EntryTyped ==
    ASSUME NEW i \in Ids, NEW k \in Keys \union {NoKey}, NEW a \in BOOLEAN
    PROVE  Entry(i, k, a) \in Entries
  BY DEF Entry, Entries

\* An entry is of a provisioned id, of a record of the registry, or a
\* tombstone of an old one; and none of the three kinds is left out.
LEMMA ExportShape ==
    ASSUME NEW p \in [StaticIds -> Keys \union {NoKey}], NEW t, NEW h \in SUBSET Entries,
           NEW r \in States \union {None}
    PROVE  /\ ToExport(p, t, h, r) \subseteq Entries
           /\ \A e \in ToExport(p, t, h, r) :
                \/ e.id \in Provisioned(p) /\ e.key = NoKey /\ (e.active => e.id \in t)
                \/ /\ r /= None /\ e.id \in DOMAIN r.devices /\ e.id \in DeviceIds
                   /\ e.key = r.devices[e.id].key /\ e.active = r.devices[e.id].active
                   /\ e.key \in Keys
                \/ \E x \in h : e = Tombstone(x) /\ e.id = x.id /\ e.key = x.key
           /\ \A s \in Provisioned(p) : \E e \in ToExport(p, t, h, r) : e.id = s
           /\ \A x \in h : \E e \in ToExport(p, t, h, r) : e.id = x.id
  <1> DEFINE named == {Entry(s, NoKey, s \in t) : s \in Provisioned(p)}
             old == {Tombstone(x) : x \in h}
             fresh == named \union Projection(r)
             all == fresh \union {e \in old : \A f \in fresh : f.id /= e.id}
  <1>1. \A e \in named : /\ e \in Entries
                         /\ e.id \in Provisioned(p) /\ e.key = NoKey /\ (e.active => e.id \in t)
    <2> SUFFICES ASSUME NEW s \in Provisioned(p), NEW e, e = Entry(s, NoKey, s \in t)
                 PROVE  /\ e \in Entries
                        /\ e.id = s /\ e.key = NoKey /\ (e.active => e.id \in t)
      OBVIOUS
    <2>1. s \in Ids /\ NoKey \in Keys \union {NoKey}
      BY DEF Provisioned, Ids
    <2>2. Entry(s, NoKey, s \in t) \in Entries
      BY <2>1, (s \in t) \in BOOLEAN, EntryTyped
    <2>3. Entry(s, NoKey, s \in t).active <=> s \in t
      BY DEF Entry
    <2>4. Entry(s, NoKey, s \in t).id = s /\ Entry(s, NoKey, s \in t).key = NoKey
      BY DEF Entry
    <2> QED BY <2>2, <2>3, <2>4
  <1>2. \A s \in Provisioned(p) : Entry(s, NoKey, s \in t) \in named /\ Entry(s, NoKey, s \in t).id = s
    BY DEF Entry
  <1>3. ASSUME r /= None, NEW i \in DOMAIN r.devices
        PROVE  i \in DeviceIds /\ r.devices[i].key \in Keys /\ r.devices[i].active \in BOOLEAN
    <2>1. r \in States
      BY <1>3
    <2>2. r.devices[i] \in Devices /\ i \in 1 .. Len(r.devices) /\ Len(r.devices) \in 0 .. MaxDevices
      BY <2>1, <1>3, StateShape
    <2> QED BY <2>2, LimitAssumption DEF Devices, DeviceIds
  <1>4. \A e \in Projection(r) :
           /\ e \in Entries
           /\ r /= None /\ e.id \in DOMAIN r.devices /\ e.id \in DeviceIds
           /\ e.key = r.devices[e.id].key /\ e.active = r.devices[e.id].active
           /\ e.key \in Keys
    BY <1>3 DEF Projection, Entry, Entries, Ids
  <1>5. \A x \in h : Tombstone(x) \in Entries /\ Tombstone(x).id = x.id /\ Tombstone(x).key = x.key
    BY DEF Tombstone, Entries
  <1>6. ToExport(p, t, h, r) = all
    BY DEF ToExport
  <1> HIDE DEF named, old
  <1>7. \A e \in all : e \in named \/ e \in Projection(r) \/ e \in old
    OBVIOUS
  <1>8. \A e \in old : \E x \in h : e = Tombstone(x)
    BY DEF old
  <1>9. \A x \in h : \E e \in all : e.id = x.id
    <2> SUFFICES ASSUME NEW x \in h PROVE \E e \in all : e.id = x.id
      OBVIOUS
    <2>1. Tombstone(x) \in old /\ Tombstone(x).id = x.id
      BY <1>5 DEF old
    <2> QED BY <2>1
  <1>10. \A s \in Provisioned(p) : \E e \in all : e.id = s
    BY <1>2
  <1> HIDE DEF all
  <1>11. \A e \in all : e \in Entries
    BY <1>1, <1>4, <1>5, <1>7, <1>8
  <1>12. \A e \in old : \E x \in h : e = Tombstone(x) /\ e.id = x.id /\ e.key = x.key
    BY <1>5, <1>8
  <1> QED BY <1>1, <1>4, <1>6, <1>7, <1>9, <1>10, <1>11, <1>12

\* What a boot may find after an export.
LEMMA ExportFound ==
    ASSUME NEW entries \in SUBSET Entries, NEW out \in Outcomes, StandingOK, Export(entries, out)
    PROVE  /\ sfile' \in Files /\ solder' \subseteq Files
           /\ \A f \in Found' :
                \/ f \in Found \/ f = [st |-> "ok", entries |-> entries]
                \/ sfile.st = "absent" /\ f.entries = sfile.entries
           /\ out = "durable" => Found' = {[st |-> "ok", entries |-> entries]}
  <1> DEFINE new == [st |-> "ok", entries |-> entries]
             lost == [sfile EXCEPT !.st = "lost"]
  <1>1. new \in Files
    BY DEF Files
  <1>2. lost \in Files /\ lost.entries = sfile.entries
    BY DEF Files, StandingOK
  <1>3. /\ out /= "failed" => sfile' = new
        /\ out = "failed" => sfile' = sfile \/ (sfile.st = "absent" /\ sfile' = lost)
        /\ out = "durable" => solder' = {}
        /\ solder' \subseteq solder \union {sfile}
    BY DEF Export, Outcomes
  <1> HIDE DEF new, lost
  <1>4. sfile' \in Files /\ solder' \subseteq Files
    BY <1>1, <1>2, <1>3 DEF StandingOK
  <1>5. \A f \in Found' : f \in Found \/ f = new \/ (sfile.st = "absent" /\ f.entries = sfile.entries)
    BY <1>2, <1>3 DEF Found
  <1>6. out = "durable" => Found' = {new}
    BY <1>3 DEF Found
  <1> QED BY <1>4, <1>5, <1>6 DEF new

\* Entries that carry a key when they come of the registry.
Keyed(E) == \A e \in E : e.id \in DeviceIds => e.key /= NoKey

LEMMA ExportKeyed ==
    ASSUME NEW p \in [StaticIds -> Keys \union {NoKey}], NEW t, NEW h \in SUBSET Entries,
           NEW r \in States \union {None}, Keyed(h)
    PROVE  Keyed(ToExport(p, t, h, r))
  <1>1. StaticIds \intersect DeviceIds = {}
    BY KeyAssumption, LimitAssumption DEF DeviceIds
  <1> SUFFICES ASSUME NEW e \in ToExport(p, t, h, r), e.id \in DeviceIds PROVE e.key /= NoKey
    BY DEF Keyed
  <1>2. \/ e.id \in Provisioned(p) \/ e.key \in Keys \/ \E x \in h : e.id = x.id /\ e.key = x.key
    BY ExportShape
  <1> QED BY <1>1, <1>2, KeyAssumption DEF Keyed, Provisioned

\* An export keeps the files well typed and their entries keyed.
LEMMA ExportStep ==
    ASSUME StandingOK, EntryInv, NEW p \in [StaticIds -> Keys \union {NoKey}], NEW t,
           NEW h \in SUBSET Entries, Keyed(h), NEW r \in States \union {None},
           NEW out \in Outcomes, Export(ToExport(p, t, h, r), out)
    PROVE  sfile' \in Files /\ solder' \subseteq Files /\ \A f \in Found' : Keyed(f.entries)
  <1> DEFINE E == ToExport(p, t, h, r)
  <1>1. E \in SUBSET Entries /\ Keyed(E)
    BY ExportShape, ExportKeyed
  <1> HIDE DEF E
  <1>2. /\ sfile' \in Files /\ solder' \subseteq Files
        /\ \A f \in Found' :
             \/ f \in Found \/ f = [st |-> "ok", entries |-> E]
             \/ sfile.st = "absent" /\ f.entries = sfile.entries
    BY <1>1, ExportFound DEF E
  <1>3. \A f \in Found : Keyed(f.entries)
    BY DEF EntryInv, Keyed
  <1>4. sfile \in Found
    BY DEF Found
  <1> QED BY <1>1, <1>2, <1>3, <1>4
-----------------------------------------------------------------------------
(* Types, phases and entries.                                              *)

\* An admission or a revocation of a served registry is a registry.
LEMMA ServedStates ==
    ASSUME TypeOK, AckInv, mem /= None
    PROVE  /\ Sound(mem) /\ mem \in States /\ mem \in Kept
           /\ \A inv \in invites, k \in Keys :
                 ~KnownKey(k) /\ Len(mem.devices) < MaxDevices =>
                    Sound(Admitted(mem, inv, k)) /\ Admitted(mem, inv, k) \in States
           /\ \A i \in DOMAIN mem.devices :
                 Sound(Revoked(mem, i)) /\ Revoked(mem, i) \in States
  <1>1. mem \in Kept /\ Sound(mem)
    BY DEF Kept, AckInv
  <1>2. \A inv \in invites : inv \in Invites
    BY DEF TypeOK, InvitesOK
  <1> QED BY <1>1, <1>2, AdmittedSound, RevokedSound DEF KnownKey, Sound

\* The files and the history hold entries, those of the registry with a key.
LEMMA EntriesStep ==
    ASSUME TypeOK, AckInv, EntryInv, [Next]_vars
    PROVE  StandingOK' /\ EntryInv'
  <1> DEFINE Files2 == sfile' \in Files /\ solder' \subseteq Files /\ \A f \in Found' : Keyed(f.entries)
  <1>0. /\ StandingOK /\ RegistryOK /\ prov \in [StaticIds -> Keys \union {NoKey}]
        /\ history \in SUBSET Entries /\ Keyed(history) /\ mem \in States \union {None}
        /\ \A f \in Found : Keyed(f.entries)
    BY DEF TypeOK, StaticOK, StandingOK, RegistryOK, EntryInv, Keyed
  <1>1. ASSUME Files2, history' \subseteq Entries, Keyed(history'), quarantined' \in BOOLEAN,
               answered' \in [Ids -> {"none", "done", "refused"}]
        PROVE  StandingOK' /\ EntryInv'
    BY <1>1 DEF StandingOK, EntryInv, Keyed
  <1>2. ASSUME UNCHANGED standing PROVE Files2
    BY <1>2, <1>0 DEF standing, StandingOK, Found
  <1>3. ASSUME NEW id \in Ids, NEW a \in {"none", "done", "refused"}, Answer(id, a) \/ UNCHANGED answered
        PROVE  answered' \in [Ids -> {"none", "done", "refused"}]
    BY <1>0, <1>3 DEF Answer, StandingOK
  <1> HIDE DEF Files2
  <1>4. CASE \/ BootRegistry \/ LoseFile \/ Kill
             \/ \E o \in Owners, by \in DeviceIds \union {0} : Mint(o, by)
             \/ \E inv \in invites : Expire(inv) \/ EnrolUnproven(inv) \/ EnrolRefused(inv)
             \/ \E inv \in invites, k \in Keys : EnrolNotAdmitted(inv, k)
             \/ UNCHANGED vars
    <2>1. UNCHANGED <<standing, history, quarantined, answered>>
      BY <1>4 DEF BootRegistry, LoseFile, Kill, Mint, Expire, EnrolUnproven, EnrolRefused,
                  EnrolNotAdmitted, vars, ghosts, static
    <2> QED BY <2>1, <1>0, <1>1, <1>2 DEF StandingOK
  <1>5. CASE Restore
    <2>1. UNCHANGED <<standing, history, quarantined>>
          /\ answered' \in [Ids -> {"none", "done", "refused"}]
      BY <1>0, <1>5 DEF Restore, static, StandingOK
    <2> QED BY <2>1, <1>0, <1>1, <1>2 DEF StandingOK
  <1>6. CASE Stop
    <2>1. sfile' \in Found /\ solder' \subseteq Found /\ history' = {} /\ quarantined' = FALSE
          /\ UNCHANGED answered
      BY <1>6 DEF Stop, Found
    <2>2. Files2
      BY <1>0, <2>1 DEF Files2, Found, StandingOK
    <2> QED BY <2>1, <2>2, <1>0, <1>1 DEF StandingOK, Keyed
  <1>7. ASSUME NEW p \in Provisions, BootStanding(p) PROVE StandingOK' /\ EntryInv'
    <2> DEFINE h == {e \in sfile.entries : e.id \notin Provisioned(p)}
               t == StandingAtBoot(p, h, mem)
    <2>1. PICK out \in Outcomes :
            /\ Export(ToExport(p, t, h, mem), out)
            /\ history' \in {h, history}
      BY <1>7 DEF BootStanding, static
    <2>2. UNCHANGED <<quarantined, answered>>
      BY <1>7 DEF BootStanding, ghosts
    <2>3. h \in SUBSET Entries /\ Keyed(h)
      BY <1>0 DEF StandingOK, Files, Found, Keyed
    <2>4. p \in [StaticIds -> Keys \union {NoKey}]
      BY ProvisionAssumption
    <2> HIDE DEF h, t
    <2>5. Files2
      BY <1>0, <2>1, <2>3, <2>4, ExportStep DEF Files2
    <2>6. history' \subseteq Entries /\ Keyed(history')
      BY <1>0, <2>1, <2>3
    <2> QED BY <1>0, <1>1, <2>2, <2>5, <2>6 DEF StandingOK
  <1>8. ASSUME NEW p \in Provisions, BootStandingCorrupt(p) PROVE StandingOK' /\ EntryInv'
    BY <1>0, <1>1, <1>2, <1>8 DEF BootStandingCorrupt, StandingOK, Keyed, ghosts
  <1>9. ASSUME NEW inv \in invites, NEW k \in Keys, Enrol(inv, k) PROVE StandingOK' /\ EntryInv'
    <2> DEFINE q == Admitted(mem, inv, k)
               t == trusted \ {s \in trusted : prov[s] = k}
    <2>1. q \in States
      BY <1>9, ServedStates DEF Enrol, Enrolling
    <2>2. PICK out \in Outcomes : Export(ToExport(prov, t, history, q), out)
      BY <1>9 DEF Enrol
    <2>3. UNCHANGED <<history, answered>> /\ quarantined' \in {quarantined, TRUE}
      BY <1>9 DEF Enrol
    <2> HIDE DEF q, t
    <2>4. Files2
      BY <1>0, <2>1, <2>2, ExportStep DEF Files2
    <2> QED BY <1>0, <1>1, <2>3, <2>4 DEF StandingOK
  <1>10. ASSUME NEW id \in Ids, NEW t, NEW q \in States \union {None}, ExportRevocation(id, t, q),
                UNCHANGED history
         PROVE  StandingOK' /\ EntryInv'
    <2>1. PICK out \in Outcomes :
            /\ Export(ToExport(prov, t, history, q), out)
            /\ quarantined' \in BOOLEAN
            /\ Answer(id, "done") \/ Answer(id, "refused")
      BY <1>10 DEF ExportRevocation
    <2>2. Files2
      BY <1>0, <2>1, ExportStep DEF Files2
    <2> QED BY <1>0, <1>1, <1>3, <1>10, <2>1, <2>2
  <1>11. ASSUME NEW s \in StaticIds, RevokeStatic(s) PROVE StandingOK' /\ EntryInv'
    BY <1>0, <1>10, <1>11 DEF RevokeStatic, Ids
  <1>12. ASSUME NEW s \in StaticIds, RevokeStaticAgain(s) PROVE StandingOK' /\ EntryInv'
    <2>1. UNCHANGED history /\ (Answer(s, "done") \/ UNCHANGED answered) /\ quarantined' \in BOOLEAN
      BY <1>0, <1>12 DEF RevokeStaticAgain, static, StandingOK
    <2>2. Files2
      <3>1. CASE UNCHANGED standing
        BY <3>1, <1>2
      <3>2. ASSUME NEW out \in Outcomes, Export(ToExport(prov, trusted, history, mem), out)
            PROVE  Files2
        BY <1>0, <3>2, ExportStep DEF Files2
      <3> QED BY <1>12, <3>1, <3>2 DEF RevokeStaticAgain
    <2> QED BY <1>0, <1>1, <1>3, <2>1, <2>2 DEF Ids
  <1>13. ASSUME NEW i \in DeviceIds, RevokeEnrolled(i) PROVE StandingOK' /\ EntryInv'
    <2>1. Revoked(mem, i) \in States
      BY <1>13, ServedStates DEF RevokeEnrolled
    <2>2. ExportRevocation(i, trusted, Revoked(mem, i)) /\ UNCHANGED history
      BY <1>13 DEF RevokeEnrolled, static
    <2> QED BY <1>10, <2>1, <2>2 DEF Ids
  <1>14. ASSUME NEW i \in DeviceIds, RevokeEnrolledUnwritten(i) PROVE StandingOK' /\ EntryInv'
    <2>1. UNCHANGED <<standing, history, quarantined>> /\ Answer(i, "refused")
      BY <1>14 DEF RevokeEnrolledUnwritten, static
    <2> QED BY <1>0, <1>1, <1>2, <1>3, <2>1 DEF StandingOK, Ids
  <1> QED BY <1>4, <1>5, <1>6, <1>7, <1>8, <1>9, <1>11, <1>12, <1>13, <1>14 DEF Next, BootstrapMint
\* What the handlers that enrol and revoke do to the switch.
LEMMA SwitchStep ==
    ASSUME TypeOK, [Next]_vars
    PROVE  StaticOK' /\ epoch' >= epoch
  <1> USE DEF TypeOK, StaticOK
  <1>0. MaxEpoch \in Nat /\ epoch \in Nat
    BY LimitAssumption
  <1>1. killed' \in BOOLEAN /\ epoch' \in 0 .. MaxEpoch /\ epoch' >= epoch
    <2>1. CASE Engage /\ MayEngage
      BY <1>0, <2>1 DEF Engage, MayEngage
    <2>2. CASE killed' \in BOOLEAN /\ epoch' = epoch
      BY <1>0, <2>2
    <2>3. \/ Engage /\ MayEngage
          \/ killed' \in BOOLEAN /\ epoch' = epoch
      BY DEF Next, vars, switch, BootRegistry, BootStanding, BootStandingCorrupt, Stop, LoseFile,
             Kill, Restore, BootstrapMint, Mint, Expire, EnrolUnproven, EnrolRefused,
             EnrolNotAdmitted, Enrol, RevokeStatic, RevokeStaticAgain, RevokeEnrolled,
             RevokeEnrolledUnwritten, ExportRevocation
    <2> QED BY <2>1, <2>2, <2>3
  <1>2. prov' \in [StaticIds -> Keys \union {NoKey}] /\ trusted' \subseteq Provisioned(prov')
    <2>1. CASE UNCHANGED prov /\ trusted' \subseteq trusted
      BY <2>1
    <2>2. CASE Stop
      BY <2>2 DEF Stop, Nobody
    <2>3. ASSUME NEW p \in Provisions, BootStanding(p) \/ BootStandingCorrupt(p)
          PROVE  prov' \in [StaticIds -> Keys \union {NoKey}] /\ trusted' \subseteq Provisioned(prov')
      <3>1. p \in [StaticIds -> Keys \union {NoKey}]
        BY ProvisionAssumption
      <3> QED BY <2>3, <3>1 DEF BootStanding, BootStandingCorrupt, StandingAtBoot, static
    <2>4. \/ UNCHANGED prov /\ trusted' \subseteq trusted
          \/ Stop \/ \E p \in Provisions : BootStanding(p) \/ BootStandingCorrupt(p)
      BY DEF Next, vars, static, BootRegistry, LoseFile, Kill, Restore, BootstrapMint, Mint,
             Expire, EnrolUnproven, EnrolRefused, EnrolNotAdmitted, Enrol, RevokeStatic,
             RevokeStaticAgain, RevokeEnrolled, RevokeEnrolledUnwritten
    <2> QED BY <2>1, <2>2, <2>3, <2>4
  <1> QED BY <1>1, <1>2

\* A process that is not up holds no invite and trusts no name.
LEMMA PhaseStep ==
    ASSUME TypeOK, PhaseInv, [Next]_vars
    PROVE  PhaseInv'
  <1> USE DEF PhaseInv
  <1>1. CASE UNCHANGED vars
    BY <1>1 DEF vars, registry, static
  <1>2. CASE BootRegistry
    BY <1>2 DEF BootRegistry, static
  <1>3. ASSUME NEW p \in Provisions, BootStanding(p) \/ BootStandingCorrupt(p) PROVE PhaseInv'
    BY <1>3 DEF BootStanding, BootStandingCorrupt, static, registry
  <1>4. CASE Stop \/ LoseFile
    BY <1>4 DEF Stop, LoseFile, static
  <1>5. CASE phase = "up" /\ phase' = "up"
    BY <1>5
  <1>6. \/ UNCHANGED vars \/ BootRegistry \/ Stop \/ LoseFile
        \/ \E p \in Provisions : BootStanding(p) \/ BootStandingCorrupt(p)
        \/ phase = "up" /\ phase' = "up"
    BY DEF Next, Kill, Restore, BootstrapMint, Mint, Expire, EnrolUnproven, EnrolRefused,
           EnrolNotAdmitted, Enrol, Enrolling, RevokeStatic, RevokeStaticAgain, RevokeEnrolled,
           RevokeEnrolledUnwritten
  <1> QED BY <1>1, <1>2, <1>3, <1>4, <1>5, <1>6

\* What an admission answers for is in the registry it publishes; what was
\* answered before is in whatever a registry becomes.
LEMMA AckStep ==
    ASSUME TypeOK, ServedIsDurable, PhaseInv, AckInv, [Next]_vars
    PROVE  AckInv'
  <1>1. RegistryMoves
    BY RegistryStep DEF AckInv
  <1>2. \A q \in Kept' : Sound(q) /\ Remembers(q)
    <2> SUFFICES ASSUME NEW q \in Kept' PROVE Sound(q) /\ Remembers(q)
      OBVIOUS
    <2>1. Sound(q) /\ q \in States
      BY <1>1 DEF RegistryMoves, Sound
    <2>2. CASE acked = {}
      BY <2>1, <2>2 DEF Remembers
    <2>3. ASSUME NEW p \in Kept, Later(p, q) PROVE Remembers(q)
      <3>1. p \in States /\ Remembers(p)
        BY <2>3 DEF AckInv, Sound
      <3>2. p.gen \in Nat /\ q.gen \in Nat /\ DOMAIN p.devices = 1 .. Len(p.devices)
            /\ DOMAIN q.devices = 1 .. Len(q.devices) /\ Len(p.devices) \in Nat /\ Len(q.devices) \in Nat
        BY <2>1, <3>1, StateShape, LimitAssumption
      <3> SUFFICES ASSUME NEW a \in acked PROVE HasKey(q, a.key) /\ (a.root => q.gen > a.gen)
        BY DEF Remembers
      <3>3. a.gen \in Nat
        BY DEF TypeOK, InvitesOK
      <3>4. a.root => p.gen > a.gen
        BY <3>1 DEF Remembers
      <3>5. PICK i \in DOMAIN p.devices : p.devices[i].key = a.key
        BY <3>1 DEF Remembers, HasKey
      <3>6. i \in DOMAIN q.devices /\ q.devices[i].key = a.key
        BY <2>3, <3>2, <3>5 DEF Later
      <3> QED BY <2>3, <3>2, <3>3, <3>4, <3>6 DEF Later, HasKey
    <2> QED BY <1>1, <2>1, <2>2, <2>3 DEF RegistryMoves, AckInv
  <1>3. CASE UNCHANGED acked
    <2>1. \A q : Remembers(q)' <=> Remembers(q)
      BY <1>3 DEF Remembers
    <2> QED BY <1>1, <1>2, <1>3 DEF RegistryMoves, AckInv, Remembers
  <1>4. ASSUME NEW inv \in invites, NEW k \in Keys, Enrol(inv, k) PROVE AckInv'
    <2> DEFINE q == Admitted(mem, inv, k)
               a == [invite |-> inv.id, key |-> k, gen |-> inv.gen, root |-> inv.by = 0]
    <2>1. mem /= None /\ inv \in Invites /\ Sound(mem) /\ mem \in States /\ Live(inv)
      BY <1>4, ServedStates DEF Enrol, Enrolling, Accepted, TypeOK, InvitesOK
    <2>2. HasKey(q, k) /\ (inv.by = 0 => q.gen = mem.gen + 1) /\ q \in States
      BY <1>4, <2>1, AdmittedSound DEF Enrol, KnownKey, Sound
    <2>3. inv.by = 0 => mem.gen = inv.gen
      BY <2>1 DEF Live, Witness
    <2>4. inv.by = 0 => q.gen > inv.gen
      <3>1. mem.gen \in Nat
        BY <2>1, StateShape
      <3> QED BY <2>2, <2>3, <3>1
    <2>5. acked' = acked \union {a} /\ mem' = q /\ vis' = [marker |-> TRUE, state |-> q] /\ dur' = vis'
      BY <1>4 DEF Enrol, Publish
    <2>6. a.key = k /\ a.gen = inv.gen /\ (a.root => inv.by = 0)
      OBVIOUS
    <2> HIDE DEF q, a
    <2>7. Kept' \subseteq {q} /\ vis'.marker /\ dur'.marker
      BY <2>5 DEF Kept
    <2>8. \A x \in Kept' : \A b \in acked' : HasKey(x, b.key) /\ (b.root => x.gen > b.gen)
      BY <1>2, <2>2, <2>4, <2>5, <2>6, <2>7 DEF Remembers
    <2> QED BY <1>2, <2>7, <2>8 DEF AckInv, Remembers
  <1>5. UNCHANGED acked \/ \E inv \in invites, k \in Keys : Enrol(inv, k)
    BY DEF Next, vars, ghosts, BootRegistry, BootStanding, BootStandingCorrupt, Stop, LoseFile,
           Kill, Restore, BootstrapMint, Mint, Expire, EnrolUnproven, EnrolRefused,
           EnrolNotAdmitted, RevokeStatic, RevokeStaticAgain, RevokeEnrolled,
           RevokeEnrolledUnwritten
  <1> QED BY <1>3, <1>4, <1>5

\* A name that is trusted is of a phone that was not in the registry when the
\* process booted, and that did not enrol since.
LEMMA AliasStep ==
    ASSUME TypeOK, ServedIsDurable, PhaseInv, AckInv, AliasInv, [Next]_vars
    PROVE  AliasInv'
  <1> USE DEF AliasInv
  <1>1. CASE UNCHANGED <<phase, mem>> /\ UNCHANGED prov /\ trusted' \subseteq trusted
    BY <1>1
  <1>2. CASE BootRegistry \/ Stop
    BY <1>2 DEF BootRegistry, Stop
  <1>3. ASSUME NEW p \in Provisions, BootStanding(p) PROVE AliasInv'
    <2> DEFINE h == {e \in sfile.entries : e.id \notin Provisioned(p)}
    <2>1. CASE phase' /= "up"
      BY <2>1
    <2>2. CASE phase' = "up"
      <3>1. trusted' = StandingAtBoot(p, h, mem) /\ mem' = mem /\ prov' = p
        BY <1>3, <2>2 DEF BootStanding
      <3>2. \A s \in trusted' : p[s] \notin {e.key : e \in Projection(mem)}
        BY <3>1 DEF StandingAtBoot, MigratedKeys
      <3>3. mem /= None => \A i \in DOMAIN mem.devices : mem.devices[i].key \in {e.key : e \in Projection(mem)}
        <4> SUFFICES ASSUME mem /= None, NEW i \in DOMAIN mem.devices
                     PROVE  \E e \in Projection(mem) : e.key = mem.devices[i].key
          OBVIOUS
        <4>1. Entry(i, mem.devices[i].key, mem.devices[i].active) \in Projection(mem)
          BY DEF Projection
        <4> QED BY <4>1 DEF Entry
      <3> QED BY <3>1, <3>2, <3>3
    <2> QED BY <2>1, <2>2
  <1>4. ASSUME NEW p \in Provisions, BootStandingCorrupt(p) PROVE AliasInv'
    BY <1>4 DEF BootStandingCorrupt
  <1>5. ASSUME NEW o \in Owners, NEW by \in DeviceIds \union {0}, Mint(o, by) PROVE AliasInv'
    <2> DEFINE q == [mem EXCEPT !.owners = @ \union {o}]
    <2>1. Sound(mem) /\ mem \in States /\ mem /= None
      BY <1>5, ServedStates DEF Mint
    <2>2. q.devices = mem.devices
      BY <2>1, StateRecord
    <2>3. mem' \in {mem, None, q}
      <3>1. UNCHANGED mem \/ \E out \in Outcomes : mem' = Served(q, out, mem)
        BY <1>5 DEF Mint, registry
      <3> HIDE DEF q
      <3> QED BY <3>1 DEF Served, Outcomes
    <2>4. UNCHANGED <<phase, prov, trusted>>
      BY <1>5 DEF Mint, static
    <2> HIDE DEF q
    <2> QED BY <2>1, <2>2, <2>3, <2>4
  <1>6. ASSUME NEW inv \in invites, NEW k \in Keys, EnrolNotAdmitted(inv, k) PROVE AliasInv'
    BY <1>6 DEF EnrolNotAdmitted, Served, Outcomes, registry, static
  <1>7. ASSUME NEW inv \in invites, NEW k \in Keys, Enrol(inv, k) PROVE AliasInv'
    <2> DEFINE q == Admitted(mem, inv, k)
    <2>1. mem /= None /\ inv \in Invites /\ Sound(mem) /\ mem \in States /\ phase = "up"
      BY <1>7, ServedStates DEF Enrol, Enrolling, TypeOK, InvitesOK
    <2>2. /\ Len(q.devices) = Len(mem.devices) + 1 /\ q.devices[Len(mem.devices) + 1].key = k
          /\ \A i \in DOMAIN mem.devices : q.devices[i] = mem.devices[i]
          /\ q \in States
      BY <1>7, <2>1, AdmittedSound DEF Enrol, KnownKey, Sound
    <2>3. mem' = q /\ prov' = prov /\ trusted' = trusted \ {s \in trusted : prov[s] = k}
      BY <1>7 DEF Enrol
    <2> HIDE DEF q
    <2>4. \A i \in DOMAIN q.devices : i \in DOMAIN mem.devices \/ i = Len(mem.devices) + 1
      BY <2>1, <2>2, StateShape, LimitAssumption
    <2> QED BY <2>1, <2>2, <2>3, <2>4
  <1>8. ASSUME NEW i \in DeviceIds, RevokeEnrolled(i) PROVE AliasInv'
    <2> DEFINE q == Revoked(mem, i)
    <2>1. mem /= None /\ Sound(mem) /\ i \in DOMAIN mem.devices /\ phase = "up"
      BY <1>8, ServedStates DEF RevokeEnrolled
    <2>2. DOMAIN q.devices = DOMAIN mem.devices
          /\ \A j \in DOMAIN mem.devices : q.devices[j].key = mem.devices[j].key
      BY <2>1, RevokedSound
    <2>3. mem' = q /\ UNCHANGED <<prov, trusted>>
      BY <1>8 DEF RevokeEnrolled, static
    <2> HIDE DEF q
    <2> QED BY <2>1, <2>2, <2>3
  <1>9. ASSUME NEW i \in DeviceIds, RevokeEnrolledUnwritten(i) PROVE AliasInv'
    BY <1>9 DEF RevokeEnrolledUnwritten, RevocationFails
  <1>10. \/ UNCHANGED <<phase, mem>> /\ UNCHANGED prov /\ trusted' \subseteq trusted
         \/ BootRegistry \/ Stop
         \/ \E p \in Provisions : BootStanding(p) \/ BootStandingCorrupt(p)
         \/ \E o \in Owners, by \in DeviceIds \union {0} : Mint(o, by)
         \/ \E inv \in invites, k \in Keys : EnrolNotAdmitted(inv, k) \/ Enrol(inv, k)
         \/ \E i \in DeviceIds : RevokeEnrolled(i) \/ RevokeEnrolledUnwritten(i)
    BY DEF Next, vars, registry, static, LoseFile, Kill, Restore, BootstrapMint, Expire,
           EnrolUnproven, EnrolRefused, RevokeStatic, RevokeStaticAgain
  <1> QED BY <1>1, <1>2, <1>3, <1>4, <1>5, <1>6, <1>7, <1>8, <1>9, <1>10
\* What is served stays the same registry, grown, until it is served no more;
\* only a boot serves another.
LEMMA MemMoves ==
    ASSUME TypeOK, ServedIsDurable, PhaseInv, AckInv, [Next]_vars
    PROVE  mem' = None \/ (mem /= None /\ Later(mem, mem')) \/ BootRegistry
  <1>1. CASE mem = None
    <2>1. mem' = None \/ BootRegistry
      BY <1>1 DEF Next, vars, registry, BootStanding, BootStandingCorrupt, Stop, LoseFile, Kill,
             Restore, BootstrapMint, Mint, Expire, EnrolUnproven, EnrolRefused,
             EnrolNotAdmitted, Enrol, Enrolling, RevokeStatic, RevokeStaticAgain,
             RevokeEnrolled, RevokeEnrolledUnwritten
    <2> QED BY <2>1
  <1>2. CASE mem /= None /\ mem' /= None
    <2>1. Kept = {mem} /\ vis.marker
      BY <1>2 DEF Kept, ServedIsDurable
    <2>2. mem' \in Kept'
      BY <1>2 DEF Kept
    <2> QED BY <1>2, <2>1, <2>2, RegistryStep DEF RegistryMoves, AckInv
  <1> QED BY <1>1, <1>2

\* The invite stopped being worth anything in this step or before.
Worthless(x) == x.epoch < epoch \/ mem = None \/ (x.by /= 0 /\ x.by \notin Active(mem))

\* The types of what the invites are about, and what holds of each of them.
LEMMA InviteStep ==
    ASSUME TypeOK, ServedIsDurable, PhaseInv, AckInv, InviteInv, [Next]_vars
    PROVE  InvitesOK' /\ InviteInv'
  <1>0. /\ InvitesOK /\ MaxMints \in Nat /\ MaxEpoch \in Nat /\ MaxDevices \in Nat /\ minted \in Nat
        /\ epoch \in 0 .. MaxEpoch /\ epoch' >= epoch /\ epoch' \in Nat
        /\ \A x \in invites : x.id \in Nat /\ x.by \in Nat /\ x.epoch \in Nat
    BY SwitchStep, LimitAssumption DEF TypeOK, InvitesOK, StaticOK, Invites
  <1>1. ASSUME mem' /= None, ~BootRegistry, NEW x \in invites
        PROVE  /\ x.by <= Len(mem'.devices)
               /\ mem /= None
               /\ x.by /= 0 /\ x.by \notin Active(mem) => x.by \notin Active(mem')
    <2>1. mem /= None /\ Later(mem, mem')
      BY <1>1, MemMoves
    <2>2. mem \in States /\ mem' \in States
      BY <2>1, <1>1, ServedStates, RegistryStep DEF RegistryMoves, RegistryOK, AckInv
    <2>3. x.by <= Len(mem.devices) /\ Len(mem.devices) <= Len(mem'.devices)
          /\ Len(mem.devices) \in Nat /\ Len(mem'.devices) \in Nat
          /\ DOMAIN mem.devices = 1 .. Len(mem.devices)
      BY <2>1, <2>2, StateShape, LimitAssumption DEF InviteInv, Later
    <2> QED BY <1>0, <2>1, <2>3 DEF Later, Active
  <1>2. ASSUME invites' \subseteq invites, UNCHANGED <<minted, acked>>, ~BootRegistry,
               dead' \subseteq 1 .. minted,
               \A x \in invites' : x.id \in dead' => x.id \in dead \/ Worthless(x)'
        PROVE  InvitesOK' /\ InviteInv'
    <2>1. InvitesOK'
      BY <1>0, <1>2 DEF InvitesOK
    <2>2. ASSUME NEW x \in invites', x.id \in dead' PROVE Worthless(x)'
      <3>1. CASE x.id \notin dead
        BY <1>2, <2>2, <3>1
      <3>2. CASE x.id \in dead
        <4>1. Worthless(x) /\ x \in invites
          BY <1>2, <2>2, <3>2 DEF InviteInv, Worthless
        <4> QED BY <1>0, <1>1, <1>2, <4>1 DEF Worthless
      <3> QED BY <3>1, <3>2
    <2>3. ASSUME NEW x \in invites'
          PROVE  /\ x.id <= minted' /\ x.epoch <= epoch'
                 /\ \A a \in acked' : a.invite /= x.id
                 /\ \A y \in invites' : y.id = x.id => y = x
                 /\ mem' /= None => x.by <= Len(mem'.devices)
      <3>1. x \in invites
        BY <1>2, <2>3
      <3>2. x.epoch <= epoch /\ x.id <= minted
        BY <3>1 DEF InviteInv
      <3> QED BY <1>0, <1>1, <1>2, <3>1, <3>2 DEF InviteInv
    <2> QED BY <1>2, <2>1, <2>2, <2>3 DEF InviteInv, Worthless
  <1>3. CASE BootRegistry
    <2>1. UNCHANGED <<invites, minted, acked, dead>> /\ invites = {}
      BY <1>3 DEF BootRegistry, ghosts, PhaseInv
    <2> QED BY <1>0, <2>1 DEF InvitesOK, InviteInv
  <1>4. CASE Stop
    <2>1. invites' = {} /\ UNCHANGED <<minted, acked>> /\ dead' = dead \union (1 .. minted)
      BY <1>4 DEF Stop
    <2> QED BY <1>0, <2>1 DEF InvitesOK, InviteInv
  <1>5. CASE \/ \E p \in Provisions : BootStanding(p) \/ BootStandingCorrupt(p)
             \/ LoseFile \/ Restore
             \/ \E inv \in invites : Expire(inv) \/ EnrolUnproven(inv) \/ EnrolRefused(inv)
             \/ \E inv \in invites, k \in Keys : EnrolNotAdmitted(inv, k)
             \/ \E s \in StaticIds : RevokeStaticAgain(s)
             \/ UNCHANGED vars
    <2>1. invites' \subseteq invites /\ UNCHANGED <<minted, acked, dead>>
      BY <1>5 DEF BootStanding, BootStandingCorrupt, LoseFile, Restore, Expire, EnrolUnproven,
                  EnrolRefused, EnrolNotAdmitted, Spent, RevokeStaticAgain, vars, ghosts
    <2>2. CASE BootRegistry
      BY <2>2, <1>3
    <2>3. CASE ~BootRegistry
      BY <1>2, <2>1, <2>3 DEF InviteInv
    <2> QED BY <2>2, <2>3
  <1>6. CASE ~BootRegistry /\ Engage /\ UNCHANGED <<minted, acked>> /\ invites' \subseteq invites
             /\ dead' \subseteq 1 .. minted
    <2>1. \A x \in invites' : x.epoch < epoch'
      BY <1>0, <1>6 DEF Engage, InviteInv
    <2> QED BY <1>2, <1>6, <2>1 DEF Worthless
  <1>7. CASE Kill
    BY <1>6, <1>7 DEF Kill, InviteInv, BootRegistry
  <1>8. \A x \in invites : x.id \in 1 .. minted
    BY <1>0 DEF InviteInv, InvitesOK, Invites
  <1>9. ASSUME NEW s \in StaticIds, RevokeStatic(s) PROVE InvitesOK' /\ InviteInv'
    <2>1. UNCHANGED <<invites, minted, acked>> /\ ~BootRegistry /\ (Engage \/ UNCHANGED switch)
          /\ Ended(MaxDevices + 1)
      BY <1>9 DEF RevokeStatic, ExportRevocation, BootRegistry
    <2>2. {x \in invites : x.by = MaxDevices + 1} = {}
      BY <1>0 DEF InvitesOK, Invites
    <2>3. CASE Engage
      <3>1. dead' \subseteq 1 .. minted
        BY <1>8, <2>1 DEF Ended, InviteInv
      <3> QED BY <1>6, <2>1, <2>3, <3>1
    <2>4. CASE UNCHANGED switch
      <3>1. dead' = dead
        BY <2>1, <2>2, <2>4 DEF Ended, switch
      <3> QED BY <1>2, <2>1, <3>1 DEF InviteInv
    <2> QED BY <2>1, <2>3, <2>4
  <1>10. ASSUME NEW i \in DeviceIds, RevokeEnrolled(i) PROVE InvitesOK' /\ InviteInv'
    <2>1. UNCHANGED <<invites, minted, acked>> /\ ~BootRegistry /\ (Engage \/ UNCHANGED switch)
          /\ Ended(i) /\ mem' = Revoked(mem, i) /\ mem /= None /\ i \in DOMAIN mem.devices
      BY <1>10 DEF RevokeEnrolled, ExportRevocation, BootRegistry
    <2>2. dead' \subseteq 1 .. minted
      BY <1>8, <2>1 DEF Ended, InviteInv
    <2>3. CASE Engage
      BY <1>6, <2>1, <2>2, <2>3
    <2>4. CASE UNCHANGED switch
      <3>1. dead' = dead \union {j.id : j \in {x \in invites : x.by = i}}
        BY <2>1, <2>4 DEF Ended, switch
      <3>2. i /= 0 /\ i \notin Active(mem')
        BY <2>1, ServedStates, RevokedSound DEF Severs, Active, DeviceIds
      <3>3. \A x \in invites' : x.id \in dead' => x.id \in dead \/ Worthless(x)'
        BY <2>1, <3>1, <3>2 DEF InviteInv, Worthless
      <3> QED BY <1>2, <2>1, <2>2, <3>3
    <2> QED BY <2>1, <2>3, <2>4
  <1>11. ASSUME NEW i \in DeviceIds, RevokeEnrolledUnwritten(i) PROVE InvitesOK' /\ InviteInv'
    <2>1. UNCHANGED <<invites, minted, acked>> /\ ~BootRegistry /\ Engage /\ Ended(i)
      BY <1>11 DEF RevokeEnrolledUnwritten, BootRegistry
    <2>2. dead' \subseteq 1 .. minted
      BY <1>8, <2>1 DEF Ended, InviteInv
    <2> QED BY <1>6, <2>1, <2>2
  <1>12. ASSUME NEW inv \in invites, NEW k \in Keys, Enrol(inv, k) PROVE InvitesOK' /\ InviteInv'
    <2> DEFINE a == [invite |-> inv.id, key |-> k, gen |-> inv.gen, root |-> inv.by = 0]
    <2>1. invites' = Spent(inv) /\ UNCHANGED minted /\ acked' = acked \union {a} /\ ~BootRegistry
      BY <1>12 DEF Enrol, Enrolling, BootRegistry
    <2>2. inv \in Invites /\ inv \notin invites' /\ invites' \subseteq invites
      BY <1>0, <2>1 DEF InvitesOK, Spent
    <2>3. a \in [invite : 1 .. MaxMints, key : Keys, gen : 1 .. MaxDevices + 2, root : BOOLEAN]
      <3>1. inv.id \in 1 .. MaxMints /\ inv.gen \in 1 .. MaxDevices + 2 /\ (inv.by = 0) \in BOOLEAN
        BY <2>2 DEF Invites
      <3> QED BY <3>1
    <2>4. a.invite = inv.id
      OBVIOUS
    <2> HIDE DEF a
    <2>5. \/ Engage /\ dead' = dead \union (1 .. minted)
          \/ dead' = dead \union {j.id : j \in invites \ invites'}
      BY <1>12 DEF Enrol
    <2>6. dead' \subseteq 1 .. minted
      <3>1. \A j \in invites \ invites' : j.id \in 1 .. minted
        BY <1>8
      <3>2. {j.id : j \in invites \ invites'} \subseteq 1 .. minted
        BY <3>1
      <3> QED BY <2>5, <3>2 DEF InviteInv
    <2>7. InvitesOK'
      BY <1>0, <2>1, <2>2, <2>3, <2>6 DEF InvitesOK
    <2>8. ASSUME NEW x \in invites', x.id \in dead' PROVE Worthless(x)'
      <3>1. x \in invites
        BY <2>2
      <3>2. CASE Engage
        BY <1>0, <3>1, <3>2 DEF Engage, InviteInv, Worthless
      <3>3. CASE dead' = dead \union {j.id : j \in invites \ invites'}
        <4>1. x.id \in dead
          BY <2>8, <3>1, <3>3 DEF InviteInv
        <4> QED BY <1>0, <1>1, <2>1, <3>1, <4>1 DEF Worthless, InviteInv
      <3> QED BY <2>5, <3>2, <3>3
    <2>9. ASSUME NEW x \in invites'
          PROVE  /\ x.id <= minted' /\ x.epoch <= epoch'
                 /\ \A b \in acked' : b.invite /= x.id
                 /\ \A y \in invites' : y.id = x.id => y = x
                 /\ mem' /= None => x.by <= Len(mem'.devices)
      <3>1. x \in invites /\ x.id /= inv.id
        BY <2>2 DEF InviteInv
      <3>2. x.epoch <= epoch /\ x.id <= minted
        BY <3>1 DEF InviteInv
      <3> QED BY <1>0, <1>1, <2>1, <2>2, <2>4, <3>1, <3>2 DEF InviteInv
    <2>10. \A b \in acked' : b.invite <= minted'
      BY <1>8, <2>1, <2>4 DEF InviteInv
    <2> QED BY <2>1, <2>6, <2>7, <2>8, <2>9, <2>10 DEF InviteInv, Worthless
  <1>13. ASSUME NEW o \in Owners, NEW by \in DeviceIds \union {0}, Mint(o, by)
         PROVE  InvitesOK' /\ InviteInv'
    <2> DEFINE n == [id |-> minted + 1, owner |-> o, by |-> by, gen |-> mem.gen, epoch |-> epoch]
    <2>1. mem /= None /\ minted < MaxMints /\ UNCHANGED <<acked, dead, epoch>> /\ ~BootRegistry
          /\ (by = 0 \/ by \in Active(mem))
      BY <1>13 DEF Mint, ghosts, switch, BootRegistry
    <2>2. CASE UNCHANGED <<invites, minted>>
      BY <1>2, <2>1, <2>2 DEF InviteInv
    <2>3. CASE minted' = minted + 1 /\ invites' = invites \union {n}
      <3>1. mem \in States /\ mem.gen \in 1 .. MaxDevices + 2 /\ Len(mem.devices) \in 0 .. MaxDevices
            /\ DOMAIN mem.devices = 1 .. Len(mem.devices)
        BY <2>1, ServedStates, StateShape
      <3>2. n \in Invites /\ n.id = minted + 1 /\ n.epoch = epoch /\ n.by = by
        <4>1. minted + 1 \in 1 .. MaxMints /\ by \in 0 .. MaxDevices
          BY <1>0, <2>1, <3>1 DEF DeviceIds
        <4> QED BY <1>0, <3>1, <4>1 DEF Invites
      <3>3. mem' /= None => by <= Len(mem'.devices)
        <4>1. mem' /= None => mem' \in States /\ Later(mem, mem')
          BY <2>1, MemMoves, RegistryStep DEF RegistryMoves, RegistryOK, AckInv
        <4> QED BY <1>0, <2>1, <3>1, <4>1, StateShape DEF Later, Active
      <3> HIDE DEF n
      <3>4. InvitesOK'
        BY <1>0, <2>1, <2>3, <3>2 DEF InvitesOK
      <3>5. dead' \subseteq 1 .. minted' /\ \A a \in acked' : a.invite <= minted'
        <4>1. \A a \in acked : a.invite \in Nat
          BY <1>0 DEF InvitesOK
        <4> QED BY <1>0, <2>1, <2>3, <4>1 DEF InviteInv
      <3>6. ASSUME NEW x \in invites', x.id \in dead' PROVE Worthless(x)'
        <4>1. x /= n
          BY <1>0, <2>1, <3>2, <3>6 DEF InviteInv
        <4>2. x \in invites /\ Worthless(x)
          BY <2>1, <2>3, <3>6, <4>1 DEF InviteInv, Worthless
        <4> QED BY <1>1, <2>1, <4>2 DEF Worthless
      <3>7. ASSUME NEW x \in invites'
            PROVE  /\ x.id <= minted' /\ x.epoch <= epoch'
                   /\ \A b \in acked' : b.invite /= x.id
                   /\ \A y \in invites' : y.id = x.id => y = x
                   /\ mem' /= None => x.by <= Len(mem'.devices)
        <4>1. CASE x = n
          <5>1. \A b \in acked : b.invite <= minted /\ b.invite \in Nat
            BY <1>0 DEF InviteInv, InvitesOK
          <5>2. \A y \in invites : y.id <= minted
            BY DEF InviteInv
          <5> QED BY <1>0, <2>1, <2>3, <3>2, <3>3, <4>1, <5>1, <5>2
        <4>2. CASE x \in invites
          <5>1. x.id <= minted /\ x.epoch <= epoch
            BY <4>2 DEF InviteInv
          <5> QED BY <1>0, <1>1, <2>1, <2>3, <3>2, <4>2, <5>1 DEF InviteInv
        <4> QED BY <2>3, <4>1, <4>2
      <3> QED BY <3>4, <3>5, <3>6, <3>7 DEF InviteInv, Worthless
    <2>4. UNCHANGED <<invites, minted>> \/ (minted' = minted + 1 /\ invites' = invites \union {n})
      BY <1>13 DEF Mint, Registered
    <2> QED BY <2>2, <2>3, <2>4
  <1> QED BY <1>3, <1>4, <1>5, <1>7, <1>9, <1>10, <1>11, <1>12, <1>13 DEF Next, BootstrapMint
-----------------------------------------------------------------------------
(* Revocation.                                                             *)

\* Old entries are those the keys file of this boot does not name.
LEMMA HistoryStep == HistoryInv /\ [Next]_vars => HistoryInv'
  <1> SUFFICES ASSUME HistoryInv, [Next]_vars PROVE HistoryInv'
    OBVIOUS
  <1>1. CASE UNCHANGED <<prov, history>> \/ history' = {}
    BY <1>1 DEF HistoryInv
  <1>2. ASSUME NEW p \in Provisions, BootStanding(p) PROVE HistoryInv'
    BY <1>2 DEF BootStanding, static, HistoryInv
  <1>3. \/ UNCHANGED <<prov, history>> \/ history' = {}
        \/ \E p \in Provisions : BootStanding(p)
    BY DEF Next, vars, static, BootRegistry, BootStandingCorrupt, Stop, LoseFile, Kill, Restore,
           BootstrapMint, Mint, Expire, EnrolUnproven, EnrolRefused, EnrolNotAdmitted, Enrol,
           RevokeStatic, RevokeStaticAgain, RevokeEnrolled, RevokeEnrolledUnwritten
  <1> QED BY <1>1, <1>2, <1>3

\* A standing file written with arguments that say of id that it is revoked
\* agrees, and so does what a boot may find: what was there agreed, or is gone.
LEMMA ExportAgrees ==
    ASSUME StandingOK, NEW id \in Ids, NEW p \in [StaticIds -> Keys \union {NoKey}], NEW t,
           NEW h \in SUBSET Entries, NEW r \in States \union {None}, NEW out \in Outcomes,
           Export(ToExport(p, t, h, r), out), Keyed(h),
           out = "durable" \/ FilesAgree(id),
           id \in StaticIds => id \notin t /\ Covered(id, p, h),
           id \in DeviceIds => r = None \/ Severs(r, id)
    PROVE  FilesAgree(id)'
  <1> DEFINE E == ToExport(p, t, h, r)
             new == [st |-> "ok", entries |-> E]
  <1>1. StaticIds \intersect DeviceIds = {}
    BY KeyAssumption, LimitAssumption DEF DeviceIds
  <1>2. ASSUME NEW e \in E, e.id = id PROVE ~e.active
    <2>1. CASE e.id \in Provisioned(p) /\ e.key = NoKey /\ (e.active => e.id \in t)
      BY <1>2, <2>1 DEF Provisioned
    <2>2. CASE r /= None /\ e.id \in DeviceIds /\ e.active = r.devices[e.id].active
      BY <1>2, <2>2 DEF Severs
    <2>3. ASSUME NEW x \in h, e = Tombstone(x), e.id = x.id, e.key = x.key PROVE ~e.active
      <3>1. CASE x.key = NoKey
        BY <1>1, <1>2, <2>3, <3>1 DEF Keyed, Covered, Tombstone, Ids
      <3>2. CASE x.key /= NoKey
        BY <2>3, <3>2 DEF Tombstone, Entries
      <3> QED BY <3>1, <3>2
    <2> QED BY <2>1, <2>2, <2>3, ExportShape
  <1>3. id \in StaticIds => \E e \in E : e.id = id
    BY ExportShape DEF Covered
  <1>4. E \in SUBSET Entries
    BY ExportShape
  <1>5. new.st = "ok" /\ new.entries = E
    OBVIOUS
  <1> HIDE DEF E
  <1>6. Export(E, out)
    BY DEF E
  <1>7. ASSUME NEW f \in Found'
        PROVE  f \in Found \/ f = new \/ (sfile.st = "absent" /\ f.entries = sfile.entries)
    BY <1>4, <1>6, ExportFound, Zenon
  <1>8. out = "durable" => Found' = {new}
    BY <1>4, <1>6, ExportFound
  <1> HIDE DEF new
  <1>9. CASE Found' = {new}
    BY <1>2, <1>3, <1>5, <1>9 DEF FilesAgree
  <1>10. CASE FilesAgree(id)
    <2>1. sfile \in Found
      BY DEF Found
    <2>2. \A f \in Found' : \A e \in f.entries : e.id = id => ~e.active
      BY <1>2, <1>5, <1>7, <1>8, <1>10, <2>1 DEF FilesAgree
    <2>3. id \in StaticIds => \A f \in Found' : f.st = "ok" /\ \E e \in f.entries : e.id = id
      BY <1>3, <1>5, <1>7, <1>8, <1>10, <2>1 DEF FilesAgree
    <2> QED BY <2>2, <2>3 DEF FilesAgree
  <1> QED BY <1>7, <1>8, <1>9, <1>10

\* What a registry revoked, no registry that comes of it takes back.
LEMMA SeveredStays ==
    ASSUME TypeOK, ServedIsDurable, PhaseInv, AckInv, RevocationInv, [Next]_vars,
           NEW i \in DeviceIds, answered[i] = "done"
    PROVE  vis'.marker /\ dur'.marker /\ \A q \in Kept' : Severs(q, i)
  <1>1. RegistryMoves /\ vis.marker /\ dur.marker /\ \A p \in Kept : Severs(p, i)
    BY RegistryStep DEF AckInv, RevocationInv
  <1>2. ASSUME NEW q \in Kept' PROVE Severs(q, i)
    <2>1. PICK p \in Kept : Later(p, q)
      BY <1>1 DEF RegistryMoves
    <2>2. p \in States /\ q \in States
      BY <1>1, <1>2 DEF RegistryMoves, AckInv, Sound
    <2>3. DOMAIN p.devices = 1 .. Len(p.devices) /\ DOMAIN q.devices = 1 .. Len(q.devices)
          /\ Len(p.devices) \in Nat /\ Len(q.devices) \in Nat
      BY <2>2, StateShape, LimitAssumption
    <2> QED BY <1>1, <2>1, <2>3 DEF Later, Severs
  <1> QED BY <1>1, <1>2 DEF RegistryMoves

\* The answer 503 kills, and only a restore, which ends it, lifts the kill.
LEMMA RefusedStep ==
    ASSUME TypeOK, RevocationInv, [Next]_vars
    PROVE  \A id \in Ids : answered'[id] = "refused" => killed'
  <1> SUFFICES ASSUME NEW id \in Ids, answered'[id] = "refused" PROVE killed'
    OBVIOUS
  <1>0. answered \in [Ids -> {"none", "done", "refused"}] /\ (answered[id] = "refused" => killed)
    BY DEF TypeOK, StandingOK, RevocationInv
  <1>1. CASE Engage
    BY <1>1 DEF Engage
  <1>2. CASE Restore
    BY <1>0, <1>2 DEF Restore
  <1>3. CASE UNCHANGED killed /\ (UNCHANGED answered \/ \E x \in Ids : Answer(x, "done"))
    BY <1>0, <1>3 DEF Answer
  <1>4. \/ Engage \/ Restore
        \/ UNCHANGED killed /\ (UNCHANGED answered \/ \E x \in Ids : Answer(x, "done"))
    BY DEF Next, vars, switch, ghosts, Ids, BootRegistry, BootStanding, BootStandingCorrupt,
           Stop, LoseFile, Kill, BootstrapMint, Mint, Expire, EnrolUnproven, EnrolRefused,
           EnrolNotAdmitted, Enrol, RevokeStatic, RevokeStaticAgain, RevokeEnrolled,
           RevokeEnrolledUnwritten, ExportRevocation
  <1> QED BY <1>1, <1>2, <1>3, <1>4
\* The files agree with what was answered, whatever step is taken.
LEMMA RevocationStep ==
    ASSUME TypeOK, ServedIsDurable, PhaseInv, AckInv, EntryInv, HistoryInv, ~StandingFaults,
           RevocationInv, [Next]_vars
    PROVE  RevocationInv'
  <1> DEFINE Done == {id \in Ids : answered[id] = "done"}
             Done2 == {id \in Ids : answered'[id] = "done"}
             StaticHolds == \A s \in StaticIds \intersect Done2 :
                               s \notin trusted' /\ (phase' = "up" => Covered(s, prov', history'))
             DeviceHolds == \A i \in DeviceIds \intersect Done2 :
                               vis'.marker /\ dur'.marker /\ \A q \in Kept' : Severs(q, i)
             FileHolds == \A id \in Done2 : FilesAgree(id)'
  <1>0. /\ StandingOK /\ RegistryOK /\ prov \in [StaticIds -> Keys \union {NoKey}]
        /\ history \in SUBSET Entries /\ Keyed(history) /\ mem \in States \union {None}
        /\ answered \in [Ids -> {"none", "done", "refused"}]
        /\ StaticIds \subseteq Ids /\ DeviceIds \subseteq Ids /\ StaticIds \intersect DeviceIds = {}
        /\ trusted \subseteq Provisioned(prov)
    BY KeyAssumption, LimitAssumption
    DEF TypeOK, StaticOK, StandingOK, RegistryOK, EntryInv, Keyed, Ids, DeviceIds
  <1>1. ASSUME StaticHolds, DeviceHolds, FileHolds PROVE RevocationInv'
    <2>1. \A id \in Ids : answered'[id] = "refused" => killed'
      BY RefusedStep
    <2> QED BY <1>0, <1>1, <2>1 DEF RevocationInv
  <1>2. \A i \in DeviceIds \intersect Done : vis'.marker /\ dur'.marker /\ \A q \in Kept' : Severs(q, i)
    BY SeveredStays
  <1>3. \A s \in StaticIds \intersect Done :
           s \notin trusted /\ (phase = "up" => Covered(s, prov, history))
    BY DEF RevocationInv
  <1>4. \A id \in Done : FilesAgree(id)
    BY DEF RevocationInv
  <1>5. \A i \in DeviceIds \intersect Done : mem = None \/ Severs(mem, i)
    BY DEF RevocationInv, Kept
  <1>6. ASSUME UNCHANGED answered, NEW p \in [StaticIds -> Keys \union {NoKey}], NEW t,
               NEW h \in SUBSET Entries, Keyed(h), NEW r \in States \union {None},
               NEW out \in Outcomes, Export(ToExport(p, t, h, r), out),
               \A s \in StaticIds \intersect Done : s \notin t /\ Covered(s, p, h),
               \A i \in DeviceIds \intersect Done : r = None \/ Severs(r, i)
        PROVE  FileHolds
    BY <1>0, <1>4, <1>6, ExportAgrees
  <1>7. ASSUME UNCHANGED answered PROVE Done2 = Done /\ DeviceHolds
    BY <1>2, <1>7
  <1>8. ASSUME NEW id \in Ids, Answer(id, "done") PROVE Done2 \subseteq Done \union {id}
    BY <1>0, <1>8 DEF Answer
  <1>9. ASSUME NEW id \in Ids, Answer(id, "refused") PROVE Done2 \subseteq Done
    BY <1>0, <1>9 DEF Answer
  <1>10. ASSUME UNCHANGED standing, Done2 \subseteq Done PROVE FileHolds
    <2>1. Found' = Found
      BY <1>10 DEF standing, Found
    <2> QED BY <1>4, <1>10, <2>1 DEF FilesAgree
  <1>11. ASSUME Done2 \subseteq Done PROVE DeviceHolds
    BY <1>2, <1>11
  <1>12. ASSUME Done2 \subseteq Done, trusted' \subseteq trusted, UNCHANGED <<phase, prov, history>>
         PROVE  StaticHolds
    BY <1>3, <1>12
  <1> HIDE DEF Done, Done2, StaticHolds, DeviceHolds, FileHolds
  <1>13. CASE \/ LoseFile \/ Kill
              \/ \E o \in Owners, by \in DeviceIds \union {0} : Mint(o, by)
              \/ \E inv \in invites : Expire(inv) \/ EnrolUnproven(inv) \/ EnrolRefused(inv)
              \/ \E inv \in invites, k \in Keys : EnrolNotAdmitted(inv, k)
              \/ UNCHANGED vars
    <2>1. UNCHANGED <<standing, prov, history, trusted, phase, answered>>
      BY <1>13 DEF LoseFile, Kill, Mint, Expire, EnrolUnproven, EnrolRefused,
                   EnrolNotAdmitted, vars, ghosts, static
    <2> QED BY <2>1, <1>1, <1>7, <1>10, <1>12
  <1>14. CASE Restore
    <2>1. UNCHANGED <<standing, prov, history, trusted, phase>>
      BY <1>14 DEF Restore, static
    <2>2. Done2 \subseteq Done
      BY <1>0, <1>14 DEF Restore, Done, Done2
    <2> QED BY <2>1, <2>2, <1>1, <1>10, <1>11, <1>12
  <1>15. CASE BootRegistry
    <2>1. UNCHANGED <<standing, static, answered>> /\ phase' = "half"
      BY <1>15 DEF BootRegistry, ghosts
    <2>2. StaticHolds
      BY <1>3, <1>7, <2>1 DEF StaticHolds, static
    <2> QED BY <2>1, <2>2, <1>1, <1>7, <1>10
  <1>16. CASE Stop
    <2>1. Found' \subseteq Found /\ trusted' = {} /\ phase' = "down" /\ UNCHANGED answered
      BY <1>16 DEF Stop, Found
    <2>2. FileHolds
      BY <1>4, <1>7, <2>1 DEF FilesAgree, FileHolds
    <2>3. StaticHolds
      BY <2>1 DEF StaticHolds
    <2> QED BY <2>1, <2>2, <2>3, <1>1, <1>7
  <1>17. ASSUME NEW p \in Provisions, BootStanding(p) PROVE RevocationInv'
    <2> DEFINE h == {e \in sfile.entries : e.id \notin Provisioned(p)}
               t == StandingAtBoot(p, h, mem)
    <2>1. PICK out \in Outcomes :
            /\ Export(ToExport(p, t, h, mem), out)
            /\ \/ phase' = "up" /\ prov' = p /\ trusted' = t /\ history' = h
               \/ phase' = "down" /\ UNCHANGED static
      BY <1>17 DEF BootStanding
    <2>2. UNCHANGED answered
      BY <1>17 DEF BootStanding, ghosts
    <2>3. h \in SUBSET Entries /\ Keyed(h)
      BY <1>0 DEF StandingOK, Files, EntryInv, Found, Keyed
    <2>4. p \in [StaticIds -> Keys \union {NoKey}]
      BY ProvisionAssumption
    <2>5. ASSUME NEW s \in StaticIds \intersect Done PROVE s \notin t /\ Covered(s, p, h)
      <3>1. sfile \in Found /\ FilesAgree(s) /\ s \in StaticIds
        BY <1>4, <2>5 DEF Found
      <3>2. PICK e \in sfile.entries : e.id = s /\ ~e.active
        BY <3>1 DEF FilesAgree
      <3>3. \A x \in h : x.id = s => ~x.active
        BY <3>1 DEF FilesAgree
      <3>4. s \in Provisioned(p) \/ e \in h
        BY <3>2
      <3> QED BY <3>2, <3>3, <3>4 DEF StandingAtBoot, Covered
    <2> HIDE DEF h, t
    <2>6. FileHolds
      BY <1>0, <1>5, <1>6, <2>1, <2>2, <2>3, <2>4, <2>5
    <2>7. StaticHolds
      BY <1>3, <1>7, <2>1, <2>2, <2>5 DEF StaticHolds, static
    <2> QED BY <1>1, <1>7, <2>2, <2>6, <2>7
  <1>18. ASSUME NEW p \in Provisions, BootStandingCorrupt(p) PROVE RevocationInv'
    <2>1. sfile.st = "lost" /\ UNCHANGED <<standing, answered>>
      BY <1>18 DEF BootStandingCorrupt, ghosts
    <2>2. StaticIds \intersect Done = {}
      BY <1>4, <2>1 DEF FilesAgree, Found
    <2>3. StaticHolds
      BY <1>7, <2>1, <2>2 DEF StaticHolds
    <2> QED BY <1>1, <1>7, <1>10, <2>1, <2>3
  <1>19. ASSUME NEW inv \in invites, NEW k \in Keys, Enrol(inv, k) PROVE RevocationInv'
    <2> DEFINE q == Admitted(mem, inv, k)
               t == trusted \ {s \in trusted : prov[s] = k}
    <2>1. q \in States /\ q /= None /\ mem' = q /\ phase = "up"
      BY <1>19, ServedStates, LegacyAssumption DEF Enrol, Enrolling
    <2>2. PICK out \in Outcomes : Export(ToExport(prov, t, history, q), out)
      BY <1>19 DEF Enrol
    <2>3. UNCHANGED <<history, answered, prov, phase>> /\ trusted' = t
      BY <1>19 DEF Enrol
    <2>4. \A s \in StaticIds \intersect Done : s \notin t /\ Covered(s, prov, history)
      BY <1>3, <2>1
    <2>5. t \subseteq trusted
      OBVIOUS
    <2> HIDE DEF q, t
    <2>6. \A i \in DeviceIds \intersect Done : Severs(q, i)
      BY <1>2, <2>1 DEF Kept
    <2>7. FileHolds
      BY <1>0, <1>6, <2>1, <2>2, <2>3, <2>4, <2>6
    <2> QED BY <1>1, <1>7, <1>12, <2>3, <2>5, <2>7
  <1>20. ASSUME NEW id \in Ids, NEW t, t \subseteq trusted, NEW q \in States \union {None},
                phase = "up", UNCHANGED <<phase, prov, history>>, trusted' = t,
                NEW out \in Outcomes, Export(ToExport(prov, t, history, q), out),
                \/ UNCHANGED answered \/ Answer(id, "refused")
                \/ out = "durable" /\ Answer(id, "done"),
                id \in StaticIds => id \in Provisioned(prov) /\ id \notin t,
                id \in DeviceIds => mem' = q /\ Severs(q, id) /\ Kept' = {q}
                                    /\ vis'.marker /\ dur'.marker,
                \A i \in DeviceIds \intersect Done : q = None \/ Severs(q, i)
         PROVE  RevocationInv'
    <2>1. Done2 \subseteq Done \union {id} /\ (out /= "durable" => Done2 \subseteq Done)
      BY <1>7, <1>8, <1>9, <1>20
    <2>2. id \in StaticIds => Covered(id, prov, history)
      BY <1>20 DEF Covered, HistoryInv
    <2>3. \A s \in StaticIds \intersect Done2 : s \notin t /\ Covered(s, prov, history)
      BY <1>3, <1>20, <2>1, <2>2
    <2>4. StaticHolds
      BY <1>20, <2>3 DEF StaticHolds
    <2>5. DeviceHolds
      BY <1>2, <1>20, <2>1 DEF DeviceHolds
    <2>6. \A i \in DeviceIds \intersect Done2 : q = None \/ Severs(q, i)
      BY <1>20, <2>1
    <2>7. ASSUME NEW x \in Done2 PROVE FilesAgree(x)'
      <3>1. x \in Ids /\ (out = "durable" \/ FilesAgree(x))
        BY <1>4, <2>1, <2>7 DEF Done2
      <3> QED BY <1>0, <1>20, <2>3, <2>6, <2>7, <3>1, ExportAgrees
    <2>8. FileHolds
      BY <2>7 DEF FileHolds
    <2> QED BY <1>1, <2>4, <2>5, <2>8
  <1>21. ASSUME NEW s \in StaticIds, RevokeStatic(s) PROVE RevocationInv'
    <2>1. PICK out \in Outcomes :
            /\ Export(ToExport(prov, trusted \ {s}, history, mem), out)
            /\ IF out = "durable" THEN Answer(s, "done") ELSE Answer(s, "refused")
      BY <1>21 DEF RevokeStatic, ExportRevocation
    <2>2. phase = "up" /\ s \in trusted /\ UNCHANGED <<phase, prov, history>> /\ trusted' = trusted \ {s}
      BY <1>21 DEF RevokeStatic
    <2>3. s \in Ids /\ s \notin DeviceIds /\ s \in Provisioned(prov)
      BY <1>0, <2>2
    <2> QED BY <1>0, <1>5, <1>20, <2>1, <2>2, <2>3
  <1>22. ASSUME NEW s \in StaticIds, RevokeStaticAgain(s) PROVE RevocationInv'
    <2>1. phase = "up" /\ s \in Provisioned(prov) \ trusted /\ UNCHANGED <<phase, prov, history, trusted>>
      BY <1>22 DEF RevokeStaticAgain, static
    <2>2. CASE UNCHANGED <<standing, answered>>
      BY <1>1, <1>7, <1>10, <1>12, <2>1, <2>2
    <2>3. ASSUME NEW out \in Outcomes, Export(ToExport(prov, trusted, history, mem), out),
                 IF out = "durable" THEN Answer(s, "done") ELSE UNCHANGED answered
          PROVE  RevocationInv'
      <3>1. s \in Ids /\ s \notin DeviceIds
        BY <1>0
      <3> QED BY <1>0, <1>5, <1>20, <2>1, <2>3, <3>1
    <2> QED BY <1>22, <2>2, <2>3 DEF RevokeStaticAgain
  <1>23. ASSUME NEW i \in DeviceIds, RevokeEnrolled(i) PROVE RevocationInv'
    <2> DEFINE q == Revoked(mem, i)
    <2>1. mem /= None /\ i \in DOMAIN mem.devices /\ phase = "up" /\ mem' = q
          /\ UNCHANGED <<phase, prov, history, trusted>>
      BY <1>23 DEF RevokeEnrolled, static
    <2>2. q \in States /\ Severs(q, i) /\ q /= None
      BY <2>1, ServedStates, RevokedSound, LegacyAssumption
    <2>3. PICK out \in Outcomes :
            /\ Export(ToExport(prov, trusted, history, q), out)
            /\ IF out = "durable" THEN Answer(i, "done") ELSE Answer(i, "refused")
      BY <1>23 DEF RevokeEnrolled, ExportRevocation
    <2> HIDE DEF q
    <2>4. vis'.state = q /\ dur' = vis' /\ vis'.marker
      BY <2>1, <2>2, RegistryStep DEF RegistryMoves, ServedIsDurable, AckInv
    <2>5. Kept' = {q}
      BY <2>1, <2>2, <2>4 DEF Kept
    <2>6. \A j \in DeviceIds \intersect Done : Severs(q, j)
      BY <1>2, <2>5
    <2>7. i \in Ids /\ i \notin StaticIds
      BY <1>0
    <2> QED BY <1>20, <2>1, <2>2, <2>3, <2>4, <2>5, <2>6, <2>7
  <1>24. ASSUME NEW i \in DeviceIds, RevokeEnrolledUnwritten(i) PROVE RevocationInv'
    <2>1. UNCHANGED <<standing, phase, prov, history, trusted>> /\ Answer(i, "refused")
      BY <1>24 DEF RevokeEnrolledUnwritten, static
    <2> QED BY <1>0, <1>1, <1>9, <1>10, <1>11, <1>12, <2>1
  <1> QED BY <1>13, <1>14, <1>15, <1>16, <1>17, <1>18, <1>19, <1>21, <1>22, <1>23, <1>24
          DEF Next, BootstrapMint

-----------------------------------------------------------------------------
(* The invariant, and what follows.                                        *)

\* The plane is down, and the directory holds a v1 file, or none.
LEMMA RInvInit == Init => RInv
  <1> SUFFICES ASSUME Init PROVE RInv
    OBVIOUS
  <1> USE DEF Init
  <1>1. PICK r \in Legacy \union {None}, m \in BOOLEAN :
          vis = [marker |-> m, state |-> r] /\ dur = vis
    OBVIOUS
  <1>2. r /= None => Sound(r)
    BY LegacyAssumption DEF Sound
  <1>3. RegistryOK
    BY <1>1, <1>2 DEF RegistryOK, Directories, Sound
  <1>4. InvitesOK /\ StaticOK
    <2>1. InvitesOK
      BY LimitAssumption DEF InvitesOK
    <2>2. Nobody \in [StaticIds -> Keys \union {NoKey}]
      BY DEF Nobody
    <2>3. 0 \in 0 .. MaxEpoch
      BY LimitAssumption
    <2> QED BY <2>1, <2>2, <2>3 DEF StaticOK
  <1>5. StandingOK
    BY DEF StandingOK, Files
  <1>6. Kept \subseteq {r} \ {None}
    BY <1>1 DEF Kept
  <1>7. AckInv
    BY <1>2, <1>6 DEF AckInv, Remembers
  <1>8. ServedIsDurable /\ PhaseInv /\ AliasInv /\ InviteInv /\ HistoryInv
    BY DEF ServedIsDurable, PhaseInv, AliasInv, InviteInv, HistoryInv
  <1>9. EntryInv
    BY DEF EntryInv, Found
  <1>10. RevocationInv
    BY DEF RevocationInv, Ids
  <1> QED BY <1>3, <1>4, <1>5, <1>7, <1>8, <1>9, <1>10 DEF RInv, Inv, TypeOK

LEMMA RInvHolds == Spec => []RInv
  <1>1. RInv /\ [Next]_vars => RInv'
    <2> SUFFICES ASSUME RInv, [Next]_vars PROVE RInv'
      OBVIOUS
    <2> USE DEF RInv, Inv
    <2>1. RegistryOK' /\ ServedIsDurable'
      BY RegistryStep DEF RegistryMoves, AckInv
    <2>2. InvitesOK' /\ InviteInv' /\ StaticOK'
      BY InviteStep, SwitchStep
    <2>3. StandingOK' /\ EntryInv' /\ HistoryInv'
      BY EntriesStep, HistoryStep
    <2>4. PhaseInv' /\ AckInv' /\ AliasInv'
      BY PhaseStep, AckStep, AliasStep
    <2>5. (~StandingFaults => RevocationInv)'
      BY RevocationStep
    <2> QED BY <2>1, <2>2, <2>3, <2>4, <2>5 DEF TypeOK
  <1> QED BY RInvInit, <1>1, PTL DEF Spec

\* The registry is well typed and what is served is durable: no process hands
\* out standing, mints or admits from a state that a power cut could undo
\* (the barriers of EnrolledDeviceFileStore.load and save).
THEOREM ServedFromDisk == Spec => []Inv
  <1>1. RInv => Inv
    BY DEF RInv
  <1> QED BY RInvHolds, <1>1, PTL

\* An enrolment answered 201 is never forgotten by a registry that is served,
\* and the lane of the first phone never opens again (commitEnrollment).
THEOREM EnrolmentsKept == Spec => []EnrolmentIsForever
  <1>1. RInv => EnrolmentIsForever
    BY DEF RInv, AckInv, Kept, EnrolmentIsForever, Remembers
  <1> QED BY RInvHolds, <1>1, PTL

\* A key the registry ever held answers under its dev_ id or not at all
\* (reconcileStaticAliases, postDeviceEnroll, the duplicate checks).
THEOREM IdentitiesKept == Spec => []OneKeyOneIdentity
  <1>1. ASSUME RInv PROVE OneKeyOneIdentity
    <2> SUFFICES ASSUME phase = "up", mem /= None, NEW i \in DOMAIN mem.devices,
                        NEW id \in Ids, Resolves(id), KeyOf(id) = mem.devices[i].key
                 PROVE  id = i
      BY DEF OneKeyOneIdentity
    <2>1. KeysDistinct(mem) /\ mem \in States /\ trusted \subseteq StaticIds
      BY <1>1 DEF RInv, AckInv, Kept, Sound, Inv, TypeOK, StaticOK, Provisioned
    <2>2. CASE id \in trusted
      BY <1>1, <2>1, <2>2 DEF RInv, AliasInv, KeyOf
    <2>3. CASE id \in Active(mem)
      <3>1. DOMAIN mem.devices = 1 .. Len(mem.devices) /\ Len(mem.devices) \in Nat
        BY <2>1, StateShape, LimitAssumption
      <3>2. id \notin StaticIds
        BY <2>3, <3>1, KeyAssumption DEF Active
      <3> QED BY <2>1, <2>3, <3>2 DEF KeyOf, KeysDistinct, Active
    <2> QED BY <2>2, <2>3 DEF Resolves
  <1> QED BY RInvHolds, <1>1, PTL

\* A phone is admitted on authority that never lapsed since its invite was
\* minted, and an invite admits one (InviteStore.#consume, #liveWitness).
THEOREM AdmissionsAuthorized == Spec => AdmittedOnLiveAuthority
  <1> DEFINE Step == \A a \in acked' \ acked :
                        a.invite \notin dead /\ \A b \in acked : b.invite /= a.invite
  <1>1. ASSUME RInv, [Next]_vars PROVE Step
    <2>1. CASE UNCHANGED acked
      BY <2>1
    <2>2. ASSUME NEW inv \in invites, NEW k \in Keys, Enrol(inv, k) PROVE Step
      <3>1. acked' = acked \union {[invite |-> inv.id, key |-> k, gen |-> inv.gen, root |-> inv.by = 0]}
            /\ mem /= None /\ Live(inv)
        BY <2>2 DEF Enrol, Enrolling, Accepted
      <3>2. \A a \in acked' \ acked : a.invite = inv.id
        BY <3>1
      <3>3. inv.epoch = epoch /\ (inv.by = 0 \/ inv.by \in Active(mem)) /\ inv.epoch \in Nat
        BY <1>1, <3>1 DEF Live, Witness, MayIssue, RInv, Inv, TypeOK, InvitesOK, Invites
      <3>4. inv.id \notin dead /\ \A b \in acked : b.invite /= inv.id
        BY <1>1, <3>1, <3>3 DEF RInv, InviteInv
      <3> QED BY <3>2, <3>4
    <2>3. UNCHANGED acked \/ \E inv \in invites, k \in Keys : Enrol(inv, k)
      BY <1>1 DEF Next, vars, ghosts, BootRegistry, BootStanding, BootStandingCorrupt, Stop,
             LoseFile, Kill, Restore, BootstrapMint, Mint, Expire, EnrolUnproven, EnrolRefused,
             EnrolNotAdmitted, RevokeStatic, RevokeStaticAgain, RevokeEnrolled,
             RevokeEnrolledUnwritten
    <2> QED BY <2>1, <2>2, <2>3
  <1>2. Spec => [][Step]_vars
    BY RInvHolds, <1>1, PTL DEF Spec
  <1> QED BY <1>2 DEF AdmittedOnLiveAuthority

\* Where a boot can read the standing file it finds, an answered revocation
\* holds in this process, in every later one, and for the escalation service
\* (postDeviceRevoke, persistStanding).
THEOREM RevocationsKept == Spec => [](~StandingFaults => RevocationHolds)
  <1>1. ASSUME RInv, ~StandingFaults PROVE RevocationHolds
    <2>0. RevocationInv /\ StaticIds \intersect DeviceIds = {} /\ trusted \subseteq StaticIds
      BY <1>1, KeyAssumption, LimitAssumption
      DEF RInv, DeviceIds, Inv, TypeOK, StaticOK, Provisioned
    <2>1. ASSUME NEW id \in Ids, answered[id] = "done" PROVE ~Resolves(id)
      <3>1. CASE id \in StaticIds
        <4>1. mem /= None => DOMAIN mem.devices \subseteq Nat
          BY <1>1, StateShape DEF RInv, AckInv, Kept, Sound
        <4> QED BY <2>0, <2>1, <3>1, <4>1, KeyAssumption DEF RevocationInv, Resolves, Active
      <3>2. CASE id \in DeviceIds
        BY <2>0, <2>1, <3>2 DEF RevocationInv, Resolves, Active, Severs, Kept
      <3> QED BY <3>1, <3>2 DEF Ids
    <2>2. RevokedStaysOut
      BY <2>0, <2>1 DEF RevokedStaysOut, RevocationInv
    <2>3. RevocationReachesReaders
      BY <2>0 DEF RevocationReachesReaders, RevocationInv, FilesAgree, Found
    <2> QED BY <2>2, <2>3 DEF RevocationHolds
  <1>2. RInv => (~StandingFaults => RevocationHolds)
    BY <1>1
  <1> QED BY RInvHolds, <1>2, PTL
=============================================================================
