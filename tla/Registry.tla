------------------------------ MODULE Registry ------------------------------
(***************************************************************************)
(* Enrolled devices: the durable registry (enrolled-devices.ts), the       *)
(* invites that admit a phone to it (invite.ts), the bootstrap mint of     *)
(* the first one, and the handlers of server.ts that enrol and revoke and  *)
(* that export the standing of every device for the escalation service.    *)
(*                                                                         *)
(* A phone may answer under two names: a static id of the operator's keys  *)
(* file and a dev_ id of the registry.  Two files record trust, in two     *)
(* publishes; the process may stop and the power fail between any two of   *)
(* them, and a publish may fail, or be visible without being durable.      *)
(*                                                                         *)
(* Abstracted: a phone's passkey credential and cheap-lane key are one     *)
(* key.  A dev_ id is the place of its record in the registry, which only  *)
(* grows; its generation is 1 until it is revoked and 2 after, so it says  *)
(* no more than its standing.  Of a submission the model keeps for which   *)
(* invite each of its parts was made.  A directory is what is seen and     *)
(* what survives a power cut.  The kill switch keeps its answer over a     *)
(* restart (KillSwitch.tla).                                               *)
(***************************************************************************)
EXTENDS Integers, Sequences, FiniteSets

CONSTANTS
    Keys,            \* keys of phones
    StaticIds,       \* ids a keys file may give
    NoKey,           \* no key: the id is not in the keys file, the entry has no spki
    None,            \* no registry: no file, or #state = null
    Owners,          \* owner ids
    Provisions,      \* the keys files an operator may boot with
    Legacy,          \* v1 registries an upgrade may find
    MaxActive,       \* MAX_ACTIVE_DEVICES
    MaxOwners,       \* MAX_OWNERS
    MaxInvites,      \* the cap on live invites
    StandingFaults,  \* a boot may find the standing file unreadable
    MaxDevices,      \* bound on records (model bound, not in the code)
    MaxMints,        \* bound on invites minted (model bound)
    MaxEpoch         \* bound on kills (model bound)

ASSUME KeyAssumption == NoKey \notin Keys /\ StaticIds \intersect Nat = {}
ASSUME ProvisionAssumption == Provisions \subseteq [StaticIds -> Keys \union {NoKey}]
ASSUME LimitAssumption ==
    /\ MaxActive \in Nat \ {0} /\ MaxOwners \in Nat \ {0} /\ MaxInvites \in Nat \ {0}
    /\ StandingFaults \in BOOLEAN
    /\ MaxDevices \in Nat /\ MaxMints \in Nat /\ MaxEpoch \in Nat

VARIABLES
    phase,        \* the control plane: down, half (the registry is read), up
    vis, dur,     \* the registry's directory as seen, and after a power cut
    mem,          \* #state; None while quarantined
    invites,      \* #invites
    minted,       \* invites minted so far: their ids
    killed, epoch,\* the kill switch
    prov,         \* the keys file of this boot
    trusted,      \* static ids with revokedAt = null
    history,      \* unenrolledStanding
    quarantined,  \* standingQuarantined
    sfile, solder,\* the standing file, and what a power cut may bring back
    acked,        \* history: enrolments answered 201
    dead,         \* history: invites whose authority has ended
    answered      \* history: what each revocation was answered

registry == <<vis, dur, mem>>
switch == <<killed, epoch>>
static == <<prov, trusted, history>>
standing == <<sfile, solder>>
ghosts == <<acked, dead, answered>>
vars == <<phase, registry, invites, minted, switch, static, quarantined, standing, ghosts>>

DeviceIds == 1 .. MaxDevices
Ids == StaticIds \union DeviceIds

-----------------------------------------------------------------------------
(* Registry states and the file store.                                     *)

Devices == [key : Keys, owner : Owners, active : BOOLEAN]
States ==
    [version : {1, 2}, gen : 1 .. MaxDevices + 2,
     devices : UNION {[1 .. n -> Devices] : n \in 0 .. MaxDevices}, owners : SUBSET Owners]

\* One key, one device, over the whole history (asPersistedEnrolledDevices).
KeysDistinct(r) ==
    \A i, j \in DOMAIN r.devices : r.devices[i].key = r.devices[j].key => i = j

\* A v1 file is one that loads as such (asLegacyV1): it names no handles, and
\* its bootstrap lane was closed by devices that are in it.
ASSUME LegacyAssumption ==
    /\ None \notin States
    /\ \A r \in Legacy :
          /\ r \in States /\ r.version = 1 /\ r.owners = {}
          /\ KeysDistinct(r) /\ r.gen <= Len(r.devices) + 1

Active(r) == {i \in DOMAIN r.devices : r.devices[i].active}
HasKey(r, k) == \E i \in DOMAIN r.devices : r.devices[i].key = k

\* The state a first boot publishes.
Initial == [version |-> 2, gen |-> 1, devices |-> <<>>, owners |-> {}]

\* A v1 file with a handle for every owner in it.
Migrated(r) ==
    [r EXCEPT !.version = 2,
              !.owners = {r.devices[i].owner : i \in DOMAIN r.devices}]

Revoked(r, i) == [r EXCEPT !.devices[i].active = FALSE]

\* The device and, for a bootstrap invite, the closed lane.
Admitted(r, inv, k) ==
    [r EXCEPT !.gen = IF inv.by = 0 THEN @ + 1 ELSE @,
              !.devices = Append(@,
        [key |-> k, owner |-> inv.owner, active |-> TRUE])]

Outcomes == {"durable", "unproven", "failed"}

\* save(): the marker first, then the state by rename, then the directory.
Publish(r, out) ==
    /\ vis' \in IF out = "failed"
                THEN {vis, [vis EXCEPT !.marker = TRUE]}
                ELSE {[marker |-> TRUE, state |-> r]}
    /\ dur' = IF out = "durable" THEN vis' ELSE dur

\* Mutant: a publish that is visible is served.
ServedVisible(r, out, otherwise) == IF out = "failed" THEN otherwise ELSE r

\* What memory holds after a publish of r: an unproven one quarantines.
Served(r, out, otherwise) ==
    CASE out = "durable" -> r
      [] out = "unproven" -> None
      [] out = "failed" -> otherwise

-----------------------------------------------------------------------------
(* The standing file.                                                      *)

Provisioned(p) == {s \in StaticIds : p[s] /= NoKey}
Entry(id, k, a) == [id |-> id, key |-> k, active |-> a]

\* The exported standing of the registry, when it can vouch for any.
Projection(r) ==
    IF r = None THEN {}
    ELSE {Entry(i, r.devices[i].key, r.devices[i].active) : i \in DOMAIN r.devices}

\* A migrated key the registry does not vouch for is exported as revoked.
Tombstone(e) == IF e.key = NoKey THEN e ELSE [e EXCEPT !.active = FALSE]

\* What persistStanding() writes.
ToExport(p, t, h, r) ==
    LET fresh == {Entry(s, NoKey, s \in t) : s \in Provisioned(p)} \union Projection(r)
        old == {Tombstone(e) : e \in h}
    IN fresh \union {e \in old : \A f \in fresh : f.id /= e.id}

\* A save that fails before there is a file may leave a marker behind.
Export(entries, out) ==
    /\ sfile' \in CASE out /= "failed" -> {[st |-> "ok", entries |-> entries]}
                    [] out = "failed" /\ sfile.st = "absent" -> {sfile, [sfile EXCEPT !.st = "lost"]}
                    [] OTHER -> {sfile}
    /\ solder' = CASE out = "durable" -> {}
                   [] out = "unproven" -> solder \union {sfile}
                   [] OTHER -> solder

-----------------------------------------------------------------------------
Nobody == [s \in StaticIds |-> NoKey]

Init ==
    /\ phase = "down"
    /\ \E r \in Legacy \union {None}, m \in BOOLEAN :
        /\ r = None => ~m
        /\ vis = [marker |-> m, state |-> r] /\ dur = vis
    /\ mem = None
    /\ invites = {} /\ minted = 0
    /\ killed = FALSE /\ epoch = 0
    /\ prov = Nobody /\ trusted = {} /\ history = {} /\ quarantined = FALSE
    /\ sfile = [st |-> "absent", entries |-> {}] /\ solder = {}
    /\ acked = {} /\ dead = {}
    /\ answered = [id \in Ids |-> "none"]

-----------------------------------------------------------------------------
(* Boot.                                                                   *)

\* Mutant: a missing file is a first boot, marker or not.
FirstBootAlways == vis.state = None

FirstBoot == vis.state = None /\ ~vis.marker

\* load() proves what it read durable, or the registry is quarantined.
LoadLegacy ==
    /\ vis.state /= None /\ vis.state.version = 1
    /\ \E out \in Outcomes :
        /\ vis' = [marker |-> TRUE,
                   state |-> IF out = "failed" THEN vis.state ELSE Migrated(vis.state)]
        /\ dur' = IF out = "durable" THEN vis' ELSE [marker |-> TRUE, state |-> vis.state]
        /\ mem' = Served(Migrated(vis.state), out, None)

LoadCurrent ==
    /\ vis.state /= None /\ vis.state.version = 2
    /\ vis' = [vis EXCEPT !.marker = TRUE] /\ dur' = vis'
    /\ mem' = vis.state

BootRegistry ==
    /\ phase = "down"
    /\ phase' = "half"
    /\ \/ mem' = None /\ UNCHANGED <<vis, dur>>    \* unreadable, unsynced or lost
       \/ FirstBoot /\ \E out \in Outcomes :
            Publish(Initial, out) /\ mem' = Served(Initial, out, None)
       \/ LoadLegacy
       \/ LoadCurrent
    /\ UNCHANGED <<invites, minted, switch, static, quarantined, standing, ghosts>>

\* Keys that moved to the registry, by its records and by the tombstones.
MigratedKeys(h, r) ==
    {e.key : e \in h} \union {e.key : e \in Projection(r)}

\* Mutant: aliases are severed when a phone enrols and not at boot.
StandingAtBootNamed(p, h, r) ==
    {s \in Provisioned(p) : \A e \in sfile.entries : e.id = s => e.active}

\* The static ids that boot trusted: not recorded as revoked, not an alias.
StandingAtBoot(p, h, r) ==
    {s \in Provisioned(p) :
        /\ \A e \in sfile.entries : e.id = s => e.active
        /\ p[s] \notin MigratedKeys(h, r)}

\* The file is written at every boot, durable or the server does not start.
BootStanding(p) ==
    /\ phase = "half" /\ sfile.st /= "lost"
    /\ LET h == {e \in sfile.entries : e.id \notin Provisioned(p)}
           t == StandingAtBoot(p, h, mem)
       IN \E out \in Outcomes :
            /\ Export(ToExport(p, t, h, mem), out)
            /\ IF out = "durable"
               THEN /\ phase' = "up" /\ prov' = p /\ trusted' = t /\ history' = h
                    /\ UNCHANGED mem
               ELSE phase' = "down" /\ mem' = None /\ UNCHANGED static
    /\ UNCHANGED <<vis, dur, invites, minted, switch, quarantined, ghosts>>

\* A standing file that cannot be trusted revokes every device, in memory only.
BootStandingCorrupt(p) ==
    /\ phase = "half"
    /\ sfile.st = "lost" \/ (StandingFaults /\ sfile.st = "ok")
    /\ phase' = "up" /\ prov' = p /\ trusted' = {} /\ history' = {}
    /\ UNCHANGED <<registry, invites, minted, switch, quarantined, standing, ghosts>>

\* The process ends; when the power fails, what was not synced may be gone.
Stop ==
    /\ phase /= "down"
    /\ phase' = "down"
    /\ mem' = None /\ invites' = {}
    /\ prov' = Nobody /\ trusted' = {} /\ history' = {} /\ quarantined' = FALSE
    /\ \/ UNCHANGED <<vis, dur, sfile, solder>>
       \/ /\ vis' \in {vis, dur} /\ dur' = vis'
          /\ sfile' \in solder \union {sfile} /\ solder' = {}
    /\ dead' = dead \union (1 .. minted)
    /\ UNCHANGED <<minted, switch, acked, answered>>

\* The registry file is deleted; its marker is not.
LoseFile ==
    /\ phase = "down" /\ vis.marker /\ vis.state /= None
    /\ vis' = [vis EXCEPT !.state = None] /\ dur' = vis'
    /\ UNCHANGED <<phase, mem, invites, minted, switch, static, quarantined, standing, ghosts>>

-----------------------------------------------------------------------------
(* The kill switch, as the handlers see it.                                *)

Engage == killed' = TRUE /\ epoch' = epoch + 1
MayEngage == epoch < MaxEpoch

Kill ==
    /\ phase = "up" /\ MayEngage
    /\ Engage
    /\ dead' = dead \union (1 .. minted)
    /\ UNCHANGED <<phase, registry, invites, minted, static, quarantined, standing,
                   acked, answered>>

\* The end of a 2GO ceremony.  The answer 503 asked for the revocation to be
\* repeated first; an owner who does not has given it up.
Restore ==
    /\ phase = "up" /\ killed
    /\ killed' = FALSE
    /\ answered' = [id \in Ids |-> IF answered[id] = "refused" THEN "none" ELSE answered[id]]
    /\ UNCHANGED <<phase, registry, invites, minted, epoch, static, quarantined, standing,
                   acked, dead>>

-----------------------------------------------------------------------------
(* Invites.  `by' is the device that mints, 0 for the bootstrap socket.    *)

\* #liveWitness(): what an invite is held against, now, with r in memory.
Witness(r) ==
    [killed |-> killed, epoch |-> epoch, gen |-> r.gen, active |-> Active(r)]

\* The lane is open while there is no device; a device mints while it stands.
MayIssue(w, by) == IF by = 0 THEN w.active = {} ELSE by \in w.active

\* register(): what is recorded must be live now.
Registrable(w, by) ==
    ~w.killed /\ Cardinality(invites) < MaxInvites /\ MayIssue(w, by)

Registered(o, by) ==
    /\ minted' = minted + 1
    /\ invites' = invites \union
         {[id |-> minted + 1, owner |-> o, by |-> by, gen |-> mem.gen, epoch |-> epoch]}

\* mintInvite(): the owner's handle is published first, whatever register() says.
Mint(o, by) ==
    /\ phase = "up" /\ mem /= None /\ minted < MaxMints
    /\ by = 0 \/ (by \in Active(mem) /\ o = mem.devices[by].owner)
    /\ \/ o \in mem.owners /\ Registrable(Witness(mem), by) /\ Registered(o, by) /\ UNCHANGED registry
       \/ /\ o \notin mem.owners /\ Cardinality(mem.owners) < MaxOwners
          /\ LET r == [mem EXCEPT !.owners = @ \union {o}] IN
             \E out \in Outcomes :
                /\ Publish(r, out) /\ mem' = Served(r, out, mem)
                /\ IF out = "durable" /\ Registrable(Witness(r), by)
                   THEN Registered(o, by) ELSE UNCHANGED <<invites, minted>>
    /\ UNCHANGED <<phase, switch, static, quarantined, standing, ghosts>>

\* The bootstrap socket's one request.  Its answer may not reach the operator,
\* who asks again: the first phone has siblings of its invite.
BootstrapMint(o) == Mint(o, 0)

Expire(inv) ==
    /\ phase = "up"
    /\ invites' = invites \ {inv}
    /\ UNCHANGED <<phase, registry, minted, switch, static, quarantined, standing, ghosts>>

\* Mutant: an invite outlives a kill.
LiveAnyEpoch(inv) ==
    /\ inv.by = 0 => inv.gen = Witness(mem).gen
    /\ MayIssue(Witness(mem), inv.by)

\* #consume(): the authority behind the invite still stands.
Live(inv) ==
    /\ inv.epoch = Witness(mem).epoch
    /\ inv.by = 0 => inv.gen = Witness(mem).gen
    /\ MayIssue(Witness(mem), inv.by)

\* A spend removes the invite and, the first phone winning, its siblings.
Spent(inv) ==
    invites \ (IF inv.by = 0 THEN {j \in invites : j.by = 0} ELSE {inv})

-----------------------------------------------------------------------------
(* POST /devices/enroll.                                                   *)

Parts == {"label", "registration", "possession", "lane", "secret"}

\* What is submitted for an invite: each part made for it, or one that was
\* made for another ceremony or is no proof at all.
Genuine(inv) == [p \in Parts |-> inv.id]
Submissions(inv) == {Genuine(inv)} \union {[Genuine(inv) EXCEPT ![p] = 0] : p \in Parts}

\* The exact fields, and the label of the invite repeated.
WellFormed(inv, s) == s["label"] = inv.id

\* A credential created over the first challenge of the invite.
RegistrationVerifies(inv, s) == s["registration"] = inv.id

\* A fresh assertion of that credential over the second challenge.
PossessionVerifies(inv, s) == s["possession"] = inv.id

\* The key of the cheap lane signs the transcript of this ceremony.
LaneVerifies(inv, s) == s["lane"] = inv.id

Proven(inv, s) ==
    /\ WellFormed(inv, s)
    /\ RegistrationVerifies(inv, s) /\ PossessionVerifies(inv, s) /\ LaneVerifies(inv, s)

\* The preimage of what the invite committed to.
HoldsSecret(inv, s) == s["secret"] = inv.id

Enrolling(inv) ==
    phase = "up" /\ mem /= None /\ Cardinality(Active(mem)) < MaxActive

\* The invite survives whatever is not proven.
EnrolUnproven(inv) ==
    /\ Enrolling(inv)
    /\ {s \in Submissions(inv) :
          ~Proven(inv, s) \/ (~killed /\ ~HoldsSecret(inv, s))} /= {}
    /\ UNCHANGED vars

\* Killed, secret or not, or the authority is gone: the invite is burned.
EnrolRefused(inv) ==
    /\ Enrolling(inv)
    /\ \E s \in Submissions(inv) :
          Proven(inv, s) /\ (killed \/ (HoldsSecret(inv, s) /\ ~Live(inv)))
    /\ invites' = invites \ {inv}
    /\ UNCHANGED <<phase, registry, minted, switch, static, quarantined, standing, ghosts>>

\* Every proof holds, the secret is there, and the authority stands.
Accepted(inv) ==
    /\ ~killed /\ Live(inv)
    /\ \E s \in Submissions(inv) : Proven(inv, s) /\ HoldsSecret(inv, s)

KnownKey(k) == HasKey(mem, k)

\* A key the registry ever held, or a publish that is not durable.
EnrolNotAdmitted(inv, k) ==
    /\ Enrolling(inv) /\ Accepted(inv)
    /\ invites' = Spent(inv)
    /\ \/ KnownKey(k) /\ UNCHANGED registry
       \/ /\ ~KnownKey(k) /\ Len(mem.devices) < MaxDevices
          /\ \E out \in Outcomes \ {"durable"} :
                Publish(Admitted(mem, inv, k), out)
                /\ mem' = Served(Admitted(mem, inv, k), out, mem)
    /\ UNCHANGED <<phase, minted, switch, static, quarantined, standing, ghosts>>

\* Admitted: the static name of the same key is severed in the same step.
Enrol(inv, k) ==
    /\ Enrolling(inv) /\ Accepted(inv) /\ ~KnownKey(k)
    /\ Len(mem.devices) < MaxDevices
    /\ LET r == Admitted(mem, inv, k)
           alias == {s \in trusted : prov[s] = k}
       IN /\ Publish(r, "durable") /\ mem' = r
          /\ invites' = Spent(inv)
          /\ trusted' = trusted \ alias
          /\ acked' = acked \union {[invite |-> inv.id, key |-> k, gen |-> inv.gen, root |-> inv.by = 0]}
          /\ \E out \in Outcomes :
                /\ Export(ToExport(prov, trusted \ alias, history, r), out)
                /\ IF out /= "durable" /\ alias /= {}
                   THEN /\ MayEngage /\ Engage /\ quarantined' = TRUE
                        /\ dead' = dead \union (1 .. minted)
                   ELSE /\ UNCHANGED <<switch, quarantined>>
                        /\ dead' = dead \union {j.id : j \in invites \ invites'}
    /\ UNCHANGED <<phase, minted, prov, history, answered>>

-----------------------------------------------------------------------------
(* POST /devices/:id/revoke.                                               *)

Answer(id, a) == answered' = [answered EXCEPT ![id] = IF @ = "done" THEN @ ELSE a]

\* The export of a revocation, and what the caller is told.
ExportRevocation(id, t, r) ==
    \E out \in Outcomes :
        /\ Export(ToExport(prov, t, history, r), out)
        /\ IF out = "durable"
           THEN /\ quarantined' = FALSE /\ Answer(id, "done")
                /\ UNCHANGED switch
           ELSE /\ MayEngage /\ Engage
                /\ quarantined' = TRUE /\ Answer(id, "refused")

\* Authority that ends with this step: a kill ends all, device i its invites.
Ended(i) ==
    dead' = dead \union
        (IF killed' /\ epoch' /= epoch THEN 1 .. minted ELSE {j.id : j \in {x \in invites : x.by = i}})

RevokeStatic(s) ==
    /\ phase = "up" /\ s \in trusted
    /\ trusted' = trusted \ {s}
    /\ ExportRevocation(s, trusted \ {s}, mem)
    /\ Ended(MaxDevices + 1)
    /\ UNCHANGED <<phase, registry, invites, minted, prov, history, acked>>

\* Already revoked: only an earlier failure to write it is made good.  Without
\* one the answer is 200 from memory, nothing is written, and RevokedStaysOut
\* does not speak of it.
RevokeStaticAgain(s) ==
    /\ phase = "up" /\ s \in Provisioned(prov) \ trusted
    /\ \/ ~quarantined /\ UNCHANGED <<quarantined, standing, answered>>
       \/ /\ quarantined
          /\ \E out \in Outcomes :
                /\ Export(ToExport(prov, trusted, history, mem), out)
                /\ quarantined' = (out /= "durable")
                /\ IF out = "durable" THEN Answer(s, "done") ELSE UNCHANGED answered
    /\ UNCHANGED <<phase, registry, invites, minted, switch, static, acked, dead>>

\* Mutant: the export is left to the next boot.
RevokeEnrolledOnly(i) ==
    /\ phase = "up" /\ mem /= None /\ i \in Active(mem)
    /\ Publish(Revoked(mem, i), "durable") /\ mem' = Revoked(mem, i)
    /\ Answer(i, "done")
    /\ UNCHANGED <<standing, switch, quarantined>>
    /\ Ended(i)
    /\ UNCHANGED <<phase, invites, minted, static, acked>>

\* The registry publishes the revocation, then the standing file does.
RevokeEnrolled(i) ==
    /\ phase = "up" /\ mem /= None /\ i \in DOMAIN mem.devices
    /\ LET r == Revoked(mem, i) IN
       /\ IF i \in Active(mem) THEN Publish(r, "durable") ELSE UNCHANGED <<vis, dur>>
       /\ mem' = r
       /\ ExportRevocation(i, trusted, r)
    /\ Ended(i)
    /\ UNCHANGED <<phase, invites, minted, static, acked>>

\* revoke() that cannot prove its publish: the file may still hold the device
\* active, so nothing is served from memory either.
RevocationFails(i) ==
    /\ \E out \in Outcomes \ {"durable"} : Publish(Revoked(mem, i), out)
    /\ mem' = None

\* The registry could not record it: quarantine, and a kill that lasts.
RevokeEnrolledUnwritten(i) ==
    /\ phase = "up" /\ mem /= None /\ i \in Active(mem) /\ MayEngage
    /\ RevocationFails(i)
    /\ Engage
    /\ Answer(i, "refused")
    /\ Ended(i)
    /\ UNCHANGED <<phase, invites, minted, static, quarantined, standing, acked>>

-----------------------------------------------------------------------------
Next ==
    \/ BootRegistry
    \/ \E p \in Provisions : BootStanding(p) \/ BootStandingCorrupt(p)
    \/ Stop \/ LoseFile
    \/ Kill \/ Restore
    \/ \E o \in Owners : BootstrapMint(o)
    \/ \E o \in Owners, by \in DeviceIds : Mint(o, by)
    \/ \E inv \in invites : Expire(inv) \/ EnrolUnproven(inv) \/ EnrolRefused(inv)
    \/ \E inv \in invites, k \in Keys : EnrolNotAdmitted(inv, k) \/ Enrol(inv, k)
    \/ \E s \in StaticIds : RevokeStatic(s) \/ RevokeStaticAgain(s)
    \/ \E i \in DeviceIds : RevokeEnrolled(i) \/ RevokeEnrolledUnwritten(i)

Spec == Init /\ [][Next]_vars

-----------------------------------------------------------------------------
(* Properties.                                                             *)

Directories == [marker : BOOLEAN, state : States \union {None}]
Entries == [id : Ids, key : Keys \union {NoKey}, active : BOOLEAN]
Files == [st : {"absent", "ok", "lost"}, entries : SUBSET Entries]
Invites ==
    [id : 1 .. MaxMints, owner : Owners, by : 0 .. MaxDevices,
     gen : 1 .. MaxDevices + 2, epoch : 0 .. MaxEpoch]

\* The types of the variables, component by component.
RegistryOK ==
    /\ phase \in {"down", "half", "up"}
    /\ vis \in Directories /\ dur \in Directories
    /\ mem \in States \union {None}

InvitesOK ==
    /\ invites \subseteq Invites /\ minted \in 0 .. MaxMints
    /\ acked \subseteq [invite : 1 .. MaxMints, key : Keys, gen : 1 .. MaxDevices + 2, root : BOOLEAN]
    /\ dead \subseteq 1 .. MaxMints

StaticOK ==
    /\ killed \in BOOLEAN /\ epoch \in 0 .. MaxEpoch
    /\ prov \in [StaticIds -> Keys \union {NoKey}]
    /\ trusted \subseteq Provisioned(prov)

StandingOK ==
    /\ history \subseteq Entries
    /\ quarantined \in BOOLEAN
    /\ sfile \in Files /\ solder \subseteq Files
    /\ answered \in [Ids -> {"none", "done", "refused"}]

\* The shape of the two files, of the registry and of the invites in memory.
TypeOK == RegistryOK /\ InvitesOK /\ StaticOK /\ StandingOK

\* Nothing is served that a power cut could undo: a registry in memory is the
\* file, and the file is durable (the barriers of load() and save()).
ServedIsDurable ==
    mem /= None => vis.state = mem /\ dur = vis /\ vis.marker

\* The shape of the state and of what is served, on the way to an inductive
\* invariant of the registry.
Inv == TypeOK /\ ServedIsDurable

\* An enrolment answered 201 is never forgotten: every registry served later,
\* over restarts, power cuts and a deleted file, holds its key, and the
\* bootstrap lane it came through stays closed.
EnrolmentIsForever ==
    mem /= None => \A a \in acked : HasKey(mem, a.key) /\ (a.root => mem.gen > a.gen)

\* resolveOwnerDevice() finds a key that answers under this id.
Resolves(id) ==
    \/ id \in trusted
    \/ phase = "up" /\ mem /= None /\ id \in Active(mem)

KeyOf(id) == IF id \in StaticIds THEN prov[id] ELSE mem.devices[id].key

\* One key, one identity: a key the registry ever held answers under no name
\* but its own, and not at all once that is revoked, so that revoking a phone
\* severs it (reconcileStaticAliases, the enrol handler, the duplicate check).
OneKeyOneIdentity ==
    phase = "up" /\ mem /= None =>
        \A i \in DOMAIN mem.devices, id \in {x \in Ids : Resolves(x)} :
            KeyOf(id) = mem.devices[i].key => id = i

\* A revocation that was written is for good; one that could not be written
\* holds at least until an owner restores the switch it killed.
RevokedStaysOut ==
    \A id \in Ids :
        /\ answered[id] = "done" => ~Resolves(id)
        /\ answered[id] = "refused" => ~Resolves(id) \/ killed \/ quarantined

\* The answer 200 comes after both durable writes: the escalation service,
\* which reads the standing file alone, finds no trace of trust in it, now or
\* after a power cut.
RevocationReachesReaders ==
    \A id \in Ids : answered[id] = "done" =>
        \A f \in solder \union {sfile} : \A e \in f.entries : e.id = id => ~e.active

\* An answered revocation holds in the process that answered, in every later
\* one and in the file the escalation service reads.
RevocationHolds == RevokedStaysOut /\ RevocationReachesReaders

\* A device is admitted only on authority that never lapsed since the invite
\* was minted (no kill, no restart, the issuer not revoked, no other first
\* phone), and an invite admits one device.
AdmittedOnLiveAuthority ==
    [][\A a \in acked' \ acked :
          a.invite \notin dead /\ \A b \in acked : b.invite /= a.invite]_vars
=============================================================================
