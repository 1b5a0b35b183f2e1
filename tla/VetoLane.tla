------------------------------ MODULE VetoLane ------------------------------
(***************************************************************************)
(* Silence as consent: the ordinary veto window (veto.ts), the handlers of *)
(* server.ts that show it to the owner's devices and take their word that  *)
(* it was seen, and the standing of those devices (device-standing.ts),    *)
(* which a revocation must end for good.                                   *)
(*                                                                         *)
(* A window left alone releases its call at the deadline only if a device  *)
(* that is trusted then has confirmed, early enough, the showing that is   *)
(* current.  Every handler is atomic after its last await.  Devices, the   *)
(* gateway, the owner and whoever may kill call in any order.              *)
(*                                                                         *)
(* Time is relative: `left' is the time to a window's deadline, negative   *)
(* once it has passed; how long past matters up to one extension.          *)
(*                                                                         *)
(* Abstracted: a device is revoked once and for ever, so its generation    *)
(* says no more than its standing.  Of the deliveries one device fetched   *)
(* for one window only the newest is kept: an older one is accepted in no  *)
(* case in which the newest is not, and none is after one was.  Purposed   *)
(* windows are in MergeLane.tla, ceremony-enrolled devices and aliases are *)
(* left out, the kill switch keeps its answer (KillSwitch.tla).            *)
(***************************************************************************)
EXTENDS Integers, FiniteSets

CONSTANTS
    Windows,      \* veto window ids
    Devices,      \* owner devices that a keys file may name
    NoDevice,     \* deliveredByDevice = null
    WindowMs,     \* windowMs
    Extension,    \* extensionMs
    Floor,        \* MIN_VETO_RESPONSE_MS
    DeliveryTtl,  \* DELIVERY_TTL_MS
    MaxEpoch      \* bound on kills (model bound, not in the code)

ASSUME DeviceAssumption == NoDevice \notin Devices
ASSUME TimeAssumption ==
    /\ WindowMs \in Nat \ {0} /\ Extension \in Nat \ {0}
    /\ Floor \in Nat \ {0} /\ DeliveryTtl \in Nat \ {0}
ASSUME BoundAssumption == MaxEpoch \in Nat \ {0}

VARIABLES
    up,                     \* the control plane runs
    killed, epoch, scoped,  \* the kill switch; scoped: the windows' agent is killed
    enrolled,               \* ownerDevices
    standing,               \* revokedAt of each, and unenrolledStanding
    quarantined,            \* standingQuarantined
    file,                   \* the standing file
    older,                  \* contents a power cut may bring back
    window,                 \* vetoWindows
    delivery,               \* ownerDeliveries
    served,                 \* history: windows a poll reported as released
    crossed,                \* history: windows a kill came after
    promised                \* history: revocations written, or refused with a kill

switch == <<killed, epoch, scoped>>
registry == <<enrolled, standing, quarantined>>
disk == <<file, older>>
history == <<served, crossed, promised>>
vars == <<up, switch, registry, disk, window, delivery, history>>

-----------------------------------------------------------------------------
(* The standing file.                                                      *)

Standing == [Devices -> {"none", "active", "revoked"}]
NoStanding == [d \in Devices |-> "none"]
Saved(s) == [st |-> "ok", devices |-> s]
Absent == [st |-> "absent", devices |-> NoStanding]
Corrupt == [st |-> "corrupt", devices |-> NoStanding]

\* Mutant: the standing of devices that are not enrolled is not carried on.
StateToSaveEnrolled(E, s) == [d \in Devices |-> IF d \in E THEN s[d] ELSE "none"]

\* What persistStanding() writes: the enrolled devices and, verbatim, the
\* history of those that are not.
StateToSave(E, s) == s

SaveDurable(E, s) == file' = Saved(StateToSave(E, s)) /\ older' = {}

\* save() threw, or published a file that a power cut may take back.
SaveNotDurable(E, s) ==
    \/ UNCHANGED disk
    \/ file' = Saved(StateToSave(E, s)) /\ older' = older \union {file}

-----------------------------------------------------------------------------
(* VetoWindow.                                                             *)

Unborn == [st |-> "unborn", left |-> 0, revision |-> 1, epoch |-> 0,
           by |-> NoDevice, shown |-> 0, seen |-> 0]

Open(x) == x.st \in {"pending", "extended"}
Known(w) == window[w].st \notin {"unborn", "gone"}
Delivered(x) == x.by /= NoDevice

\* The status is final; its clock no longer matters.
Ended(x, st) == [x EXCEPT !.st = st, !.left = 0]

\* No evidence.  Of evidence the model also keeps (history) the revision the
\* device had fetched and how long it has stood before the deadline.
Cleared(x) == [x EXCEPT !.by = NoDevice, !.shown = 0, !.seen = 0]

\* Mutant: every deadline that passes in silence is extended.
OverdueAgain(x) == [x EXCEPT !.left = @ + Extension]

\* The deadline has passed and nobody is known to have looked.
Overdue(x) ==
    IF x.st = "pending"
    THEN [x EXCEPT !.st = "extended", !.left = @ + Extension,
                   !.revision = @ + 1]
    ELSE Ended(x, "held")

\* tick(), where the devices in S are the ones whose witness stands.
Ticked(x, S) ==
    CASE ~Open(x) \/ x.left > 0 -> x
      [] OTHER -> IF x.by \in S THEN Ended(x, "released") ELSE Overdue(Cleared(x))

\* witnessStanding() holds of these.
Witnesses ==
    {d \in enrolled : standing[d] = "active" /\ ~killed /\ ~quarantined}

\* A signature of this device verifies.
Authenticates(d) == d \in enrolled /\ standing[d] = "active"

NoDelivery == [revision |-> 0, age |-> 0]
NoDeliveries == [w \in Windows |-> [d \in Devices |-> NoDelivery]]

-----------------------------------------------------------------------------
Init ==
    /\ up = FALSE
    /\ killed = FALSE /\ epoch = 0 /\ scoped = FALSE
    /\ enrolled = {} /\ standing = NoStanding /\ quarantined = FALSE
    /\ file = Absent /\ older = {}
    /\ window = [w \in Windows |-> Unborn]
    /\ delivery = NoDeliveries
    /\ served = {} /\ crossed = {} /\ promised = {}

(* Boot, with the devices E in the keys file.                              *)

Loaded(E) ==
    [d \in Devices |->
        IF d \in E /\ file.devices[d] = "none" THEN "active" ELSE file.devices[d]]

\* The file is written at every boot, durable or the server does not start.
Boot(E) ==
    /\ ~up /\ file.st /= "corrupt"
    /\ up' = TRUE
    /\ enrolled' = E /\ standing' = Loaded(E)
    /\ SaveDurable(E, Loaded(E))
    /\ UNCHANGED <<switch, quarantined, window, delivery, history>>

BootRefused(E) ==
    /\ ~up /\ file.st /= "corrupt"
    /\ \/ SaveNotDurable(E, Loaded(E))
       \/ file = Absent /\ file' = Corrupt /\ older' = {Absent}  \* a marker, no file
    /\ UNCHANGED <<up, switch, registry, window, delivery, history>>

\* The file is not what save() writes, or could not be read this time: every
\* device is revoked, in memory only.
BootCorrupt(E) ==
    /\ ~up /\ file.st /= "absent"
    /\ up' = TRUE
    /\ enrolled' = E
    /\ standing' = [d \in Devices |-> IF d \in E THEN "revoked" ELSE "none"]
    /\ UNCHANGED <<switch, quarantined, disk, window, delivery, history>>

-----------------------------------------------------------------------------
(* The kill switch, as the handlers see it.                                *)

Killing ==
    /\ up /\ epoch < MaxEpoch
    /\ epoch' = epoch + 1
    /\ crossed' = crossed \union {w \in Windows : Known(w)}

PostKill ==
    /\ Killing
    /\ killed' = TRUE
    /\ UNCHANGED <<up, scoped, registry, disk, window, delivery, served, promised>>

PostKillAgent ==
    /\ Killing
    /\ scoped' = TRUE
    /\ UNCHANGED <<up, killed, registry, disk, window, delivery, served, promised>>

\* Whatever a power cut leaves of the file, it does not show d as trusted.
Written(d) ==
    \A f \in older \union {file} : f.st = "corrupt" \/ f.devices[d] = "revoked"

\* The end of a 2GO ceremony.  The answer 503 to a revocation asked for it to
\* be repeated first; an owner who does not has given that promise up.
PostRestore ==
    /\ up /\ (killed \/ scoped)
    /\ \/ killed /\ killed' = FALSE /\ UNCHANGED scoped
       \/ ~killed /\ scoped' = FALSE /\ UNCHANGED killed
    /\ promised' = {d \in promised : Written(d)}
    /\ UNCHANGED <<up, epoch, registry, disk, window, delivery, served, crossed>>

-----------------------------------------------------------------------------
(* The gateway and the owner.                                              *)

PostRegisterVeto(w) ==
    /\ up /\ window[w] = Unborn /\ ~scoped
    /\ window' = [window EXCEPT ![w] =
         [Unborn EXCEPT !.st = "pending", !.left = WindowMs, !.epoch = epoch]]
    /\ UNCHANGED <<up, switch, registry, disk, delivery, history>>

\* Mutant: a release is reported whatever happened since.
SpentNever(x) == FALSE

Spent(x) == x.epoch /= epoch

\* The gateway's poll: what it is told once, it acts on.
GetVeto(w) ==
    /\ up /\ Known(w)
    /\ LET x == Ticked(window[w], Witnesses) IN
        /\ window' = [window EXCEPT ![w] = x]
        /\ served' = IF x.st = "released" /\ ~Spent(x) THEN served \union {w} ELSE served
    /\ UNCHANGED <<up, switch, registry, disk, delivery, crossed, promised>>

\* The ladder's poll.
GetVetoPending ==
    /\ up /\ \E w \in Windows : Known(w)
    /\ window' = [w \in Windows |-> Ticked(window[w], Witnesses)]
    /\ UNCHANGED <<up, switch, registry, disk, delivery, history>>

\* veto(): the handlers look at the status without a tick.
Vetoable(x) == Open(x)

PostVeto(w) ==
    /\ up /\ Known(w) /\ Vetoable(window[w])
    /\ window' = [window EXCEPT ![w] = Ended(@, "vetoed")]
    /\ UNCHANGED <<up, switch, registry, disk, delivery, history>>

-----------------------------------------------------------------------------
(* The owner's devices.                                                    *)

GetVetoDetail(w, d) ==
    /\ up /\ Authenticates(d) /\ Known(w)
    /\ LET x == Ticked(window[w], Witnesses) IN
        /\ window' = [window EXCEPT ![w] = x]
        /\ delivery' =
             IF Open(x) /\ ~quarantined /\ ~killed
             THEN [delivery EXCEPT ![w][d] = [revision |-> x.revision, age |-> 0]]
             ELSE delivery
    /\ UNCHANGED <<up, switch, registry, disk, history>>

\* A second confirmation of a window that has one: answered delivered: true.
ReAck(w, d) ==
    /\ up /\ Authenticates(d) /\ Known(w)
    /\ Delivered(window[w])
    /\ window' = [window EXCEPT ![w] = Ticked(@, Witnesses)]
    /\ UNCHANGED <<up, switch, registry, disk, delivery, history>>

\* Mutant: a delivery of an earlier showing is taken.
CurrentEver(x, v) == v.revision /= 0

\* The delivery is of the present showing.
Current(x, v) == v.revision = x.revision

\* Mutant: a confirmation counts until the deadline.
InTimeAlways(x) == TRUE

InTime(x) == x.left >= Floor

\* What the confirmation of a window without one is judged by.
Acceptable(x, v) == Open(x) /\ Current(x, v) /\ InTime(x)

Ack(w, d) ==
    /\ up /\ Authenticates(d) /\ Known(w)
    /\ ~Delivered(window[w]) /\ ~quarantined /\ ~killed
    /\ LET x == Ticked(window[w], Witnesses) IN
       \/ /\ Acceptable(x, delivery[w][d])
          /\ window' = [window EXCEPT ![w] =
               [x EXCEPT !.by = d, !.shown = delivery[w][d].revision]]
          /\ delivery' = [delivery EXCEPT ![w][d] = NoDelivery]
       \/ /\ ~Acceptable(x, delivery[w][d])
          /\ window' = [window EXCEPT ![w] = x]
          /\ UNCHANGED delivery
    /\ UNCHANGED <<up, switch, registry, disk, history>>

-----------------------------------------------------------------------------
(* Revocation.                                                             *)

\* revokeDeliveryEvidence(d), after d's standing has changed.
Severed(x, d) ==
    LET y == Ticked(x, Witnesses \ {d}) IN
    IF Open(y) /\ y.by = d THEN Cleared(y) ELSE y

Revoking(d) ==
    /\ up /\ Authenticates(d)
    /\ standing' = [standing EXCEPT ![d] = "revoked"]
    /\ delivery' = [w \in Windows |-> [delivery[w] EXCEPT ![d] = NoDelivery]]
    /\ window' = [w \in Windows |-> Severed(window[w], d)]
    /\ promised' = promised \union {d}
    /\ UNCHANGED <<up, enrolled, served>>

PostDeviceRevoke(d) ==
    /\ Revoking(d)
    /\ SaveDurable(enrolled, standing')
    /\ quarantined' = FALSE
    /\ UNCHANGED <<switch, crossed>>

\* 503: the lane is closed here, and a kill closes it after a restart.
PostDeviceRevokeFails(d) ==
    /\ Revoking(d) /\ Killing
    /\ SaveNotDurable(enrolled, standing')
    /\ quarantined' = TRUE
    /\ killed' = TRUE
    /\ UNCHANGED scoped

\* A revoked device is revoked again.  A write is tried only in quarantine.
PostDeviceRevokeAgain(d) ==
    /\ up /\ d \in enrolled /\ standing[d] = "revoked"
    /\ \/ /\ ~quarantined
          /\ UNCHANGED <<disk, quarantined, promised>>
       \/ /\ quarantined
          /\ SaveDurable(enrolled, standing)
          /\ quarantined' = FALSE
          /\ promised' = promised \union {d}
       \/ /\ quarantined
          /\ SaveNotDurable(enrolled, standing)
          /\ UNCHANGED <<quarantined, promised>>
    /\ UNCHANGED <<up, switch, enrolled, standing, window, delivery, served, crossed>>

-----------------------------------------------------------------------------
(* The environment.                                                        *)

\* The process dies with its windows, deliveries and quarantine.  The switch
\* comes back as it was or killed at epoch 1 (KillSwitch.tla).
Die ==
    /\ up' = FALSE
    /\ enrolled' = {} /\ standing' = NoStanding /\ quarantined' = FALSE
    /\ window' = [w \in Windows |->
         IF Known(w) THEN [Unborn EXCEPT !.st = "gone"] ELSE window[w]]
    /\ delivery' = NoDeliveries
    /\ \/ UNCHANGED switch
       \/ killed' = TRUE /\ epoch' = 1 /\ scoped' = FALSE
    /\ UNCHANGED history

Crash == up /\ Die /\ UNCHANGED disk

PowerCut ==
    /\ older /= {}
    /\ file' \in older \union {file}
    /\ older' = {}
    /\ Die

\* The file is damaged, or deleted beside its marker.
Damage ==
    /\ file.st = "ok"
    /\ file' = Corrupt
    /\ older' = older \union {file}
    /\ UNCHANGED <<up, switch, registry, window, delivery, history>>

\* A delivery ages and is gone when it expires.
Older(v) ==
    IF v.revision /= 0 /\ v.age + 1 < DeliveryTtl THEN [v EXCEPT !.age = @ + 1]
    ELSE NoDelivery

\* One unit of time nearer to the deadline.
Nearer(x) ==
    IF ~Open(x) THEN x
    ELSE [x EXCEPT !.left = IF @ > -Extension THEN @ - 1 ELSE @,
                   !.seen = IF Delivered(x) /\ x.left > 0 /\ @ < Floor THEN @ + 1 ELSE @]

Tick ==
    /\ up /\ \E w \in Windows : Known(w)
    /\ window' = [w \in Windows |-> Nearer(window[w])]
    /\ delivery' = [w \in Windows |-> [d \in Devices |-> Older(delivery[w][d])]]
    /\ UNCHANGED <<up, switch, registry, disk, history>>

-----------------------------------------------------------------------------
Boots ==
    \E E \in SUBSET Devices \ {{}} : Boot(E) \/ BootRefused(E) \/ BootCorrupt(E)

Switch == PostKill \/ PostKillAgent \/ PostRestore

Review ==
    \/ GetVetoPending
    \/ \E w \in Windows :
        \/ PostRegisterVeto(w) \/ GetVeto(w) \/ PostVeto(w)
        \/ \E d \in Devices : GetVetoDetail(w, d) \/ ReAck(w, d) \/ Ack(w, d)

Revocation ==
    \E d \in Devices :
        PostDeviceRevoke(d) \/ PostDeviceRevokeFails(d) \/ PostDeviceRevokeAgain(d)

Environment == Crash \/ PowerCut \/ Damage \/ Tick

Next == Boots \/ Switch \/ Review \/ Revocation \/ Environment

Spec == Init /\ [][Next]_vars

\* Time passes and the escalation service keeps polling, as its timer makes
\* it; no device, owner or gateway has to do anything.
Fairness == WF_vars(Tick) /\ WF_vars(GetVetoPending)

FairSpec == Spec /\ Fairness

-----------------------------------------------------------------------------
(* Properties.                                                             *)

Status == {"unborn", "pending", "extended", "released", "held", "vetoed", "gone"}

WindowType ==
    [st : Status, left : -Extension .. (WindowMs + Extension), revision : 1..2,
     epoch : 0..MaxEpoch, by : Devices \union {NoDevice}, shown : 0..2, seen : 0..Floor]

FileType == [st : {"absent", "ok", "corrupt"}, devices : Standing]

\* The types of the variables: a window is extended once at most, and no
\* delivery outlives its time.
TypeOK ==
    /\ up \in BOOLEAN /\ killed \in BOOLEAN /\ scoped \in BOOLEAN
    /\ epoch \in 0..MaxEpoch
    /\ enrolled \subseteq Devices /\ standing \in Standing /\ quarantined \in BOOLEAN
    /\ file \in FileType /\ older \subseteq FileType
    /\ window \in [Windows -> WindowType]
    /\ delivery \in [Windows -> [Devices -> [revision : 0..2, age : 0..(DeliveryTtl - 1)]]]
    /\ served \subseteq Windows /\ crossed \subseteq Windows
    /\ promised \subseteq Devices

\* Silence counts as consent only after the owner had the floor's time, up
\* to the deadline, with the alert confirmed on a device: through extensions,
\* revocations, kills and a second device's confirmation (postVetoSeen, tick).
OwnerHadTime == \A w \in Windows : window[w].st = "released" => window[w].seen >= Floor

\* A release the gateway may act on is of a world without a kill since the
\* registration, restored or not, global or scoped (getVeto's "spent").
ServedOnlyLive ==
    [][\A w \in served' \ served : ~killed /\ ~scoped /\ w \notin crossed]_vars

\* The owner's no is never given for a call the gateway was told to run.
VetoMeansNotRun == \A w \in served : window[w].st /= "vetoed"

\* What this device confirms, or has confirmed, lets silence release a call.
Trusted(d) == up /\ d \in Witnesses

\* A revocation that was written, or answered with 503 and a kill, holds
\* through crashes, power cuts, damaged files and devices that leave the
\* keys file and come back, until an owner restores without repeating it.
SeveredStaySevered == \A d \in promised : ~Trusted(d)

\* Evidence is of the showing on record: a device that fetched the window
\* before its deadline moved has not confirmed the window after it did.
EvidenceIsCurrent ==
    \A w \in Windows : Delivered(window[w]) => window[w].shown = window[w].revision

\* The shape of the state, the evidence in it and what a veto means.
Inv == TypeOK /\ EvidenceIsCurrent /\ VetoMeansNotRun

\* Every window ends: released, held, vetoed or gone with the process.
EveryWindowEnds ==
    \A w \in Windows : Open(window[w]) ~> ~Open(window[w])
=============================================================================
