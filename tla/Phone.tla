------------------------------- MODULE Phone -------------------------------
(***************************************************************************)
(* The phone becomes a device: key custody and the adopted identity        *)
(* (owner-runtime.mjs), the enrolment ceremony (enroll-ceremony.mjs,       *)
(* enroll-invite.mjs) as app.js runs it, and the push subscription that    *)
(* the escalation service takes from it (service.ts).                      *)
(*                                                                         *)
(* Several contexts of the app (pages, the service worker) share one       *)
(* IndexedDB.  Each is split where it awaits the store, the network or the *)
(* platform's prompts; a page may be closed at any point, a request that   *)
(* failed may still arrive, an answer may be lost, and a request may be    *)
(* overtaken by a later one.                                               *)
(*                                                                         *)
(* Abstracted: the control plane's reasons to refuse are in Registry.tla;  *)
(* here an invite is live or gone, and this phone is not revoked.  Of the  *)
(* registry's file the model keeps the devices that are served or will be, *)
(* and the record of a publish that is visible but unproven, which the     *)
(* next boot may serve or not find; what quarantines the registry is this  *)
(* phone's publish or a boot.  Storage is kept: a phone that lost its is   *)
(* another.                                                                *)
(***************************************************************************)
EXTENDS Naturals, Sequences, FiniteSets

CONSTANTS
    Contexts,   \* pages and the service worker
    Keys,       \* key pairs that may be generated
    Invites,    \* invites that may be pasted
    NoKey,      \* nothing stored
    NoInvite,   \* no ceremony
    MaxPushes   \* bound on push enrolments under way (model bound)

ASSUME KeyAssumption == NoKey \notin Keys /\ IsFiniteSet(Keys)
ASSUME InviteAssumption == NoInvite \notin Invites
ASSUME PhoneBoundAssumption == MaxPushes \in Nat \ {0}

VARIABLES
    disk,      \* IndexedDB: the cheap-lane pair and the enrolled identity
    ctx,       \* of each context: the key flight, the ceremony, what it told
    posts,     \* POST /devices/enroll under way
    invite,    \* the control plane's invites
    devices,   \* the registry: keys, a device id being a place in it
    unproven,  \* the key of a visible record that is not proven durable
    usable,    \* the registry serves: #state is not null
    exported,  \* devices the standing file has had, for the escalation service
    vouched,   \* and whether it vouches for them now
    prov,      \* the key the operator provisioned under the configured id
    pushes,    \* POST /push/subscription under way
    sub,       \* subscriptionEnrolledBy
    kept       \* enrolledBy in the escalation service's state file

registry == <<devices, unproven, usable>>
standing == <<exported, vouched>>
server == <<invite, registry, standing>>
push == <<pushes, sub, kept>>
phoneVars == <<disk, ctx, posts, server, prov, push>>

-----------------------------------------------------------------------------
\* The identity before enrolment: the configured deviceId.
Configured == 0

\* subscriptionEnrolledBy = null.
Nobody == Cardinality(Keys) + 1

Closed ==
    [flight |-> "none", key |-> NoKey, pc |-> "idle", inv |-> NoInvite,
     told |-> "nothing", effect |-> "none", dev |-> 0]

\* Context c moves on: its record becomes x.
Moves(c, x) == ctx' = [ctx EXCEPT ![c] = x]

\* The ceremony of x is at its next await.
At(x, pc) == [x EXCEPT !.pc = pc]

\* The ceremony of x ends, and this is what its answer claims.
Ended(x, claim) ==
    [x EXCEPT !.pc = "idle", !.inv = NoInvite, !.told = claim, !.dev = 0]

PhoneInit ==
    /\ disk = [key |-> NoKey, id |-> Configured]
    /\ ctx = [c \in Contexts |-> Closed]
    /\ posts = {}
    /\ invite = [i \in Invites |-> "live"]
    /\ devices = <<>> /\ unproven = NoKey /\ usable = TRUE
    /\ exported = 0 /\ vouched = TRUE /\ prov = NoKey
    /\ pushes = {} /\ sub = Nobody /\ kept = Nobody

-----------------------------------------------------------------------------
(* Key custody: ensureDeviceKey(), one flight in each context.             *)

EnsureReads(c) ==
    /\ ctx[c].flight = "none"
    /\ Moves(c, [ctx[c] EXCEPT !.flight = IF disk.key = NoKey THEN "absent" ELSE "stored"])
    /\ UNCHANGED <<disk, posts, server, prov, push>>

\* Mutant: the store is written with put, and the last writer wins.
PutKey(k) == [disk EXCEPT !.key = k]

\* idbAdd(): created only if absent.
AddKey(k) == IF disk.key = NoKey THEN [disk EXCEPT !.key = k] ELSE disk

EnsureAdds(c, k) ==
    /\ ctx[c].flight = "absent"
    /\ disk' = AddKey(k)
    /\ Moves(c, [ctx[c] EXCEPT !.flight = "stored"])
    /\ UNCHANGED <<posts, server, prov, push>>

\* The database is reopened; the pair is what it holds.
EnsureReadsBack(c) ==
    /\ ctx[c].flight = "stored"
    /\ Moves(c, [ctx[c] EXCEPT !.flight = "ready", !.key = disk.key])
    /\ UNCHANGED <<disk, posts, server, prov, push>>

\* The store or the probe fails; the next call tries again.
EnsureFails(c) ==
    /\ ctx[c].flight \in {"absent", "stored"}
    /\ LET x == [ctx[c] EXCEPT !.flight = "none"]
       IN Moves(c, IF x.pc = "key" THEN Ended(x, "refused") ELSE x)
    /\ UNCHANGED <<disk, posts, server, prov, push>>

-----------------------------------------------------------------------------
(* The ceremony: the click on the enrol button, up to the request.         *)

EnrollClick(c, i) ==
    /\ ctx[c].pc = "idle"
    /\ Moves(c, [ctx[c] EXCEPT !.pc = "key", !.inv = i, !.told = "nothing", !.effect = "none"])
    /\ UNCHANGED <<disk, posts, server, prov, push>>

KeyReady(c) ==
    /\ ctx[c].pc = "key" /\ ctx[c].flight = "ready"
    /\ Moves(c, At(ctx[c], "preflight"))
    /\ UNCHANGED <<disk, posts, server, prov, push>>

\* The paste does not parse.
NotAnInvite(c) ==
    /\ ctx[c].pc = "preflight"
    /\ Moves(c, Ended(ctx[c], "refused"))
    /\ UNCHANGED <<disk, posts, server, prov, push>>

\* GET /devices/enroll/contract/:id has a contract for this invite.
Contract(i) == usable /\ invite[i] = "live"

\* No contract, no answer, or an origin that is not trusted.
NotVouched(c) ==
    /\ ctx[c].pc = "preflight"
    /\ Moves(c, Ended(ctx[c], "refused"))
    /\ UNCHANGED <<disk, posts, server, prov, push>>

\* Another contract than the one pasted.
Mismatched(c) ==
    /\ ctx[c].pc = "preflight" /\ Contract(ctx[c].inv)
    /\ Moves(c, Ended(ctx[c], "kept"))
    /\ UNCHANGED <<disk, posts, server, prov, push>>

Vouched(c) ==
    /\ ctx[c].pc = "preflight" /\ Contract(ctx[c].inv)
    /\ Moves(c, At(ctx[c], "prompts"))
    /\ UNCHANGED <<disk, posts, server, prov, push>>

\* The platform creates the passkey.
Created(c) ==
    /\ ctx[c].pc = "prompts"
    /\ Moves(c, At(ctx[c], "proofs"))
    /\ UNCHANGED <<disk, posts, server, prov, push>>

\* Expired by the phone's clock, cancelled, timed out, or a key that cannot
\* prove itself.
Dismissed(c) ==
    /\ ctx[c].pc \in {"prompts", "proofs"}
    /\ Moves(c, Ended(ctx[c], "refused"))
    /\ UNCHANGED <<disk, posts, server, prov, push>>

\* Both proofs of possession are made and the request leaves.
PostEnroll(c) ==
    /\ ctx[c].pc = "proofs"
    /\ posts' = posts \union
         {[ctx |-> c, inv |-> ctx[c].inv, key |-> ctx[c].key, open |-> TRUE,
           answer |-> "none", dev |-> 0]}
    /\ Moves(c, At(ctx[c], "posted"))
    /\ UNCHANGED <<disk, server, prov, push>>

-----------------------------------------------------------------------------
(* POST /devices/enroll at the control plane.                              *)

\* The request has had this effect; the answer goes to a page that waits.
Served(p, effect, answer, d) ==
    /\ p.answer = "none"
    /\ posts' = (posts \ {p}) \union
         {x \in {[p EXCEPT !.answer = answer, !.dev = d]} : p.open}
    /\ IF p.open THEN Moves(p.ctx, [ctx[p.ctx] EXCEPT !.effect = effect]) ELSE UNCHANGED ctx

\* The invite is live and the key is new.
Admissible(p) ==
    /\ usable /\ invite[p.inv] = "live"
    /\ \A d \in DOMAIN devices : devices[d] /= p.key

Burn(p) == invite' = [invite EXCEPT ![p.inv] = "gone"]

\* Admitted; the standing file follows at once, or when it can be written.
ServeAdmitted(p) ==
    /\ Admissible(p)
    /\ Burn(p)
    /\ devices' = Append(devices, p.key)
    /\ exported' \in {exported, Len(devices')}
    /\ Served(p, "admitted", "created", Len(devices'))
    /\ UNCHANGED <<disk, unproven, usable, vouched, prov, push>>

\* "enrollment not admitted: durable registry publish UNPROVEN": the record is
\* in the file, memory serves nothing, and the answer is a refusal.
ServeUnproven(p) ==
    /\ Admissible(p)
    /\ Burn(p)
    /\ unproven' = p.key /\ usable' = FALSE
    /\ Served(p, "unproven", "refused", 0)
    /\ UNCHANGED <<disk, devices, standing, prov, push>>

\* Refused before the burn, by a ceiling or an unusable registry with no look
\* at the invite: "inviteSurvives".
ServeKept(p) ==
    /\ Served(p, "none", "kept", 0)
    /\ UNCHANGED <<disk, server, prov, push>>

\* Burned by this request, a known key's and a failed publish's among them, or
\* gone before it.
ServeGone(p) ==
    /\ usable
    /\ Burn(p)
    /\ Served(p, IF invite[p.inv] = "live" THEN "burned" ELSE "none", "refused", 0)
    /\ UNCHANGED <<disk, registry, standing, prov, push>>

\* "enrolled-device registry is not usable", and no word on the invite.
ServeUnusable(p) ==
    /\ ~usable
    /\ Served(p, "none", "refused", 0)
    /\ UNCHANGED <<disk, server, prov, push>>

Expire(i) ==
    /\ invite[i] = "live"
    /\ invite' = [invite EXCEPT ![i] = "gone"]
    /\ UNCHANGED <<disk, ctx, posts, registry, standing, prov, push>>

\* persistStanding(), for another phone's sake: what the registry serves, and
\* nothing while it serves nothing.
Export ==
    /\ vouched' = usable
    /\ exported' = IF usable THEN Len(devices) ELSE exported
    /\ UNCHANGED <<disk, ctx, posts, invite, registry, prov, push>>

\* The control plane starts anew: no invite is left, and the standing file is
\* written.  An unproven record may have gone with the power; what the file
\* holds is served if it can be proven now.
ControlPlaneRestart ==
    /\ invite' = [i \in Invites |-> "gone"]
    /\ \E found \in {unproven, NoKey}, proven \in BOOLEAN :
        /\ devices' = IF proven /\ found /= NoKey THEN Append(devices, found) ELSE devices
        /\ unproven' = IF proven THEN NoKey ELSE found
        /\ usable' = proven /\ vouched' = proven
        /\ exported' = IF proven THEN Len(devices') ELSE exported
    /\ UNCHANGED <<disk, ctx, posts, prov, push>>

\* The operator writes the phone's key into the keys file.
Provision(k) ==
    /\ prov = NoKey /\ k = disk.key /\ k \in Keys
    /\ \A d \in DOMAIN devices : devices[d] /= k
    /\ prov' = k
    /\ UNCHANGED <<disk, ctx, posts, server, push>>

-----------------------------------------------------------------------------
(* The answer, as the page tells it.                                       *)

\* What became of a request whose page has gone, or waits no more: it may
\* still arrive.
Abandoned(P) == {[p EXCEPT !.open = FALSE] : p \in {x \in P : x.answer = "none"}}

\* Mutant: a transport failure is told as a refusal.
LostAnswerRefused == "refused"

\* "the OUTCOME IS UNKNOWN"
LostAnswer == "nothing"

\* The connection fails; the request may have arrived, and may still arrive.
PostFails(p) ==
    /\ p.open
    /\ posts' = (posts \ {p}) \union Abandoned({p})
    /\ Moves(p.ctx, Ended(ctx[p.ctx], LostAnswer))
    /\ UNCHANGED <<disk, server, prov, push>>

\* It does not arrive.
PostForgotten(p) ==
    /\ ~p.open
    /\ posts' = posts \ {p}
    /\ UNCHANGED <<disk, ctx, server, prov, push>>

EnrollRefused(p) ==
    /\ p.open /\ p.answer \in {"kept", "refused"}
    /\ posts' = posts \ {p}
    /\ Moves(p.ctx, Ended(ctx[p.ctx], p.answer))
    /\ UNCHANGED <<disk, server, prov, push>>

EnrollCreated(p) ==
    /\ p.open /\ p.answer = "created"
    /\ posts' = posts \ {p}
    /\ Moves(p.ctx, [ctx[p.ctx] EXCEPT !.pc = "adopt", !.dev = p.dev])
    /\ UNCHANGED <<disk, server, prov, push>>

\* adoptEnrolledIdentity(): written and read back, before success is told.
Adopt(c) ==
    /\ ctx[c].pc = "adopt"
    /\ disk' = [disk EXCEPT !.id = ctx[c].dev]
    /\ Moves(c, Ended(ctx[c], "enrolled"))
    /\ UNCHANGED <<posts, server, prov, push>>

\* "enrolled on the SERVER, but this phone could not persist the identity"
AdoptFails(c) ==
    /\ ctx[c].pc = "adopt"
    /\ Moves(c, Ended(ctx[c], "server only"))
    /\ UNCHANGED <<disk, posts, server, prov, push>>

-----------------------------------------------------------------------------
(* subscribeAndEnroll(), on every open and after an enrolment.             *)

\* signedFetch(): the id is read from the store when the request is signed.
Signed(c) == [id |-> disk.id, key |-> ctx[c].key]

SubscribeAndEnroll(c) ==
    /\ ctx[c].flight = "ready" /\ Cardinality(pushes) < MaxPushes
    /\ pushes' = pushes \union {Signed(c)}
    /\ UNCHANGED <<disk, ctx, posts, server, prov, sub, kept>>

\* The escalation service's view: the standing file severs the configured id
\* once it named a device with the same key.
GoodStanding(id) ==
    CASE id = Configured -> \A d \in 1 .. exported : devices[d] /= prov
      [] OTHER -> vouched /\ id \in 1 .. exported

KeyOf(id) == IF id = Configured THEN prov ELSE devices[id]

\* verifyOwnerDeviceSignature() against the key of the name that is claimed.
Verifies(q) == q.key = KeyOf(q.id)

\* Mutant: the signature is enough.
EnrollablePush(q) == Verifies(q)

\* Some device may sign at all, provisioned or exported with its key.
LaneWired == prov /= NoKey \/ exported > 0

\* The signature verifies, and the control plane still trusts the device.
Enrollable(q) == LaneWired /\ Verifies(q) /\ GoodStanding(q.id)

\* activeSubscription() is not null.
Reachable == sub /= Nobody /\ GoodStanding(sub)

\* persistSubscription(), after memory: an atomic replace, or nothing and a 500.
Persist(id) == kept' = id \/ UNCHANGED kept

PushServed(q) ==
    /\ pushes' = pushes \ {q}
    /\ IF Enrollable(q) THEN sub' = q.id /\ Persist(q.id) ELSE UNCHANGED <<sub, kept>>
    /\ UNCHANGED <<disk, ctx, posts, server, prov>>

PushLost(q) ==
    /\ pushes' = pushes \ {q}
    /\ UNCHANGED <<disk, ctx, posts, server, prov, sub, kept>>

\* The escalation service starts anew: loadSubscription().
EscalationRestart ==
    /\ sub' = kept
    /\ UNCHANGED <<disk, ctx, posts, server, prov, pushes, kept>>

-----------------------------------------------------------------------------
\* The page is closed or reloaded, in the middle of anything.
Close(c) ==
    /\ ctx[c] /= Closed
    /\ ctx' = [ctx EXCEPT ![c] = Closed]
    /\ posts' = LET mine == {p \in posts : p.open /\ p.ctx = c}
                IN (posts \ mine) \union Abandoned(mine)
    /\ UNCHANGED <<disk, server, prov, push>>

-----------------------------------------------------------------------------
Custody ==
    \E c \in Contexts :
        \/ EnsureReads(c) \/ EnsureReadsBack(c) \/ EnsureFails(c)
        \/ \E k \in Keys : EnsureAdds(c, k)

Ceremony ==
    \E c \in Contexts :
        \/ \E i \in Invites : EnrollClick(c, i)
        \/ KeyReady(c) \/ NotAnInvite(c) \/ NotVouched(c) \/ Mismatched(c)
        \/ Vouched(c) \/ Created(c) \/ Dismissed(c) \/ PostEnroll(c)
        \/ Adopt(c) \/ AdoptFails(c)

Requests ==
    \E p \in posts :
        \/ ServeAdmitted(p) \/ ServeUnproven(p) \/ ServeKept(p) \/ ServeGone(p)
        \/ ServeUnusable(p)
        \/ PostFails(p) \/ PostForgotten(p) \/ EnrollRefused(p) \/ EnrollCreated(p)

Pushing ==
    \/ \E c \in Contexts : SubscribeAndEnroll(c)
    \/ \E q \in pushes : PushServed(q) \/ PushLost(q)
    \/ EscalationRestart

Environment ==
    \/ \E i \in Invites : Expire(i)
    \/ \E k \in Keys : Provision(k)
    \/ Export \/ ControlPlaneRestart
    \/ \E c \in Contexts : Close(c)

PhoneNext == Custody \/ Ceremony \/ Requests \/ Pushing \/ Environment

PhoneSpec == PhoneInit /\ [][PhoneNext]_phoneVars

-----------------------------------------------------------------------------
(* Properties.                                                             *)

DeviceIds == 1 .. Cardinality(Keys)

Told == {"nothing", "refused", "kept", "enrolled", "server only"}

\* The types of the variables.
PhoneTypeOK ==
    /\ disk \in [key : Keys \union {NoKey}, id : {Configured} \union DeviceIds]
    /\ ctx \in [Contexts ->
         [flight : {"none", "absent", "stored", "ready"}, key : Keys \union {NoKey},
          pc : {"idle", "key", "preflight", "prompts", "proofs", "posted", "adopt"},
          inv : Invites \union {NoInvite}, told : Told,
          effect : {"none", "burned", "unproven", "admitted"}, dev : {0} \union DeviceIds]]
    /\ posts \subseteq
         [ctx : Contexts, inv : Invites, key : Keys, open : BOOLEAN,
          answer : {"none", "created", "kept", "refused"}, dev : {0} \union DeviceIds]
    /\ invite \in [Invites -> {"live", "gone"}]
    /\ devices \in UNION {[1 .. n -> Keys] : n \in {0} \union DeviceIds}
    /\ unproven \in Keys \union {NoKey} /\ usable \in BOOLEAN
    /\ exported \in 0 .. Len(devices) /\ vouched \in BOOLEAN
    /\ prov \in Keys \union {NoKey}
    /\ pushes \subseteq [id : {Configured} \union DeviceIds, key : Keys]
    /\ {sub, kept} \subseteq {Configured, Nobody} \union DeviceIds

\* The identity a phone signs under is the registry's name for the key it
\* signs with: over first runs that race in two contexts, reloads between any
\* two steps and lost answers (ensureDeviceKey, adoptEnrolledIdentity).
IdentityNamesKey == disk.id /= Configured => devices[disk.id] = disk.key

\* The shape of the state, and whose signature the phone makes.
PhoneInv == PhoneTypeOK /\ IdentityNamesKey

\* What the owner is told is what happened: a refusal admitted nothing, an
\* invite said to survive was not spent by this ceremony, and success is told
\* of a device that the store can sign for.  What cannot be known is not told
\* (completeEnrollmentCeremony, the click handler), with one exception: the
\* control plane calls a publish it could not prove `not admitted', and its
\* next boot may serve that record.
AnswerIsTrue ==
    \A c \in Contexts :
        LET x == ctx[c] IN
        /\ x.told = "refused" => x.effect \in {"none", "burned", "unproven"}
        /\ x.told = "kept" => x.effect = "none"
        /\ x.told = "enrolled" =>
             /\ x.effect = "admitted"
             /\ disk.id /= Configured /\ devices[disk.id] = x.key
        /\ x.told = "server only" => x.effect = "admitted"

\* Alerts that reach the phone under its enrolled name, as the state file has
\* it, are not taken away by an older request under the name it had before, by
\* a write that fails or by a restart, as long as the standing file vouches
\* for the phone (routeWebhook, persistSubscription).
PushStaysBound ==
    [][(kept \in 1 .. exported) /\ vouched' => Reachable']_phoneVars
=============================================================================
