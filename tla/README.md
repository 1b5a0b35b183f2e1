# OwnerSwitch in TLA+

OwnerSwitch puts an owner's kill switch, veto and approval between an AI agent
and the tools it calls. This directory holds TLA+ models of its control plane,
its gateway and merge broker, its registry of devices, the apps and boxes at its
edge, the TLC configurations that check them on small instances, and TLAPS
proofs. Line numbers of the code each definition stands for are in
`PROJECT.json` (`map`).

    tlc -workers 2 -config KillSwitch.cfg MCKillSwitch    # and so on
    tlapm KillSwitchProofs.tla                            # and the other *Proofs

## 1. The system

| part | state it keeps | operations | hard behaviour |
|---|---|---|---|
| kill switch (`control-plane/src/kill.ts`, `kill-state.ts`) | killed, epoch, scoped kills, consumed ceremonies, degraded and quarantine flags; a state file and a marker | engage, engageAgent, restore, restoreAgent, persist, boot | crash or power cut between any two file calls, failed saves, damaged files, a full map |
| restore lane and passkey login (`twogo.ts`, `auth.ts`, `server.ts`) | login challenges, sessions, ceremonies, restore challenges | log in, start, challenge, confirm, purge | a kill while a request drains its body, stale ceremonies, a session holder who is not the owner, a flood of challenges |
| approval and grants (`server.ts`, `veto.ts`) | purposed windows, approvals, approval challenges, minted and committed grants | register, challenge, approve, veto, mint, signed kill state, commit | commit against veto, kills across an approval |
| merge broker (`executor/src/merge-broker.ts`, `burn-store.ts`, `github-client.ts`, `signed-kill-state.ts`, `broker-client.ts`) | burn records, requests in progress | pin, present, burn, probe, commit, PUT, verify, record, prune | two brokers, lost replies, timeouts of a request that goes on, power cuts, a pull request that moves |
| veto windows (`veto.ts`, `server.ts`) | status, deadline, revision, evidence, deliveries | register, show, confirm, tick, veto, poll | evidence older than the showing, of a revoked device, or of a world before a kill |
| device standing (`device-standing.ts`, `server.ts`) | standing of each device, history of unenrolled ones, quarantine; a file and a marker | boot, revoke, export | a revocation that cannot be written, unreadable files, devices that come back |
| device registry, invites (`enrolled-devices.ts`, `invite.ts`, `webauthn*.ts`) | registry file and marker, pending invites | mint, enrol, revoke, publish, quarantine, reconcile | a stop between two publishes, a publish that is visible and not durable, one key under two names, authority that ends while an invite is out |
| gateway and limits (`gateway/src`) | totals per limit rule, the latch of a tripped limit | fetchKillState, evaluate, observe, observeKillState, confirmKillDelivered | `/status` answers out of order, epochs, concurrent calls |
| MCP proxy (`mcp/src/proxy.ts`) and executor (`executor/src/executor.ts`) | map of review windows, calls in progress, burned tickets | decide, review, forward, report, run a ticket | state read before an await and used after it, shared windows, a kill between the two looks |
| escalation (`escalation/src`) | ladder, ceilings, tracked windows, relays to retry, push subscription and its file | tick, poll, send, webhook, relay, subscribe | a webhook or a second poll between two awaits of a tick, lost relays, restarts, ceilings over different horizons |
| button (`hardware/pico/code.py`, `button/src`) | debounced contacts, line buffer, press sequence, fault report | open, close, read a line, attempt, re-assert | a cable that breaks inside a line, superseded sequences, a control plane that is restored meanwhile |
| honeytokens (`honeytoken/src`) | armed baselines, two lanes of trips | arm, inspect, report, flush | a touch between two system calls of arming, a kill behind failing alerts, shutdown |
| owner app (`apps/owner/public`) | what is painted, the shared button, reviews; key and identity in IndexedDB | review, confirm, veto, enrol, adopt, subscribe | navigation between two awaits, late answers, a module that does not load, two pages with one store, a lost 201 or one that was never sent |
| license, MCP command line, GitHub credentials, restricted runtime, workspace app | no protocol state | | |

The gateway asks the control plane before every call (kill state, limits), lets
the call run, refuses it, or registers a veto window and polls it. The owner's
devices fetch a window, confirm that it was shown, veto or approve it; the
escalation service polls open windows and calls the owner. An approved merge
becomes a signed grant that a broker, which alone holds GitHub credentials,
checks against the control plane twice and then dispatches. Button, honeytokens
and tripped limits post kills. A kill, from anyone, stops all of it and moves an
epoch; only a 2GO ceremony of the owner undoes it. The registry says which phones
may vouch for a showing; the standing file carries that to the escalation service.

What makes it correct, by part: a kill that was answered is never lost without
notice; a restore takes the owner and a cooldown after the latest kill, and
nobody can keep the owner from it; an approval merges once, what was reviewed,
not after a veto or a kill, and what is reported about it is true; silence
releases a call only if the owner saw it in time on a device trusted at the
deadline; an enrolment and a revocation that were answered are for ever; no
budget is overspent, and a stopped agent runs nothing; a press, a touch and an
owner's stop reach the control plane; a screen says nothing that is not so.

## 2. The modules

Every module models handlers as atomic from their last `await` on: each process
runs one event loop, and file calls are synchronous. A handler that decides
before an `await` and acts after is two actions. Time is relative: ages or times
left, advanced together by `Tick` and capped where nothing can tell further
values apart.

**KillSwitch.** `kill.ts` and `kill-state.ts`. A transition changes memory, then
`persist()` runs as one action per file-system effect (`pc`), so that `Crash` and
`PowerCut` hit every gap. `disk` is what a restarted process reads; `cut` is what
a power cut may leave, state file and marker independently, since the last
directory fsync. `Rot` and `Vanish` damage the file. History variables: `acked`,
the last state a transition answered with; `excused`, the code had reported
(`quarantineFailed` before a crash, `persistenceDegraded` before a power cut)
that it might not hold. Reasons, timestamps and the audit log are left out.

**Switch.** The abstract specification: what the kill switch promises, with no
file, marker or epoch in it. What was answered as denied stays denied until an
owner releases it, or the switch has warned. KillSwitch implements it under the
refinement mapping `Promise` at its end; `KeepsPromise` is checked as a property
and is what the other modules assume of the switch.

**RestoreLane.** `twogo.ts`, the passkey login and the handlers of `server.ts`
around them. Requests come from whoever holds a session; a login and a
confirmation need an assertion of the owner's authenticator over the challenge on
record (`Asserted`). `ChallengeBegin`/`ChallengeEnd` are the two halves of a
request that drains its body. `logins` is the map of login challenges, which all
callers share and which is full at `MaxLogins`. `Shown` is what the read of a
ceremony answers. After `Restart` the switch comes back as it was or killed at
epoch 1, which is what KillSwitch allows. A license is in order or not.

**MergeLane.** The approval, grant and commit handlers, the broker, its burn
store, GitHub, and what the gateway concludes. `pc[r]` follows one broker
connection from `await` to `await`; connections may belong to different broker
processes that share a burn directory. Commit request and reply are messages that
may be late or lost. `target` says how the pull request compares with what was
pinned. A grant-eligible window mints at most one grant, so a window names its
grant. "open" covers pending, extended, released and held of a purposed window:
its handlers do not tell them apart. Signatures, arguments, the allow-list and
token minting are abstracted to succeed or fail; the development lane without a
passkey is left out.

**VetoLane.** The ordinary window of `veto.ts`, its handlers, and device standing
with its file. `Ticked` is `tick()`; every handler that ticks applies it. `older`
holds file contents a power cut may bring back. A device is revoked once and for
ever, so its generation carries no more than its standing. Of the deliveries of
one device for one window only the newest is kept; an older one is never accepted
where the newest is not. A restore after a revocation that was answered 503 gives
that promise up, since the answer asks for the revocation to be repeated first.

**Gateway.** `proxy.ts` with `engine.ts`, `client.ts`, `limits.ts`,
`veto-client.ts`, `executor.ts`, the limit wiring of `cli.ts`, and the kill lane
of `honeytoken/src/report.ts` with the tripwire on calls. `pc[c]` is the await at
which the handler of call `c` is; `answer[c]`, `waits[c]`, `poll[c]` and `live[c]`
are what it carries across. A `GET` is answered in one step and its answer used in
a later one, so answers are as old and as out of order as they like. `latch`,
`generations` and `total` are the tracker's; `report` and `attempt` are the head
of the kill lane and its request, `late` a request that was given up and may still
arrive. The control plane is the state those requests touch: memory (`cp`), the
file a restart reads (`disk`) and the review windows, which no restart keeps. All
calls of the veto lane are the same tool with the same arguments, so one entry of
`windows` stands for the map. Left out: alert rules, sliding windows with
saturation and the clamp of totals, gateway restarts.

**Registry.** `enrolled-devices.ts`, `invite.ts` and the handlers that mint, enrol
and revoke. `vis` and `dur` are the registry's directory as it is seen and after a
power cut; `sfile` and `solder` the same of the standing file. A publish is
durable, unproven or failed; `Served` is what memory does about it. Of a
submission the model keeps for which invite each part was made, judged in the
order of the code (`WellFormed` to `HoldsSecret`); `Witness` is what an invite is
held against. Boot has two steps, the registry and then the standing, since the
server may die between them.

**Escalation.** `service.ts`, `ladder.ts` and the callbacks of
`channels/twilio.ts`. A job is a call of `tickOnce()` or of the webhook between
two of its awaits (`listed`, `retry`, `act`); several calls of `tickOnce()` overlap,
since the timer that starts them waits for none and the request has no timeout. The
engine's memory (`run`, `ledger`) is shared by all. `misled` remembers the windows that
a listing left out though they were open, as an older one applied after a newer does,
until they end. A send is in `log` from its admission; awaiting it is no step, since its
outcome is only logged and no other job waits for it. The timestamps that the ledger
remembers are kept as the positions in `log` of the sends they are of. `Callbacks` are
the forms a provider may post, `Events` what the two channels make of them. Relays are answered, lost in either
direction, or refused.

**Phone.** Key custody, the enrolment ceremony, the adopted identity and the push
subscription: several pages over one IndexedDB, each split where it awaits the
store, the network or a prompt, and closed at any point. The server half is `invite`,
the registry (`devices`, `usable`, and `unproven`, the record of a publish that is
visible and not proven durable) and the standing file (`exported`, and `vouched`:
whether it vouches for what it had). `ServeUnproven` answers a refusal and leaves the
record; `ControlPlaneRestart` finds it or not, and serves it if it can prove it now.
The escalation service's half is `sub` in memory and `kept` in its file, which a failed
write leaves behind and a restart reads.

**OwnerApp.** The review page. Each promise chain of `routeAlert` is a record in
`reviews` that stands at one of its awaits, the first of them the page's one import of
`owner-runtime.mjs` (`runtime`), which stays rejected once it was; `hash` changes at once and the event
comes later; `painted` and `button` are the nodes all reviews share.

**Button.** The firmware loop, the two fragments of a line, the daemon's sequence
with its generation, and the fault reporter. `request` is that of the present
sequence, `stale` those of earlier ones, still on the wire.

**Honeytoken.** Arming as the row of system calls it is, inspection, `report()`,
the two drains, and the flush at shutdown. A drain that ends leaves its lane idle in
one step: `report.ts:262` clears its promise in a microtask of the same callback, and
no `report()` is called from a microtask.

**KillSwitchProofs**, **RestoreLaneProofs**, **MergeLaneProofs**, **VetoLaneProofs**,
**GatewayProofs** and **RegistryProofs** hold the theorems about the module they are
named after (section 4), **AppProofs** those about OwnerApp and Phone, **EdgeProofs**
those about Escalation, Button and Honeytoken. A proof module that extends more than
one of the others needs their names apart, which is why Phone, Button and Honeytoken
call their specification `PhoneSpec`, their invariant `ButtonInv` and so on. Each `MC`
module gives one of the modules its instance.

How they fit together: RestoreLane, MergeLane, VetoLane, Registry and Gateway see
the kill switch as its answer (killed, epoch, scoped kills) and restate it as far
as their handlers see it; what they assume of it over a restart is Switch.
MergeLane composes control plane, broker and GitHub; Gateway composes proxy,
executor, tracker, reporter and control plane; Phone composes app, control plane
and escalation service; Registry composes registry, standing file and alias
severing, whose effect on windows is in VetoLane; OwnerApp's control plane answers
at will where VetoLane has the rules.

## 3. The runs

| run | states | what it shows |
|---|---|---|
| KillSwitch | 413 000 | after any crash a restarted process denies what the running one denied or the failure was reported (`RestartKeepsDenial`); an answered kill holds until a restore (`KillSticks`); no state file outgrows what boot accepts (`CapacityHolds`); the promise of Switch is kept (`KeepsPromise`) |
| RestoreLane | 125 000 | a challenge on record is of the present kill, one live ceremony per owner and scope, "ready" is shown of nothing that a confirmation would refuse for its time or kill (`Inv`); nothing is freed within a cooldown of the latest kill (`CooldownAfterEveryKill`); an owner who keeps trying ends a kill (`RestoreEventually`) |
| MergeLane | 1 651 000 | one PUT per approval (`OnePutPerGrant`); none after a veto or a kill (`RevokedMeansUnsent`); what lands is what was reviewed (`MergesWhatWasReviewed`); answers and records are true (`ReportsAreTrue`); no approval ceremony in a killed world (`Inv`) |
| VetoLane | 247 000 | a release had the floor's time before the deadline (`OwnerHadTime`), on evidence of the current showing and not after a veto (`Inv`); no release is served across a kill (`ServedOnlyLive`); a revocation holds (`SeveredStaySevered`); every window ends (`EveryWindowEnds`) |
| GatewayLimits | 2 440 000 | a tripped budget is armed again only by a restore after its own kill (`OneRestorePerTrip`); no budget is overspent by concurrent calls (`NoOverspend`); a call made under a stop does not run while it lasts (`StoppedAgentRunsNothing`) |
| GatewayReview | 3 330 000 | a window that let a call run is not polled for a new one, and no ticket survives a kill between its two looks (`Inv`) |
| Registry | 1 830 000 | an enrolment answered 201 is never undone (`EnrolmentIsForever`), a revocation neither, in the registry and in the file others read (`RevocationHolds`); a key is one identity (`OneKeyOneIdentity`); a device is admitted only on authority that is live then (`AdmittedOnLiveAuthority`) |
| Escalation | 492 000 | ceilings hold over every horizon and from one day into the next (`CeilingsHold`); the engine knows what the polls track, so that a stop reaches every open window, and an accepted stop is being relayed or queued until its window ends (`Inv`) |
| Phone | 1 281 000 | the identity signed under is the registry's name for the key (`PhoneInv`); what the owner is told happened (`AnswerIsTrue`); alerts saved under the enrolled name stay there (`PushStaysBound`) |
| OwnerApp | 3 989 000 | a confirmation leaves only for what was in view (`ConfirmedWasSeen`); the button never says STOPPED of, or stays dead for, the window it stands beside (`Inv`) |
| Button | 111 000 | nothing but a press kills, and a press that was accepted is posted or waits to be (`ButtonInv`); a press is confirmed in the end (`PressIsConfirmed`); a contact that stays open wins over restores (`LatchedWins`) |
| Honeytoken | 205 000 | nothing pending is forgotten and arming does not trip its own wire (`HoneytokenInv`); a touch of an armed decoy trips (`TouchTrips`); a kill is delivered whatever becomes of the alerts (`KillIsDelivered`) |

Where a property is only meant in part, it says so: `OneRestorePerTrip` excludes
histories with a boot from untrusted state (epochs start over, and an older
`/status` answer then passes for the owner's restore); `OnePutPerGrant` and
`ReportsAreTrue` exclude a record written over an unreadable one;
`MergesWhatWasReviewed` excludes a pull request that is retargeted between the
broker's read of its base and the PUT (executor `DESIGN.md:421` documents that
race); `ReadyRestores` speaks of control planes with a passkey; `AnswerIsTrue`
assumes that what answers is the control plane, and excepts the refusal of a publish
that was not proven; Escalation's `Inv` excepts the windows in `misled`; OwnerApp's a
page whose import of the runtime was rejected (`NeverBegan`); `PushStaysBound` holds as
long as the standing file vouches for the phone. The four cases excepted last are
reached in the runs, and are described under Observations.

### Observations

None of these has a run of its own.

* A boot from untrusted state starts the epoch at 1 and forgets scoped kills, so
  that the global restore frees those agents too (`kill.ts:147`);
  `persistenceDegraded` is lost by a restart while the directory is not synced
  (`kill.ts:150`).
* Two calls that poll one released window at the same time both run, against
  "authorizes exactly one run" (`proxy.ts:752`, `:762`). An answer to the kill whose
  epoch is below the latch's floor leaves the queue and does not confirm the latch,
  and nothing retries (`limits.ts:334`): fail closed until the gateway restarts.
* A grant stays committed after the broker gave it up, so that a veto is refused as
  too late (`server.ts:2049`). An outcome recorded over an unreadable record has no
  expiry and is pruned at the next start (`burn-store.ts:305`). A cached
  installation token is not dropped on a 401.
* After a boot that could not read the standing file a revocation is answered 200
  without a write (`server.ts:2517`), and a later export overwrites the history of
  devices no longer enrolled, which that boot did not load (`server.ts:914`); Registry
  runs with `StandingFaults = FALSE` for these reasons. A revocation changes the device before it ticks the windows, so
  that a release that was due is taken back (`server.ts:2520`). A second
  confirmation is answered `delivered: true` by the call whose tick clears the
  evidence (`server.ts:2373`).
* With two owners, which only a control plane without a passkey has, a ceremony is
  shown ready after the other owner's restored. Challenges of purged ceremonies
  stay in their map until a kill, harmlessly.
* The sweep of invites at a kill (`invite.ts:438`) is called by nobody; dead invites
  count against the cap until they expire. A dev_ device is dropped from the
  standing export, without a tombstone, when the registry is quarantined later
  (`server.ts:844`). An owner's handle is published even when the mint is then refused.
* An enrolment whose publish is visible but unproven is answered "not admitted"
  (`enrolled-devices.ts:1284`), and the next boot serves the record if it finds it:
  against "a refusal creates NO server-side authority, ever" (`enroll-ceremony.mjs:16`).
  Phone and Registry both reach it. Meanwhile, and after any boot that cannot prove the
  registry, the standing file vouches for no enrolled phone, and alerts stop: fail closed.
* A lost 201, or a store that fails before the identity is adopted, leaves a phone
  that can never enrol: its key is taken and nothing deletes it.
* "Stopped. Nothing will run." is spoken whatever became of the relays, and waits
  for the sends of the same tick (`service.ts:535`); a relay answered 5xx is
  dropped; ceilings start over at a restart; a window that joins a run whose rungs
  have all fired gets no alert.
* The timer of the escalation service does not wait for the tick before
  (`cli.ts:56`) and its requests have no timeout (`service.ts:301`), so that polls
  overlap and an older listing may be applied after a newer one. It closes in the run
  every tracked window that it leaves out. An accepted stop that waits to be relayed
  again is then dropped though its window is open, against "will retry while the window
  stays open" (`service.ts:350`). The next poll tracks the window again, but a run that is
  still alive does not reopen it (`windowOpened`, `ladder.ts:106`, while a poll awaits its
  retries), and then neither the ladder nor a stop covers it until it ends or the service
  restarts, against "window ids the engine currently knows" (`service.ts:355`). Without
  the exception for `misled`, TLC finds `StopCoversTracked` and `StopIsNotForgotten`
  violated.
* `app.js:246` has no catch on the import of `owner-runtime.mjs`, and `app.js:98` keeps
  the rejected promise: the page then shows a disabled VETO and no message, on every
  return, until it is loaded anew. The catch at `app.js:315` is that of the fetch. It
  cannot befall a page that has shown a window, since all reviews share the one import.
* After an extension the owner app does not fetch the window again while the page
  stays in front, although a 409 is said to mean "re-ack" (`owner-runtime.mjs:326`).
* The fault reporter of the button may give up on a fault it says it reports
  (`alert.ts:121`). While the contact is open and an answer takes longer than the
  re-assert, every re-assert supersedes the sequence, and neither a confirmation nor
  "NOT LANDED" is logged although the posts land.
* A flush gives up on the trips queued behind one that has used its attempts; a
  touch between the stat and the utimes of arming goes unseen.

### Bounds

KillSwitch: two valid agent ids and one invalid, capacity one, so that both kinds
of escalation happen; two epochs, so that a kill can follow a restore; at most
three unsynced versions of the state file (`FewVersions`), the last durable one,
its replacement and its removal. RestoreLane: one owner where there is a passkey
and two where there is none, one agent, two ceremony ids for one place
in the map, one login challenge, so that both are contended; two kills, one restart; cooldown 2, ceremonies 4, challenges
and logins 1 tick, so that a challenge expires while its ceremony lives and a
ceremony can be started over inside a cooldown. MergeLane: one window presented
twice, one kill, grant and retention one tick each. VetoLane: one window of 2 ticks
extended by 3, floor 2, deliveries 2, two devices, two kills. GatewayLimits: two
calls made again and again, a budget of one unit and one of no failure, two epochs,
one failed save or untrusted boot; GatewayReview: two calls, one of them also a
decoy, two windows, two epochs, no fault. Two calls are what the races need, one
that reads and one that changes what was read; two epochs are the kill of a trip
and another kill. Registry: two phones, two devices ever, two mints, one owner, one
kill, no file or a v1 file at first. Escalation: two windows, two polls and one webhook, so
that a listing can be applied late and a stop fall between; a rung over an unconfigured
channel; one call in two units, one message in one, and a day of one unit that pays for
two of them or for one push: each ceiling refuses a send that the others would let
through, and a ladder and the horizon of calls cross from one day into the next;
restarts at any time. Phone: two pages, two keys, two invites,
two push requests, restarts at any time. OwnerApp: two windows, two reviews, two vetoes and one
confirmation under way. Button: every period one unit, one broken cable, one stale
request. Honeytoken: one decoy, three trips, one of them a kill, two attempts at the flush: that
a kill is delivered from behind another kill that fails is not checked (`HoneytokenSafe`
keeps each queued, for any number of them).

Symmetry is used for agents, requests, devices, calls that are alike, windows,
pages, keys and invites, never in a run with a liveness property. Epochs, restarts,
mints and requests under way are the only unbounded counters; their bounds are
constants named in each module. Honeytoken alone may stop: its process exits.

### Fairness

RestoreLane: time passes and the server finishes a request it began (weak). The
owner keeps trying: strong fairness of its own steps, and a session that from some
point on does not expire at the wrong moment for ever. That is an assumption about a
person, and what it buys is the statement: nobody else, not another holder of the
session and not a flood of login challenges, can keep the owner out. Kills end
because `MaxEpoch` bounds them; an endless stream of kills keeps the system killed
by design. VetoLane: time and the escalation service's poll, which its command line
runs on `setInterval`; no device, gateway or owner is assumed to act. Button: the
firmware's loop, the host's reading and reconnecting and the daemon's attempts are
weakly fair, since each is a loop or a timer; a request that is made again and again
lands, and is answered, again and again (strong), without which no retry helps.
Honeytoken: inspection, posts, timers and the exit are weakly fair; a kill that is
posted without end lands in the end (strong).

## 4. The proofs

Eight modules hold the theorems. Every safety invariant and every action property
that the runs check is proved, for every set of agents, devices, windows, calls, keys, pages and requests, for every length of time
and every bound. Bounds are hypotheses of no theorem: they are constants, and the
proofs use of them only that they are natural numbers.

Each proof has the shape `Init => I`, `I /\ [Next]_vars => I'`, `I => P` for an
inductive invariant `I` that the module defines at its beginning from named parts.
TLC checked each `I` on the component's instance before it was proved. One lemma per
group of actions shows that it is kept; lemmas before them say what the operators of
the model return and which parts a step cannot touch.

**KillSwitchProofs.** `TypeCorrect`, `RestartSafe` (`RestartKeepsDenial`), `KillsStick`
(`KillSticks`), `CapacityKept` (`CapacityHolds`), and `PromiseKept`: KillSwitch
implements Switch, a step at a time, under the mapping `Promise`. `KillSticks` speaks
of idle states only and is not inductive: between two of them a save is half done.
The invariant says, for every `pc`, what each content that a restart or a power cut
could bring back still denies: in `save` the files are those of the state before,
from `rename` to `fsync` old or new, from `degrade` on whatever the marker and the
removal leave, and it ties `durable` to the contents a power cut may choose from.

**RestoreLaneProofs.** `CooldownKept` (`CooldownAfterEveryKill`) and `CeremoniesSound`
(`Inv`). The handler compares the ceremony's age with the cooldown, and its epoch
with the switch's; the property speaks of the latest kill of any kind. `CooldownInv`
is the bridge: a ceremony on record of this epoch is no older than this epoch's kill.
`OneInv` and `OwnerInv` say which ceremonies can be alive together.

**MergeLaneProofs.** `OnePut`, `NoPutWithoutAuthority`, `ReportsTrue`, `MergesReviewed`,
`CeremoniesEndWithKill`. Control plane, broker and GitHub meet in messages only, so
the invariant says what each message may claim: a commit's yes claims the grant for
as long as the control plane knows the window (`ReplyInv`); a revoked approval has no
yes and nothing that could still bring one (`StaleInv`); whoever holds a grant has a
record that outlives it (`HolderInv`), which is why a second broker over the same
directory comes too late; a "not performed" in the record or the reply rules out a
PUT that may still merge (`AnswerInv`, `RecordInv`).

**VetoLaneProofs.** `ConsentHadTime` (`OwnerHadTime`), `EvidenceSound` (`Inv`), `ServedUnkilled`
(`ServedOnlyLive`), `RevocationLasts` (`SeveredStaySevered`). Per window, evidence has
stood, or at the deadline will have stood, for the floor's time (`Good`);
`PromiseInv` says of a revocation that was promised that the disk holds it whatever a
power cut leaves, or the switch is killed.

**GatewayProofs.** `OwnerRearms` (`OneRestorePerTrip`), `BudgetsHold` (`NoOverspend`),
`NothingRunsStopped` (`StoppedAgentRunsNothing`), `ReleasesUsedOnce` (`TypeOK` and
`TrackedIsUnused`), `NoYesSurvivesKill` (`YesEndsWithKill`) and `GatewaySound` (`Inv`).
`/status` answers are as old and as out of order as they like, so the invariant
speaks of the answers that are held and not of the plane's state: `After(e)` says of
the kill of epoch e that whoever knows of a later state without a stop was told of it
after a restore; an armed budget has counted everything that ran (`BudgetInv`). The
last two theorems have the hypothesis `faults = 0`. That is where the property ends
and not where the proof does: after a failed save a restart reads an older epoch,
which is then given to another kill, and a ticket held against the first is taken for
one of the second. The run checks the same: its instance has no fault. The other
four hold with failed saves and boots from untrusted state, `OwnerRearms` until the
first such boot, as its property says.

**RegistryProofs.** `EnrolmentsKept`, `IdentitiesKept`, `AdmissionsAuthorized`,
`RevocationsKept`, `ServedFromDisk` (`Inv`). The invariant is about every registry a
process serves or may come to serve, in memory, in the file and in the file after a
power cut (`Kept`): each remembers what was answered 201 and each can become only a
`Later` one. For revocations it is about every standing file a boot may find, and
about what any export of this or a later process would write (`RevocationInv`,
`Covered`). `RevocationsKept` has the hypothesis `~StandingFaults`, a constant that is
FALSE in the run: after a boot that could not read the standing file the code
answers a revocation 200 without a write (section 3, observations).

**AppProofs**, Phone. `IdentityTrue` (`PhoneInv`), `OwnerToldTruth` (`AnswerIsTrue`),
`AlertsStayBound` (`PushStaysBound`, an action property). The store's key is written
once, so whatever key a page, a request, a push enrolment or the registry holds is
that one, and the registry holds it once (`PagesInv`, `PostsInv`, `DeviceInv`). A
request that is waited for is the only one of its page and its answer agrees with
what it did (`WaitInv`); an unproven record is of the store's key and in a registry that
serves nobody (`DeviceInv`), so that a boot that serves it admits the phone that was
refused and no other. A push enrolment under the configured name is accepted only
before the phone's device is exported, hence before the name that is kept could be
an exported one (`PushInv`).

**AppProofs**, OwnerApp. `OnlySeenConfirmed` (`ConfirmedWasSeen`), `PageSound` (`Inv`). Of the
reviews under way one at most is of the present generation; it is of the window in
the address, and past the two frames what it painted was in view (`ReviewInv`). The
button, which all reviews share, belongs to the generation that enabled it. A review
waits for the runtime only while the import is pending, and nothing but a blank page
was there before it (`RuntimeInv`), which bounds the exception in `NoDeadControl`.

**EdgeProofs**, Button. `ButtonSafe` (`ButtonInv`). A cable that breaks leaves fragments,
so the invariant is about the wire: the outbox holds whole lines, the head of a KILL
line is on it only after a press, and where the host's buffer holds a head the rest of
its line comes next or the connection's end does (`OutboxOK`, `BufferOK`, `RestComes`).
Then no two halves make a kill that nobody pressed (`CausedByPress`).

**EdgeProofs**, Honeytoken. `HoneytokenSafe` (`HoneytokenInv`). A file nobody touched is
what its watcher remembers of it at every step of arming (`UntouchedIsKnown`); each lane
holds each trip once, which is why a post under way can be told from those behind it
(`LanesType`); attempts are counted during a flush only (`RunsUnbounded`).

**EdgeProofs**, Escalation. `EscalationSafe` (`Inv`), `CeilingsSafe` (`CeilingsHold`), for any
number of polls that overlap. A listing may be older than what is tracked, and a window
it leaves out though it is open is `misled` from then on; what is owed is open, and
tracked or misled (`OwedIsOpen`), and so a listing that drops a relay that is owed has
misled its window; a window that is open but closed in the run is misled (`ClosedIsOver`).
`CeilingsSafe` needs none of this. Its invariant `CeilingInv` is about ledger and
log alone: the ledger remembers every send younger than its horizon (`Remembers`), so
that fewer than the limit were recent whenever one more was admitted; the day's spend is
what the log says of that day, and no later day has any (`DayOK`). A tick climbs rung
after rung; that the climb, a recursive function, keeps this for a ladder of any length
is an induction, done over sets of numbers (`SetInduction`) since the library's takes an
operator.

### Assumptions

Those of the modules, each an `ASSUME` of theirs that TLC evaluates: constants that
stand for "none" are not members of the sets they are used beside (Escalation's null is
neither a run nor a listing); capacities, periods and
bounds are natural numbers, positive where the code's are; a floor, a window or a
cooldown relates to the others as the code's constants do. Those that say more:
`LegacyAssumption`, that a v1 registry file holds no key twice, which its loader checks
(`KeysDistinct`); Phone's `KeyAssumption`, that the key pairs a phone may generate are
finitely many. Beyond that the proofs assume what the models do: atomic handlers, an
atomic rename, an authenticator that signs for its owner, and the answer of the kill
switch over a restart, which is `Switch`.

### Only model-checked

* Liveness: `RestoreEventually`, `EveryWindowEnds`, `PressIsConfirmed`, `LatchedWins`,
  `TouchTrips`, `KillIsDelivered`. They rest on fairness, hence on ENABLED, which the
  prover does not handle.

No module has a RECURSIVE operator; Escalation climbs its rungs with a recursive function.

## 5. Not modelled

Signatures, CBOR, WebAuthn parsing, canonical arguments and redaction: data, good
or bad in the models. License arithmetic, configuration, doctor, command lines, the
restricted runtime, GitHub's token minting and the workspace app: input and output
without protocol state. Sliding windows, saturation and the clamp of `limits.ts`;
alert rules; a restart of the gateway; a file of the broker's ancestry that is
replaced; planting decoys; the audit log. `PROJECT.json` lists every part with its
status.

## 6. Plan

1. GatewayProofs: what replaces `YesEndsWithKill` where a save failed, that a yes that
   outlives a kill is of an epoch that was issued twice.
2. Limits: sliding windows of `limits.ts`, saturation, the clamp, alert rules.
