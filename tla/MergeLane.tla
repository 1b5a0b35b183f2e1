------------------------------ MODULE MergeLane ------------------------------
(***************************************************************************)
(* One merge, from the owner's review to GitHub: the approval and grant    *)
(* handlers of the control plane (server.ts, veto.ts), the executing merge *)
(* broker (merge-broker.ts, github-client.ts), its durable single-use      *)
(* ledger (burn-store.ts), the signed kill-state channel between the two   *)
(* (signed-kill-state.ts) and what the gateway concludes from the broker's *)
(* socket (broker-client.ts).                                              *)
(*                                                                         *)
(* Three parties run concurrently and meet only in messages: the control   *)
(* plane (one event loop, each handler atomic after its last await), any   *)
(* number of broker processes that share one burn directory (one request   *)
(* per connection, one action per stretch between awaits), and GitHub.  A  *)
(* grant, once handed out, may be presented any number of times.           *)
(*                                                                         *)
(* A window that can mint a grant mints at most one, so a window names its *)
(* grant too.  Time is relative: age[w] counts from the owner's approval,  *)
(* to which the grant's expiry is anchored.                                *)
(*                                                                         *)
(* The pull request may move while all this goes on: its author pushes, or *)
(* retargets it (`target').                                                *)
(*                                                                         *)
(* Abstracted: signatures (a grant is genuine), arguments, purpose and     *)
(* repository allow-list (a mismatch is one more refusal before dispatch), *)
(* token minting (it succeeds or fails), sessions (only Sign needs the     *)
(* owner), credentials and redaction.                                      *)
(***************************************************************************)
EXTENDS Naturals, FiniteSets

CONSTANTS
    Windows,       \* grant-eligible veto windows, each with its grant's jti
    Requests,      \* broker connections
    GrantTtl,      \* grantTtlMs
    Retention,     \* retentionMs of the burn store
    MaxEpoch       \* bound on kills (model bound, not in the code)

ASSUME TimeAssumption ==
    GrantTtl \in Nat \ {0} /\ Retention \in Nat /\ Retention >= GrantTtl
ASSUME BoundAssumption == MaxEpoch \in Nat \ {0}

VARIABLES
    \* the control plane
    killed, epoch, scoped,  \* the kill switch; scoped: this agent is killed
    window,                 \* vetoWindows
    approval,               \* approvedBy and approvalEpoch of a window
    challenge,              \* approvalChallenges
    draining,               \* challenge requests that await their body
    granted,                \* grantedWindows, mintedGrants
    committed,              \* committedGrants
    \* grants at large
    issued, age,
    \* the brokers
    pc, of, abandoned, commitWire, reply,
    burn, unsynced, misread,
    \* GitHub
    put,
    target,    \* how a window's pull request compares with what was reviewed
    \* what the gateway was told
    answer,
    \* history
    stale      \* a kill came between the owner's signature and the commit

switch == <<killed, epoch, scoped>>
plane == <<switch, window, approval, challenge, draining, granted, committed>>
grants == <<issued, age>>
broker == <<pc, of, abandoned, commitWire, reply>>
store == <<burn, unsynced, misread>>
history == <<stale>>
github == <<put, target>>
vars == <<plane, grants, broker, store, github, answer, history>>

NoApproval == [st |-> "none", epoch |-> 0]
NoChallenge == [st |-> "none", epoch |-> 0]
NoReply == [st |-> "none", killed |-> TRUE, epoch |-> 0]
NotCommitted == [NoReply EXCEPT !.st = "no"]

\* How a pull request compares with what was pinned; it strays if it was
\* retargeted when a request had already read its base.
Targets == {"reviewed", "pushed", "retargeted", "strays", "merged"}

\* The age at which every record of a grant has gone.
MaxAge == GrantTtl + Retention + 1

Init ==
    /\ killed = FALSE /\ epoch = 0 /\ scoped = FALSE
    /\ window = [w \in Windows |-> "unborn"]
    /\ approval = [w \in Windows |-> NoApproval]
    /\ challenge = [w \in Windows |-> NoChallenge]
    /\ draining = {} /\ granted = {} /\ committed = {}
    /\ issued = {} /\ age = [w \in Windows |-> 0]
    /\ pc = [r \in Requests |-> "free"]
    /\ of \in [Requests -> Windows]
    /\ abandoned = {} /\ commitWire = {}
    /\ reply = [r \in Requests |-> NoReply]
    /\ burn = [w \in Windows |-> "none"] /\ unsynced = {} /\ misread = {}
    /\ put = [r \in Requests |-> "none"]
    /\ answer = [r \in Requests |-> "none"]
    /\ target = [w \in Windows |-> "reviewed"]
    /\ stale = {}

Expired(w) == age[w] >= GrantTtl

-----------------------------------------------------------------------------
(* The kill switch, as the handlers see it.                                *)

\* Mutant: a kill does not move the epoch.
NextEpochStuck == epoch

NextEpoch == epoch + 1

\* A window the owner has said yes to, whose merge is not committed.
Undecided ==
    {w \in Windows : /\ challenge[w].st = "signed" \/ approval[w].st = "yes"
                     /\ ~\E r \in Requests : of[r] = w /\ reply[r].st = "yes"}

\* Every engage() of server.ts clears the outstanding challenges.
Killing ==
    /\ epoch < MaxEpoch
    /\ epoch' = NextEpoch
    /\ challenge' = [w \in Windows |-> NoChallenge]
    /\ stale' = stale \union Undecided
    /\ UNCHANGED <<window, approval, draining, granted, committed, grants,
                   broker, store, github, answer>>

PostKill == killed' = TRUE /\ UNCHANGED scoped /\ Killing
PostKillAgent == scoped' = TRUE /\ UNCHANGED killed /\ Killing

\* The end of a 2GO ceremony (RestoreLane.tla), global or scoped.
PostRestore ==
    /\ \/ killed /\ killed' = FALSE /\ UNCHANGED scoped
       \/ ~killed /\ scoped /\ scoped' = FALSE /\ UNCHANGED killed
    /\ UNCHANGED <<epoch, window, approval, challenge, draining, granted, committed,
                   grants, broker, store, github, answer, history>>

-----------------------------------------------------------------------------
(* The owner's review.                                                     *)

\* What the broker learns of the kill switch; no answer reads as killed.
LiveState == [killed |-> killed, epoch |-> epoch]

\* There is nothing to pin in a pull request that is merged already.
Pinnable(w) == target[w] /= "merged"

\* The broker reads from GitHub the head and the base that the owner will see.
PinHead(w) ==
    /\ window[w] = "unborn" /\ ~LiveState.killed /\ Pinnable(w)
    /\ window' = [window EXCEPT ![w] = "pinned"]
    /\ UNCHANGED <<switch, approval, challenge, draining, granted, committed,
                   grants, broker, store, github, answer, history>>

PostRegisterVeto(w) ==
    /\ window[w] = "pinned" /\ ~scoped
    /\ window' = [window EXCEPT ![w] = "open"]
    /\ UNCHANGED <<switch, approval, challenge, draining, granted, committed,
                   grants, broker, store, github, answer, history>>

Known(w) == window[w] \in {"open", "vetoed"}

ApprovalChallengeBegin(w) ==
    /\ Known(w) /\ ~killed
    /\ draining' = draining \union {w}
    /\ UNCHANGED <<switch, window, approval, challenge, granted, committed,
                   grants, broker, store, github, answer, history>>

\* Mutant: the kill is not looked at again after the body drained.
KilledAtMintIgnored == FALSE

KilledAtMint == killed

ApprovalChallengeEnd(w) ==
    /\ w \in draining
    /\ draining' = draining \ {w}
    /\ \/ KilledAtMint /\ UNCHANGED challenge
       \/ ~KilledAtMint
          /\ challenge' = [challenge EXCEPT ![w] = [st |-> "minted", epoch |-> epoch]]
    /\ UNCHANGED <<switch, window, approval, granted, committed, grants,
                   broker, store, github, answer, history>>

\* The owner's passkey signs the ceremony on record.
Sign(w) ==
    /\ challenge[w].st = "minted"
    /\ challenge' = [challenge EXCEPT ![w].st = "signed"]
    /\ stale' = IF approval[w].st = "none" THEN stale \ {w} ELSE stale
    /\ UNCHANGED <<switch, window, approval, draining, granted, committed, grants,
                   broker, store, github, answer>>

\* PendingWindow.approve(): the owner's yes, under the epoch then in force; the
\* window's own refusals stand behind the handler's.
Approve(w) ==
    /\ window[w] /= "vetoed" /\ approval[w].st = "none"
    /\ approval' = [approval EXCEPT ![w] = [st |-> "yes", epoch |-> epoch]]
    /\ age' = [age EXCEPT ![w] = 0]

\* decision=approve: any attempt past the kill checks spends the ceremony;
\* a live one with a good assertion approves, once.
PostApprove(w) ==
    /\ Known(w) /\ ~killed /\ ~scoped
    /\ challenge[w] /= NoChallenge
    /\ challenge' = [challenge EXCEPT ![w] = NoChallenge]
    /\ \/ /\ challenge[w].st = "signed" /\ challenge[w].epoch = epoch
          /\ Approve(w)
       \/ UNCHANGED <<approval, age>>    \* expired, or rejected
    /\ UNCHANGED <<switch, window, draining, granted, committed, issued, broker,
                   store, github, answer, history>>

\* decision=veto, by session or device: too late once committed, otherwise
\* at any point of a purposed window.
PostVeto(w) ==
    /\ window[w] = "open"
    /\ \/ w \in committed /\ UNCHANGED window
       \/ w \notin committed /\ window' = [window EXCEPT ![w] = "vetoed"]
    /\ UNCHANGED <<switch, approval, challenge, draining, granted, committed, grants,
                   broker, store, github, answer, history>>

\* A signed grant is out of the control plane's hands, and any holder may present
\* it.
Issue(w) == issued' = issued \union {w}

\* The gateway's poll that mints the grant, at most once per window.
GetVeto(w) ==
    /\ window[w] = "open" /\ approval[w].st = "yes"
    /\ w \notin granted
    /\ ~killed /\ approval[w].epoch = epoch
    /\ ~Expired(w)
    /\ granted' = granted \union {w}
    /\ Issue(w)
    /\ UNCHANGED <<switch, window, approval, challenge, draining, committed, age,
                   broker, store, github, answer, history>>

-----------------------------------------------------------------------------
(* What the control plane signs for the broker.                            *)

\* getSignedKillState's grantLive.
GrantLive(w) == w \in granted /\ window[w] = "open" /\ ~scoped

\* postGrantCommit's condition.
Committable(w) ==
    /\ w \in granted /\ window[w] = "open"
    /\ ~killed /\ ~scoped
    /\ approval[w].epoch = epoch

\* The signed answer; of a refusal nothing but the refusal is used.
CommitReply(w) ==
    IF Committable(w) THEN [st |-> "yes", killed |-> killed, epoch |-> epoch]
    ELSE NotCommitted

\* Mutant: the commit answers but does not claim the grant.
PostGrantCommitReadOnly(r) ==
    /\ r \in commitWire
    /\ commitWire' = commitWire \ {r}
    /\ reply' = [reply EXCEPT ![r] = CommitReply(of[r])]
    /\ UNCHANGED <<plane, grants, pc, of, abandoned, store, github,
                   answer, history>>

\* The broker may have stopped waiting for the answer.
PostGrantCommit(r) ==
    /\ r \in commitWire
    /\ commitWire' = commitWire \ {r}
    /\ committed' = IF Committable(of[r]) THEN committed \union {of[r]} ELSE committed
    /\ reply' = [reply EXCEPT ![r] = CommitReply(of[r])]
    /\ UNCHANGED <<switch, window, approval, challenge, draining, granted, grants,
                   pc, of, abandoned, store, github, answer, history>>

\* A new process knows no window; the kill switch comes back as it was or
\* killed at epoch 1 (KillSwitch.tla).
PlaneRestart ==
    /\ \E w \in Windows : Known(w)
    /\ \/ UNCHANGED switch
       \/ killed' = TRUE /\ epoch' = 1 /\ scoped' = FALSE
    /\ window' = [w \in Windows |-> IF Known(w) THEN "forgotten" ELSE window[w]]
    /\ challenge' = [w \in Windows |-> NoChallenge]
    /\ draining' = {} /\ granted' = {} /\ committed' = {}
    /\ stale' = stale \union Undecided
    /\ UNCHANGED <<approval, grants, broker, store, github, answer>>

-----------------------------------------------------------------------------
(* The burn store.                                                         *)

Burned(w) == burn[w] /= "none"

\* record(): written; written over a record that could not be read, so that
\* it carries no expiry; torn; or not written at all (the caller swallows
\* the exception).
Record(w, st) ==
    \/ burn' = [burn EXCEPT ![w] = st] /\ UNCHANGED misread
    \/ burn' = [burn EXCEPT ![w] = st] /\ misread' = misread \union {w}
    \/ burn' = [burn EXCEPT ![w] = "unreadable"] /\ UNCHANGED misread
    \/ UNCHANGED <<burn, misread>>

\* What the outcome surface says of a grant: the state on record.
OutcomeOf(w) == burn[w]

\* What pruneExpired() removes.  A record without expiry is older than any
\* retention; an unreadable one is dated by its file, not before approval.
Prunable(w) ==
    \/ Burned(w) /\ age[w] > GrantTtl + Retention
    \/ burn[w] = "unreadable" /\ age[w] > Retention
    \/ Burned(w) /\ burn[w] /= "unreadable" /\ w \in misread

\* listen() of a broker, while others may be serving.
BrokerStart ==
    /\ \E w \in Windows : Prunable(w)
    /\ burn' = [w \in Windows |-> IF Prunable(w) THEN "none" ELSE burn[w]]
    /\ UNCHANGED <<plane, grants, broker, unsynced, misread, github, answer, history>>

-----------------------------------------------------------------------------
(* A merge request at the broker.                                          *)

\* finish(): the first answer is the one sent.
Told(r, a) == answer' = [answer EXCEPT ![r] = IF @ = "none" THEN a ELSE @]

Goto(r, l) == pc' = [pc EXCEPT ![r] = l]

\* Mutant: the record is not created exclusively.
AlreadyBurnedNever(w) == FALSE

AlreadyBurned(w) == Burned(w)

\* verifyMergeGrant(): a genuine grant, in time.
GrantVerifies(w) == w \in issued /\ ~Expired(w)

\* A request that is none, that is too large, or whose grant does not verify or
\* is for something else: nothing is burned.
RequestRefused(r) ==
    /\ pc[r] = "free"
    /\ Goto(r, "closed") /\ Told(r, "refused")
    /\ UNCHANGED <<plane, grants, of, abandoned, commitWire, reply, store,
                   github, history>>

\* The record cannot be made: the directory is not the one pinned at startup or
\* the file cannot be opened, or it is opened and its write fails.
BurnFails(w) ==
    \/ UNCHANGED <<burn, unsynced>>
    \/ burn' = [burn EXCEPT ![w] = "unreadable"] /\ unsynced' = unsynced \union {w}

\* The grant verifies; burn() loses to an existing record, fails, or creates
\* its own.
Present(r) ==
    LET w == of[r] IN
    /\ pc[r] = "free" /\ GrantVerifies(w)
    /\ \/ /\ AlreadyBurned(w)
          /\ Goto(r, "closed") /\ Told(r, "refused")
          /\ UNCHANGED <<burn, unsynced>>
       \/ /\ ~AlreadyBurned(w)
          /\ Goto(r, "closed") /\ Told(r, "refused")
          /\ BurnFails(w)
       \/ /\ ~AlreadyBurned(w)
          /\ Goto(r, "burning")
          /\ burn' = [burn EXCEPT ![w] = "dispatching"]
          /\ unsynced' = unsynced \union {w}
          /\ UNCHANGED answer
    /\ UNCHANGED <<plane, grants, of, abandoned, commitWire, reply, misread,
                   github, history>>

\* The directory entry is made durable, with every other, or the request is
\* refused; the record stays either way.
BurnSync(r) ==
    /\ pc[r] = "burning"
    /\ \/ Goto(r, "probe") /\ unsynced' = {} /\ UNCHANGED answer
       \/ Goto(r, "closed") /\ Told(r, "refused") /\ UNCHANGED unsynced
    /\ UNCHANGED <<plane, grants, of, abandoned, commitWire, reply, burn,
                   misread, github, history>>

\* The request ends before dispatch: the outcome is recorded, then answered.
Ends(r, st, a) ==
    /\ Goto(r, "closed")
    /\ Record(of[r], st)
    /\ Told(r, a)
    /\ UNCHANGED <<plane, grants, of, abandoned, commitWire, reply, unsynced,
                   github, history>>

\* The request asks for something else than what was signed, or what was signed
\* is not one merge in an allowed repository.
ArgumentsRefused(r) ==
    /\ pc[r] = "burning"
    /\ Goto(r, "closed") /\ Told(r, "refused")
    /\ Record(of[r], "not-performed") /\ unsynced' = {}
    /\ UNCHANGED <<plane, grants, of, abandoned, commitWire, reply,
                   github, history>>

\* The liveness probe before the token mint; its epoch is the grant's.
ProbeGood(r) ==
    /\ pc[r] = "probe"
    /\ LiveState = [killed |-> FALSE, epoch |-> approval[of[r]].epoch]
    /\ GrantLive(of[r])
    /\ Goto(r, "mint")
    /\ UNCHANGED <<plane, grants, of, abandoned, commitWire, reply, store, github,
                   answer, history>>

\* A bad answer, or no answer.
ProbeBad(r) == pc[r] = "probe" /\ Ends(r, "not-performed", "refused")

\* Mutant: the destination is not compared.
BaseHoldsAny(w) == TRUE

\* GitHub's merge has no guard for the base, so it is read.
BaseHolds(w) == target[w] \notin {"retargeted", "strays"}

\* The installation token is there, the base is the pinned one, and nobody
\* gave up: ask for the commit.
Minted(r) ==
    /\ pc[r] = "mint" /\ BaseHolds(of[r]) /\ r \notin abandoned
    /\ Goto(r, "commit")
    /\ commitWire' = commitWire \union {r}
    /\ UNCHANGED <<plane, grants, of, abandoned, reply, store, github,
                   answer, history>>

\* No token, no usable answer, another base, or nobody waits any more.
MintFails(r) ==
    pc[r] = "mint" /\ Ends(r, "connector-not-performed", "not-performed")

\* Mutant: the connection is not looked at again after the commit.
DispatchableAbandoned(r) ==
    /\ reply[r].st = "yes" /\ ~reply[r].killed
    /\ reply[r].epoch = approval[of[r]].epoch
    /\ ~Expired(of[r])

\* beforeDispatch after its await.
Dispatchable(r) ==
    /\ reply[r].st = "yes" /\ ~reply[r].killed
    /\ reply[r].epoch = approval[of[r]].epoch
    /\ ~Expired(of[r])
    /\ r \notin abandoned

Dispatch(r) ==
    /\ pc[r] = "commit" /\ Dispatchable(r)
    /\ Goto(r, "sent")
    /\ put' = [put EXCEPT ![r] = "flying"]
    /\ UNCHANGED <<plane, grants, of, abandoned, commitWire, reply, store,
                   target, answer, history>>

\* A commit that is refused, late, lost, or answered to nobody.
CommitFails(r) ==
    pc[r] = "commit" /\ Ends(r, "connector-not-performed", "not-performed")

-----------------------------------------------------------------------------
(* GitHub and the broker's reading of it.                                  *)

\* The requests of w that have read the base and whose PUT has not been decided.
Racing(w) ==
    {r \in Requests : of[r] = w /\ (pc[r] = "commit" \/ put[r] = "flying")}

\* The pull request is pushed to, retargeted, put back, or merged by somebody.
\* Before the first request is about to read it, nobody notices.
PullRequestMoves(w) ==
    /\ \E r \in Requests : of[r] = w /\ (pc[r] = "mint" \/ r \in Racing(w))
    /\ target[w] /= "merged"
    /\ LET never == IF Racing(w) = {} THEN "strays" ELSE "retargeted"
       IN  \E t \in Targets \ {target[w], never} : target' = [target EXCEPT ![w] = t]
    /\ UNCHANGED <<plane, grants, broker, store, put, answer, history>>

\* Mutant: the PUT does not name the head.
HeadHoldsAny(w) == target[w] /= "merged"

\* The PUT names the pinned head, and GitHub merges nothing else.
HeadHolds(w) == target[w] \notin {"pushed", "merged"}

\* The request is performed, or rejected or lost before that; it may be
\* performed after the broker has stopped waiting.
GitHubMerges(r) ==
    /\ put[r] = "flying" /\ HeadHolds(of[r])
    /\ put' = [put EXCEPT ![r] = "landed"]
    /\ target' = [target EXCEPT ![of[r]] = "merged"]
    /\ UNCHANGED <<plane, grants, broker, store, answer, history>>

GitHubRejects(r) ==
    /\ put[r] = "flying"
    /\ put' = [put EXCEPT ![r] = "failed"]
    /\ UNCHANGED <<plane, grants, broker, store, target, answer, history>>

\* A 200 that confirms the merge.
Confirmed(r) ==
    pc[r] = "sent" /\ put[r] = "landed" /\ Ends(r, "performed", "merged")

\* A documented rejection.
Rejected(r) ==
    /\ pc[r] = "sent" /\ put[r] = "failed"
    /\ Ends(r, "connector-not-performed", "not-performed")

\* No response, or one that proves nothing: one verification read follows.
Ambiguous(r) ==
    /\ pc[r] = "sent"
    /\ Goto(r, "verify")
    /\ UNCHANGED <<plane, grants, of, abandoned, commitWire, reply, store,
                   github, answer, history>>

\* The pull request is merged, by this request or by somebody else.
VerifiedMerged(r) ==
    /\ pc[r] = "verify" /\ target[of[r]] = "merged"
    /\ Ends(r, "merged-state-observed", "merged")

UnverifiedOutcome == [st |-> "connector-unknown", told |-> "unknown"]

\* Not merged as of the read, or the read failed.
Unverified(r) ==
    pc[r] = "verify" /\ Ends(r, UnverifiedOutcome.st, UnverifiedOutcome.told)

-----------------------------------------------------------------------------
(* Timeouts, crashes, power cuts.                                          *)

Running(r) == pc[r] \notin {"free", "closed"}

\* The connection's timer.  The coroutine goes on.
RequestTimeout(r) ==
    /\ Running(r) /\ answer[r] = "none"
    /\ abandoned' = abandoned \union {r}
    /\ Told(r, IF pc[r] \in {"sent", "verify"} THEN "unknown" ELSE "refused")
    /\ UNCHANGED <<plane, grants, pc, of, commitWire, reply, store, github,
                   history>>

\* The gateway's socket dies or its own timer fires.
ClientGivesUp(r) ==
    /\ Running(r) /\ answer[r] = "none"
    /\ Told(r, "unknown")
    /\ UNCHANGED <<plane, grants, broker, store, github, history>>

\* Requests die with their process; a gateway that waits sees its socket
\* close.
Die(S) ==
    /\ pc' = [r \in Requests |-> IF r \in S THEN "closed" ELSE pc[r]]
    /\ answer' = [r \in Requests |->
         IF r \in S /\ answer[r] = "none" THEN "unknown" ELSE answer[r]]
    /\ UNCHANGED <<plane, grants, of, abandoned, commitWire, reply, misread,
                   github, history>>

\* One of the broker processes, with the requests it serves.
BrokerCrash ==
    \E S \in SUBSET {r \in Requests : Running(r)} :
        S /= {} /\ Die(S) /\ UNCHANGED <<burn, unsynced>>

\* Any entry not made durable may be gone.
PowerCut ==
    \E lost \in SUBSET unsynced :
        /\ unsynced /= {}
        /\ burn' = [w \in Windows |-> IF w \in lost THEN "none" ELSE burn[w]]
        /\ unsynced' = {}
        /\ Die({r \in Requests : Running(r)})

Tick ==
    /\ age' = [w \in Windows |->
         IF approval[w].st = "yes" /\ age[w] < MaxAge THEN age[w] + 1 ELSE age[w]]
    /\ UNCHANGED <<plane, issued, broker, store, github, answer, history>>

-----------------------------------------------------------------------------
Plane ==
    \/ PostKill \/ PostKillAgent \/ PostRestore \/ PlaneRestart
    \/ \E w \in Windows :
        \/ PinHead(w) \/ PostRegisterVeto(w)
        \/ ApprovalChallengeBegin(w) \/ ApprovalChallengeEnd(w)
        \/ Sign(w) \/ PostApprove(w) \/ PostVeto(w) \/ GetVeto(w)
    \/ \E r \in Requests : PostGrantCommit(r)

Broker ==
    \/ BrokerStart \/ BrokerCrash \/ PowerCut
    \/ \E r \in Requests :
        \/ RequestRefused(r) \/ Present(r) \/ BurnSync(r) \/ ArgumentsRefused(r)
        \/ ProbeGood(r) \/ ProbeBad(r) \/ Minted(r) \/ MintFails(r)
        \/ Dispatch(r) \/ CommitFails(r)
        \/ Confirmed(r) \/ Rejected(r) \/ Ambiguous(r)
        \/ VerifiedMerged(r) \/ Unverified(r)
        \/ RequestTimeout(r) \/ ClientGivesUp(r)

GitHub ==
    \/ \E r \in Requests : GitHubMerges(r) \/ GitHubRejects(r)
    \/ \E w \in Windows : PullRequestMoves(w)

Next == Plane \/ Broker \/ GitHub \/ Tick

Spec == Init /\ [][Next]_vars

-----------------------------------------------------------------------------
(* Properties.                                                             *)

BurnState ==
    {"none", "dispatching", "performed", "merged-state-observed", "unreadable",
     "connector-unknown", "connector-not-performed", "not-performed"}

PlaneOK ==
    /\ killed \in BOOLEAN /\ scoped \in BOOLEAN /\ epoch \in 0..MaxEpoch
    /\ window \in [Windows -> {"unborn", "pinned", "open", "vetoed", "forgotten"}]
    /\ approval \in [Windows -> [st : {"none", "yes"}, epoch : 0..MaxEpoch]]
    /\ challenge \in [Windows -> [st : {"none", "minted", "signed"}, epoch : 0..MaxEpoch]]
    /\ draining \subseteq Windows /\ committed \subseteq granted /\ granted \subseteq issued
    /\ issued \subseteq Windows /\ age \in [Windows -> 0..MaxAge]
    /\ stale \subseteq Windows

RequestsOK ==
    /\ pc \in [Requests -> {"free", "burning", "probe", "mint", "commit", "sent",
                            "verify", "closed"}]
    /\ of \in [Requests -> Windows]
    /\ abandoned \subseteq Requests /\ commitWire \subseteq Requests
    /\ reply \in [Requests -> [st : {"none", "yes", "no"}, killed : BOOLEAN,
                               epoch : 0..MaxEpoch]]
    /\ answer \in [Requests -> {"none", "refused", "not-performed", "unknown", "merged"}]

StoreOK ==
    /\ burn \in [Windows -> BurnState]
    /\ unsynced \subseteq Windows /\ misread \subseteq Windows

GitHubOK ==
    /\ put \in [Requests -> {"none", "flying", "landed", "failed"}]
    /\ target \in [Windows -> Targets]

\* The types of the variables; a commit is only ever of a grant this control
\* plane minted.
TypeOK == PlaneOK /\ RequestsOK /\ StoreOK /\ GitHubOK

Sent(w) == {r \in Requests : of[r] = w /\ put[r] /= "none"}

\* What GitHub merges is what the owner saw: the head that was pinned before the
\* review, into the branch that was pinned with it, unless the pull request was
\* retargeted after the broker's last look at it (github-client.ts,
\* mergePullRequest: the read and the PUT are two requests).
MergesWhatWasReviewed ==
    [][\A r \in Requests : put[r] = "flying" /\ put'[r] = "landed" =>
         target[of[r]] \in {"reviewed", "strays"}]_vars

\* One approval merges at most once: however often a grant is presented, to
\* however many brokers, through crashes, power cuts and failed burns, one
\* PUT is sent for it (unless a record was written over an unreadable one).
OnePutPerGrant == \A w \in Windows \ misread : Cardinality(Sent(w)) <= 1

\* A veto that was accepted stops the merge: no PUT of a vetoed window has
\* been sent and none ever will be (postGrantCommit against postVeto).
VetoStops == \A w \in Windows : window[w] = "vetoed" => Sent(w) = {}

\* A kill between the owner's signature and the commit, even one restored
\* since, and a restart of the control plane, leave nothing of the approval:
\* no PUT is sent on it.
KillEndsApproval == \A w \in stale : Sent(w) = {}

\* No yes outlives the owner's no.
RevokedMeansUnsent == VetoStops /\ KillEndsApproval

\* No approval ceremony is on record in a killed world, although a kill may
\* land while the request for one drains (postApprovalChallenge).
NoCeremonyWhileKilled == killed => \A w \in Windows : challenge[w].st = "none"

\* The shape of the state, and the ceremonies in it.
Inv == TypeOK /\ NoCeremonyWhileKilled

\* "Refused" and "not performed" are never taken back: the gateway is told
\* so only if this request's PUT was not sent and never will be, or was
\* rejected (timeouts against slow commits, merge-broker's phase).
RefusalsAreTrue ==
    \A r \in Requests : answer[r] \in {"refused", "not-performed"} =>
        put[r] \in {"none", "failed"}

\* The outcome surface does not lie: "performed" only of a PUT that merged,
\* "not performed" only when no PUT of the grant is on the wire or landed.
RecordsAreTrue ==
    \A w \in Windows \ misread :
        /\ OutcomeOf(w) = "performed" => \E r \in Sent(w) : put[r] = "landed"
        /\ OutcomeOf(w) \in {"not-performed", "connector-not-performed"} =>
             \A r \in Sent(w) : put[r] = "failed"

\* What the gateway is told of a request and what the burn record says of a
\* grant agree with what GitHub did, whichever of a timeout, a lost answer, a
\* failed write or a crash came between.
ReportsAreTrue == RefusalsAreTrue /\ RecordsAreTrue
=============================================================================
