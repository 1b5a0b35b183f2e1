--------------------------- MODULE MergeLaneProofs ---------------------------
(***************************************************************************)
(* Proofs about the merge lane, for every set of windows and of broker     *)
(* connections, every lifetime of a grant and every number of kills: one   *)
(* PUT per grant, no PUT on a revoked approval, no false report, and no    *)
(* merge of what the owner did not see.                                    *)
(***************************************************************************)
EXTENDS MergeLane, FiniteSetTheorems, TLAPS

-----------------------------------------------------------------------------
(* The inductive invariant.                                                *)

\* A grant follows an approval, and an approval is of a window that has been
\* opened, under an epoch that has been reached since the last restart.
ApprovalInv ==
    \A w \in Windows :
        /\ w \in issued => approval[w].st = "yes"
        /\ approval[w].st = "yes" =>
              \/ window[w] = "forgotten"
              \/ window[w] \in {"open", "vetoed"} /\ approval[w].epoch <= epoch

\* Before its commit a request has no answer to one.
Uncommitted(r) == pc[r] \in {"free", "burning", "probe", "mint"}

\* The commit is asked for once, its yes claims the grant for as long as the
\* control plane knows the window, and only a yes is followed by a PUT.
ReplyInv ==
    \A r \in Requests :
        /\ Uncommitted(r) => r \notin commitWire /\ reply[r].st = "none"
        /\ r \in commitWire => reply[r].st = "none"
        /\ reply[r].st = "yes" =>
              \/ window[of[r]] = "forgotten"
              \/ window[of[r]] = "open" /\ of[r] \in committed
        /\ put[r] /= "none" => reply[r].st = "yes" /\ pc[r] \in {"sent", "verify", "closed"}

\* A revoked approval has no yes, and nothing that could still bring one.
StaleInv ==
    \A w \in stale :
        /\ \A r \in Requests : of[r] = w => reply[r].st /= "yes"
        /\ \/ approval[w].st = "none" /\ challenge[w].st /= "signed"
           \/ /\ approval[w].st = "yes"
              /\ window[w] = "forgotten" \/ approval[w].epoch < epoch

\* A request that has made the burn record of its grant and may still send
\* the PUT, or has sent it.
Holds(r) ==
    \/ pc[r] \in {"burning", "probe", "mint", "commit", "sent", "verify"}
    \/ put[r] /= "none"

\* The record of a grant that is held is there, for good once it was synced,
\* until the grant has expired; so nobody else comes to hold the grant.
HolderInv ==
    \A r \in Requests : Holds(r) =>
        /\ of[r] \in issued
        /\ of[r] \notin misread =>
              /\ \/ Expired(of[r])
                 \/ Burned(of[r]) /\ (pc[r] = "burning" \/ of[r] \notin unsynced)
              /\ \A s \in Requests : Holds(s) /\ of[s] = of[r] => s = r

Negative == {"refused", "not-performed"}

\* A no is told when the PUT was not sent and the request is over or will look
\* at the connection before it sends, or when the PUT was rejected.
AnswerInv ==
    \A r \in Requests : answer[r] \in Negative =>
        \/ put[r] = "failed"
        \/ put[r] = "none" /\ (pc[r] = "closed" \/ r \in abandoned)

\* The record says "performed" of a PUT that merged, and "not performed" when
\* no request of the grant is on its way to a PUT or past one that may merge.
RecordInv ==
    \A w \in Windows :
        /\ burn[w] = "performed" /\ w \notin misread =>
              \E r \in Requests : of[r] = w /\ put[r] = "landed"
        /\ burn[w] \in {"not-performed", "connector-not-performed"} /\ w \notin misread =>
              \A r \in Requests : of[r] = w /\ Holds(r) => put[r] = "failed"

\* A request that has read the base races with a retargeting it cannot see,
\* and a retargeting it could have seen is not what it races with.
RaceInv ==
    \A w \in Windows : Racing(w) /= {} => target[w] /= "retargeted"

MInv ==
    /\ Inv
    /\ ApprovalInv /\ ReplyInv /\ StaleInv
    /\ HolderInv /\ AnswerInv /\ RecordInv /\ RaceInv

-----------------------------------------------------------------------------
(* Types.                                                                  *)

\* The parties meet in messages only: what the steps of one leave alone of
\* the others.
LEMMA Frames ==
    /\ Broker \/ GitHub => UNCHANGED <<plane, grants, history>>
    /\ Plane \/ GitHub \/ Tick => UNCHANGED <<pc, of, abandoned, store, answer>>
    /\ GitHub \/ Tick => UNCHANGED <<commitWire, reply>>
    /\ Plane \/ Tick => UNCHANGED github
  <1> USE DEF switch, plane, grants, broker, store, history, github
  <1>1. Plane => UNCHANGED <<pc, of, abandoned, store, answer, github>>
    BY DEF Plane, PostKill, PostKillAgent, Killing, PostRestore, PlaneRestart, PinHead,
           PostRegisterVeto, ApprovalChallengeBegin, ApprovalChallengeEnd, Sign,
           PostApprove, PostVeto, GetVeto, PostGrantCommit
  <1>2. GitHub => UNCHANGED <<plane, grants, history, broker, store, answer>>
    BY DEF GitHub, GitHubMerges, GitHubRejects, PullRequestMoves
  <1>3. Tick => UNCHANGED <<broker, store, answer, github>>
    BY DEF Tick
  <1>4. Broker => UNCHANGED <<plane, grants, history>>
    BY DEF Broker, BrokerStart, BrokerCrash, PowerCut, Die, RequestRefused, Present,
           BurnSync, ArgumentsRefused, ProbeGood, ProbeBad, Minted, MintFails, Dispatch,
           CommitFails, Confirmed, Rejected, Ambiguous, VerifiedMerged, Unverified,
           RequestTimeout, ClientGivesUp, Ends
  <1> QED BY <1>1, <1>2, <1>3, <1>4

\* The lane starts with well-typed state and no ceremony.
LEMMA InvInit == Init => Inv
  <1> SUFFICES ASSUME Init PROVE Inv
    OBVIOUS
  <1>1. MaxAge \in Nat /\ MaxEpoch \in Nat
    BY TimeAssumption, BoundAssumption DEF MaxAge
  <1>2. PlaneOK
    <2>1. NoApproval \in [st : {"none", "yes"}, epoch : 0..MaxEpoch]
          /\ NoChallenge \in [st : {"none", "minted", "signed"}, epoch : 0..MaxEpoch]
      BY <1>1 DEF NoApproval, NoChallenge
    <2>2. 0 \in 0..MaxEpoch /\ 0 \in 0..MaxAge
      BY <1>1
    <2> QED BY <2>1, <2>2 DEF Init, PlaneOK
  <1>3. RequestsOK
    BY <1>1 DEF Init, RequestsOK, NoReply
  <1>4. StoreOK /\ GitHubOK
    BY DEF Init, StoreOK, GitHubOK, BurnState, Targets
  <1> QED BY <1>2, <1>3, <1>4 DEF Init, Inv, TypeOK, NoCeremonyWhileKilled

\* The handlers of the control plane keep its types.
LEMMA PlaneTypes == TypeOK /\ [Next]_vars => PlaneOK'
  <1> SUFFICES ASSUME TypeOK, [Next]_vars PROVE PlaneOK'
    OBVIOUS
  <1> USE BoundAssumption DEF TypeOK, PlaneOK, switch, plane, grants, history
  <1>1. ASSUME Killing, killed' \in BOOLEAN, scoped' \in BOOLEAN PROVE PlaneOK'
    <2>1. stale' \subseteq Windows
      BY <1>1 DEF Killing, Undecided
    <2> QED BY <1>1, <2>1 DEF Killing, NextEpoch, NoChallenge
  <1>2. CASE PostKill \/ PostKillAgent
    BY <1>1, <1>2 DEF PostKill, PostKillAgent
  <1>3. CASE PostRestore
    BY <1>3 DEF PostRestore
  <1>4. CASE PlaneRestart
    <2>1. stale' \subseteq Windows
      BY <1>4 DEF PlaneRestart, Undecided
    <2>2. killed' \in BOOLEAN /\ scoped' \in BOOLEAN /\ epoch' \in 0..MaxEpoch
      <3>1. CASE UNCHANGED switch
        BY <3>1
      <3>2. CASE killed' = TRUE /\ epoch' = 1 /\ scoped' = FALSE
        <4>1. epoch' \in 0..MaxEpoch
          BY <3>2
        <4> QED BY <3>2, <4>1
      <3> QED BY <1>4, <3>1, <3>2 DEF PlaneRestart
    <2>3. window' \in [Windows -> {"unborn", "pinned", "open", "vetoed", "forgotten"}]
      BY <1>4 DEF PlaneRestart
    <2>4. challenge' \in [Windows -> [st : {"none", "minted", "signed"}, epoch : 0..MaxEpoch]]
      BY <1>4 DEF PlaneRestart, NoChallenge
    <2> QED BY <1>4, <2>1, <2>2, <2>3, <2>4 DEF PlaneRestart
  <1>5. ASSUME NEW w \in Windows, PinHead(w) \/ PostRegisterVeto(w) PROVE PlaneOK'
    BY <1>5 DEF PinHead, PostRegisterVeto
  <1>6. ASSUME NEW w \in Windows, ApprovalChallengeBegin(w) \/ ApprovalChallengeEnd(w)
        PROVE  PlaneOK'
    BY <1>6 DEF ApprovalChallengeBegin, ApprovalChallengeEnd
  <1>7. ASSUME NEW w \in Windows, Sign(w) PROVE PlaneOK'
    BY <1>7 DEF Sign
  <1>8. ASSUME NEW w \in Windows, PostApprove(w) PROVE PlaneOK'
    <2>1. challenge' \in [Windows -> [st : {"none", "minted", "signed"}, epoch : 0..MaxEpoch]]
      BY <1>8 DEF PostApprove, NoChallenge
    <2>2. /\ approval' \in [Windows -> [st : {"none", "yes"}, epoch : 0..MaxEpoch]]
          /\ age' \in [Windows -> 0..MaxAge]
      <3>1. CASE Approve(w)
        <4>1. 0 \in 0..MaxAge
          BY TimeAssumption DEF MaxAge
        <4> QED BY <3>1, <4>1 DEF Approve
      <3> QED BY <1>8, <3>1 DEF PostApprove
    <2> QED BY <1>8, <2>1, <2>2 DEF PostApprove
  <1>9. ASSUME NEW w \in Windows, PostVeto(w) \/ GetVeto(w) PROVE PlaneOK'
    BY <1>9 DEF PostVeto, GetVeto, Issue
  <1>10. ASSUME NEW r \in Requests, PostGrantCommit(r) PROVE PlaneOK'
    BY <1>10 DEF PostGrantCommit, CommitReply, Committable, NotCommitted, NoReply
  <1>11. CASE Tick
    BY <1>11, TimeAssumption DEF Tick, MaxAge
  <1>12. CASE Broker \/ GitHub \/ UNCHANGED vars
    BY <1>12, Frames DEF vars
  <1> QED
    BY <1>2, <1>3, <1>4, <1>5, <1>6, <1>7, <1>8, <1>9, <1>10, <1>11, <1>12
       DEF Next, Plane

\* The end of a request, as the broker records and answers it.
LEMMA EndsTypes ==
    ASSUME RequestsOK, StoreOK, NEW r \in Requests, NEW st \in BurnState,
           NEW a \in {"refused", "not-performed", "unknown", "merged"}, Ends(r, st, a)
    PROVE  RequestsOK' /\ StoreOK'
  <1>1. burn' \in [Windows -> BurnState] /\ misread' \subseteq Windows
    BY DEF Ends, Record, StoreOK, RequestsOK, BurnState
  <1> QED BY <1>1 DEF Ends, Goto, Told, RequestsOK, StoreOK

\* The broker and its ledger keep their types, whatever fails under them.
LEMMA BrokerTypes == TypeOK /\ Broker => RequestsOK' /\ StoreOK'
  <1> SUFFICES ASSUME TypeOK, Broker PROVE RequestsOK' /\ StoreOK'
    OBVIOUS
  <1> USE DEF TypeOK, broker, store, Goto, Told
  <1>1. CASE BrokerStart
    BY <1>1 DEF BrokerStart, RequestsOK, StoreOK, BurnState
  <1>2. ASSUME NEW S, Die(S) PROVE RequestsOK'
    BY <1>2 DEF Die, RequestsOK
  <1>3. CASE BrokerCrash
    BY <1>2, <1>3 DEF BrokerCrash, StoreOK, Die
  <1>4. CASE PowerCut
    BY <1>2, <1>4 DEF PowerCut, StoreOK, BurnState, Die
  <1>5. ASSUME NEW r \in Requests,
               ProbeBad(r) \/ MintFails(r) \/ CommitFails(r) \/ Confirmed(r)
               \/ Rejected(r) \/ VerifiedMerged(r) \/ Unverified(r)
        PROVE  RequestsOK' /\ StoreOK'
    BY <1>5, EndsTypes DEF ProbeBad, MintFails, CommitFails, Confirmed, Rejected,
                      VerifiedMerged, Unverified, UnverifiedOutcome, BurnState
  <1>6. ASSUME NEW r \in Requests, RequestRefused(r) PROVE RequestsOK' /\ StoreOK'
    BY <1>6 DEF RequestsOK, StoreOK, RequestRefused
  <1>7. ASSUME NEW r \in Requests, Present(r) PROVE RequestsOK' /\ StoreOK'
    <2>1. RequestsOK'
      BY <1>7 DEF RequestsOK, Present
    <2>2. StoreOK'
      BY <1>7 DEF RequestsOK, StoreOK, Present, BurnFails, BurnState
    <2> QED BY <2>1, <2>2
  <1>8. ASSUME NEW r \in Requests, BurnSync(r) \/ ArgumentsRefused(r)
        PROVE  RequestsOK' /\ StoreOK'
    <2>1. RequestsOK'
      BY <1>8 DEF RequestsOK, BurnSync, ArgumentsRefused
    <2>2. StoreOK'
      BY <1>8 DEF RequestsOK, StoreOK, BurnSync, ArgumentsRefused, Record, BurnState
    <2> QED BY <2>1, <2>2
  <1>9. ASSUME NEW r \in Requests, ProbeGood(r) \/ Minted(r) \/ Dispatch(r) \/ Ambiguous(r)
        PROVE  RequestsOK' /\ StoreOK'
    BY <1>9 DEF RequestsOK, StoreOK, ProbeGood, Minted, Dispatch, Ambiguous
  <1>10. ASSUME NEW r \in Requests, RequestTimeout(r) PROVE RequestsOK' /\ StoreOK'
    BY <1>10 DEF RequestsOK, StoreOK, RequestTimeout
  <1>11. ASSUME NEW r \in Requests, ClientGivesUp(r) PROVE RequestsOK' /\ StoreOK'
    BY <1>11 DEF RequestsOK, StoreOK, ClientGivesUp
  <1> QED
    BY <1>1, <1>3, <1>4, <1>5, <1>6, <1>7, <1>8, <1>9, <1>10, <1>11 DEF Broker

\* GitHub's state keeps its types.
LEMMA GitHubTypes == TypeOK /\ [Next]_vars => GitHubOK'
  <1> SUFFICES ASSUME TypeOK, [Next]_vars PROVE GitHubOK'
    OBVIOUS
  <1> USE DEF TypeOK, GitHubOK, github
  <1>1. CASE GitHub
    <2>1. ASSUME NEW r \in Requests, GitHubMerges(r) PROVE GitHubOK'
      BY <2>1 DEF GitHubMerges, Targets, RequestsOK
    <2>2. ASSUME NEW r \in Requests, GitHubRejects(r) PROVE GitHubOK'
      BY <2>2 DEF GitHubRejects
    <2>3. ASSUME NEW w \in Windows, PullRequestMoves(w) PROVE GitHubOK'
      BY <2>3 DEF PullRequestMoves
    <2> QED BY <1>1, <2>1, <2>2, <2>3 DEF GitHub
  <1>2. CASE Broker
    BY <1>2 DEF Broker, BrokerStart, BrokerCrash, PowerCut, Die, RequestRefused, Present,
           BurnSync, ArgumentsRefused, ProbeGood, ProbeBad, Minted, MintFails, Dispatch,
           CommitFails, Confirmed, Rejected, Ambiguous, VerifiedMerged, Unverified,
           RequestTimeout, ClientGivesUp, Ends
  <1>3. CASE Plane \/ Tick \/ UNCHANGED vars
    BY <1>3, Frames DEF vars
  <1> QED BY <1>1, <1>2, <1>3 DEF Next

\* The types hold whatever the three parties do.
LEMMA TypeStep == TypeOK /\ [Next]_vars => TypeOK'
  <1> SUFFICES ASSUME TypeOK, [Next]_vars PROVE TypeOK'
    OBVIOUS
  <1>1. ASSUME NEW r \in Requests, PostGrantCommit(r) PROVE RequestsOK'
    <2>1. CommitReply(of[r]) \in [st : {"none", "yes", "no"}, killed : BOOLEAN,
                                  epoch : 0..MaxEpoch]
      <3> DEFINE Replies == [st : {"none", "yes", "no"}, killed : BOOLEAN, epoch : 0..MaxEpoch]
      <3>1. NoReply \in Replies
        BY BoundAssumption DEF NoReply
      <3>2. NotCommitted \in Replies
        BY <3>1 DEF NotCommitted
      <3> QED BY <3>2 DEF TypeOK, PlaneOK, CommitReply
    <2> QED BY <1>1, <2>1 DEF TypeOK, RequestsOK, PostGrantCommit
  <1>2. CASE Plane
    <2>1. ~(\E r \in Requests : PostGrantCommit(r)) => UNCHANGED <<commitWire, reply>>
      BY <1>2 DEF Plane, PostKill, PostKillAgent, Killing, PostRestore, PlaneRestart, PinHead,
           PostRegisterVeto, ApprovalChallengeBegin, ApprovalChallengeEnd, Sign,
           PostApprove, PostVeto, GetVeto, broker
    <2>2. RequestsOK' /\ StoreOK'
      BY <1>1, <1>2, <2>1, Frames DEF TypeOK, RequestsOK, StoreOK, store
    <2> QED BY <2>2, PlaneTypes, GitHubTypes DEF TypeOK
  <1>3. CASE Broker
    BY <1>3, BrokerTypes, PlaneTypes, GitHubTypes DEF TypeOK
  <1>4. CASE GitHub \/ Tick \/ UNCHANGED vars
    <2>1. RequestsOK' /\ StoreOK'
      BY <1>4, Frames DEF TypeOK, RequestsOK, StoreOK, store, vars, broker
    <2> QED BY <2>1, PlaneTypes, GitHubTypes DEF TypeOK
  <1> QED BY <1>2, <1>3, <1>4 DEF Next

-----------------------------------------------------------------------------
(* The control plane: ceremonies, approvals and what revokes them.         *)

\* A kill clears the ceremonies, and a killed control plane mints none.
LEMMA CeremonyStep == Inv /\ [Next]_vars => NoCeremonyWhileKilled'
  <1> SUFFICES ASSUME Inv, [Next]_vars PROVE NoCeremonyWhileKilled'
    OBVIOUS
  <1> USE DEF Inv, TypeOK, PlaneOK, NoCeremonyWhileKilled, switch, plane
  <1>0. NoChallenge.st = "none"
    BY DEF NoChallenge
  <1>1. CASE PostKill \/ PostKillAgent \/ PlaneRestart
    BY <1>0, <1>1 DEF PostKill, PostKillAgent, Killing, PlaneRestart
  <1>2. CASE PostRestore
    BY <1>2 DEF PostRestore
  <1>3. ASSUME NEW w \in Windows, ApprovalChallengeEnd(w) PROVE NoCeremonyWhileKilled'
    BY <1>3 DEF ApprovalChallengeEnd, KilledAtMint
  <1>4. ASSUME NEW w \in Windows, Sign(w) \/ PostApprove(w) PROVE NoCeremonyWhileKilled'
    BY <1>4 DEF Sign, PostApprove
  <1>5. ASSUME NEW w \in Windows,
               PinHead(w) \/ PostRegisterVeto(w) \/ ApprovalChallengeBegin(w)
               \/ PostVeto(w) \/ GetVeto(w)
        PROVE  NoCeremonyWhileKilled'
    BY <1>5 DEF PinHead, PostRegisterVeto, ApprovalChallengeBegin, PostVeto, GetVeto
  <1>6. ASSUME NEW r \in Requests, PostGrantCommit(r) PROVE NoCeremonyWhileKilled'
    BY <1>6 DEF PostGrantCommit
  <1>7. CASE Broker \/ GitHub \/ Tick \/ UNCHANGED vars
    BY <1>7, Frames DEF vars, Tick
  <1> QED BY <1>1, <1>2, <1>3, <1>4, <1>5, <1>6, <1>7 DEF Next, Plane

\* An approval keeps its window and its epoch, over kills and restarts.
LEMMA ApprovalStep == TypeOK /\ ApprovalInv /\ [Next]_vars => ApprovalInv'
  <1> SUFFICES ASSUME TypeOK, ApprovalInv, [Next]_vars PROVE ApprovalInv'
    OBVIOUS
  <1> USE DEF TypeOK, PlaneOK, ApprovalInv, switch, plane, grants
  <1>1. CASE PostKill \/ PostKillAgent
    BY <1>1 DEF PostKill, PostKillAgent, Killing, NextEpoch
  <1>2. CASE PlaneRestart
    BY <1>2 DEF PlaneRestart, Known
  <1>3. ASSUME NEW w \in Windows, PostApprove(w) PROVE ApprovalInv'
    BY <1>3 DEF PostApprove, Approve, Known
  <1>4. ASSUME NEW w \in Windows, PinHead(w) \/ PostRegisterVeto(w) \/ PostVeto(w)
        PROVE  ApprovalInv'
    BY <1>4 DEF PinHead, PostRegisterVeto, PostVeto
  <1>5. ASSUME NEW w \in Windows, GetVeto(w) PROVE ApprovalInv'
    BY <1>5 DEF GetVeto, Issue
  <1>6. ASSUME NEW w \in Windows,
               ApprovalChallengeBegin(w) \/ ApprovalChallengeEnd(w) \/ Sign(w)
        PROVE  ApprovalInv'
    BY <1>6 DEF ApprovalChallengeBegin, ApprovalChallengeEnd, Sign
  <1>7. ASSUME NEW r \in Requests, PostGrantCommit(r) PROVE ApprovalInv'
    BY <1>7 DEF PostGrantCommit
  <1>8. CASE PostRestore
    BY <1>8 DEF PostRestore
  <1>9. CASE Broker \/ GitHub \/ Tick \/ UNCHANGED vars
    BY <1>9, Frames DEF vars, Tick
  <1> QED BY <1>1, <1>2, <1>3, <1>4, <1>5, <1>6, <1>7, <1>8, <1>9 DEF Next, Plane

\* A yes is given once to a request, for an open window, and claims the grant
\* before a PUT can be sent.
LEMMA ReplyStep == TypeOK /\ ReplyInv /\ [Next]_vars => ReplyInv'
  <1> SUFFICES ASSUME TypeOK, ReplyInv, [Next]_vars PROVE ReplyInv'
    OBVIOUS
  <1> USE DEF TypeOK, PlaneOK, RequestsOK, GitHubOK, ReplyInv, Uncommitted,
              switch, plane, grants, broker, store, github, history, Goto
  \* A request's steps that ask for no commit and send no PUT.
  <1>1. ASSUME UNCHANGED <<window, committed, of, commitWire, reply, put>>,
               \A r \in Requests :
                 \/ pc'[r] = pc[r]
                 \/ pc'[r] = "closed"
                 \/ Uncommitted(r) /\ Uncommitted(r)'
                 \/ pc[r] = "sent" /\ pc'[r] = "verify"
        PROVE  ReplyInv'
    BY <1>1
  <1>2. CASE Plane
    <2>1. CASE UNCHANGED <<window, committed, commitWire, reply>>
      BY <1>2, <2>1, <1>1, Frames
    <2>2. CASE PlaneRestart
      BY <1>2, <2>2, Frames DEF PlaneRestart, Known
    <2>3. ASSUME NEW w \in Windows, PinHead(w) \/ PostRegisterVeto(w)
          PROVE  ReplyInv'
      BY <2>3 DEF PinHead, PostRegisterVeto
    <2>4. ASSUME NEW w \in Windows, PostVeto(w) PROVE ReplyInv'
      BY <2>4 DEF PostVeto
    <2>5. ASSUME NEW r \in Requests, PostGrantCommit(r) PROVE ReplyInv'
      <3>1. ASSUME CommitReply(of[r]).st = "yes"
            PROVE  Committable(of[r])
        BY <3>1 DEF CommitReply, NotCommitted, NoReply
      <3>2. reply'[r] = CommitReply(of[r]) /\ \A s \in Requests \ {r} : reply'[s] = reply[s]
        BY <2>5 DEF PostGrantCommit
      <3> QED BY <2>5, <3>1, <3>2 DEF PostGrantCommit, Committable
    <2>6. CASE PostKill \/ PostKillAgent \/ PostRestore
      BY <2>6, <2>1 DEF PostKill, PostKillAgent, Killing, PostRestore
    <2>7. ASSUME NEW w \in Windows,
                 ApprovalChallengeBegin(w) \/ ApprovalChallengeEnd(w) \/ Sign(w)
                 \/ PostApprove(w) \/ GetVeto(w)
          PROVE  UNCHANGED <<window, committed, commitWire, reply>>
      BY <2>7 DEF ApprovalChallengeBegin, ApprovalChallengeEnd, Sign, PostApprove, GetVeto
    <2> QED BY <1>2, <2>1, <2>2, <2>3, <2>4, <2>5, <2>6, <2>7 DEF Plane
  <1>3. CASE Broker
    <2>0. UNCHANGED <<window, committed, of>>
      BY <1>3, Frames, <1>3 DEF Broker, BrokerStart, BrokerCrash, PowerCut, Die,
           RequestRefused, Present, BurnSync, ArgumentsRefused, ProbeGood, ProbeBad,
           Minted, MintFails, Dispatch, CommitFails, Confirmed, Rejected, Ambiguous,
           VerifiedMerged, Unverified, RequestTimeout, ClientGivesUp, Ends
    <2>1. ASSUME NEW r \in Requests, Minted(r) PROVE ReplyInv'
      BY <2>0, <2>1 DEF Minted
    <2>2. ASSUME NEW r \in Requests, Dispatch(r) PROVE ReplyInv'
      BY <2>0, <2>2 DEF Dispatch, Dispatchable
    <2>3. CASE BrokerStart
      BY <2>0, <2>3, <1>1 DEF BrokerStart
    <2>4. CASE BrokerCrash \/ PowerCut
      BY <2>0, <2>4, <1>1 DEF BrokerCrash, PowerCut, Die
    <2>5. ASSUME NEW r \in Requests, RequestRefused(r) \/ Present(r) \/ BurnSync(r) \/
                 ArgumentsRefused(r) \/ ProbeGood(r) \/ Ambiguous(r)
          PROVE  ReplyInv'
      BY <2>0, <2>5, <1>1 DEF RequestRefused, Present, BurnSync, ArgumentsRefused, ProbeGood,
                         Ambiguous
    <2>6. ASSUME NEW r \in Requests, RequestTimeout(r) \/ ClientGivesUp(r) PROVE ReplyInv'
      BY <2>0, <2>6, <1>1 DEF RequestTimeout, ClientGivesUp
    <2>7. ASSUME NEW r \in Requests, NEW st, NEW a, Ends(r, st, a) PROVE ReplyInv'
      BY <2>0, <2>7, <1>1 DEF Ends
    <2> QED
      BY <1>3, <2>1, <2>2, <2>3, <2>4, <2>5, <2>6, <2>7 DEF Broker, ProbeBad, MintFails,
         CommitFails, Confirmed, Rejected, VerifiedMerged, Unverified
  <1>4. CASE GitHub
    <2>1. UNCHANGED <<window, committed, broker>>
      BY <1>4, Frames
    <2>2. \A r \in Requests : put'[r] /= "none" => put[r] /= "none"
      BY <1>4 DEF GitHub, GitHubMerges, GitHubRejects, PullRequestMoves
    <2> QED BY <2>1, <2>2
  <1>5. CASE Tick \/ UNCHANGED vars
    BY <1>5, Frames, <1>1 DEF Tick, vars
  <1> QED BY <1>2, <1>3, <1>4, <1>5 DEF Next

\* No step gives a revoked approval back: the commit asks for the epoch of the
\* approval, and a restarted control plane does not know the window.
LEMMA StaleStep ==
    TypeOK /\ ApprovalInv /\ ReplyInv /\ StaleInv /\ [Next]_vars => StaleInv'
  <1> SUFFICES ASSUME TypeOK, ApprovalInv, ReplyInv, StaleInv, [Next]_vars
               PROVE  StaleInv'
    OBVIOUS
  <1> USE DEF TypeOK, PlaneOK, RequestsOK, StaleInv, switch, plane, grants, broker, history
  <1>0. NoChallenge.st = "none"
    BY DEF NoChallenge
  \* What a kill or a restart finds without a yes.
  <1>u. ASSUME NEW w \in Undecided PROVE
          /\ \A r \in Requests : of[r] = w => reply[r].st /= "yes"
          /\ approval[w].st \in {"none", "yes"}
    BY DEF Undecided
  <1>1. CASE PostKill \/ PostKillAgent
    <2>1. /\ epoch' = epoch + 1 /\ challenge' = [w \in Windows |-> NoChallenge]
          /\ stale' = stale \union Undecided
          /\ UNCHANGED <<window, approval, of, reply>>
      BY <1>1 DEF PostKill, PostKillAgent, Killing, NextEpoch
    <2>2. ASSUME NEW w \in Windows, approval[w].st = "yes"
          PROVE  window[w] = "forgotten" \/ approval[w].epoch < epoch'
      BY <2>1, <2>2 DEF ApprovalInv
    <2>3. ASSUME NEW w \in stale' PROVE
            /\ \A r \in Requests : of'[r] = w => reply'[r].st /= "yes"
            /\ \/ approval'[w].st = "none" /\ challenge'[w].st /= "signed"
               \/ /\ approval'[w].st = "yes"
                  /\ window'[w] = "forgotten" \/ approval'[w].epoch < epoch'
      <3>1. w \in Windows /\ approval[w].st \in {"none", "yes"}
        BY <2>1 DEF Undecided
      <3>2. challenge'[w] = NoChallenge
        BY <2>1, <3>1
      <3> QED BY <2>1, <2>2, <2>3, <3>1, <3>2, <1>0, <1>u
    <2> QED BY <2>3
  <1>2. CASE PlaneRestart
    <2>1. /\ challenge' = [w \in Windows |-> NoChallenge]
          /\ stale' = stale \union Undecided
          /\ UNCHANGED <<approval, of, reply>>
      BY <1>2 DEF PlaneRestart
    <2>2. ASSUME NEW w \in Windows, approval[w].st = "yes" PROVE window'[w] = "forgotten"
      BY <1>2, <2>2 DEF PlaneRestart, Known, ApprovalInv
    <2>3. ASSUME NEW w \in stale' PROVE
            /\ \A r \in Requests : of'[r] = w => reply'[r].st /= "yes"
            /\ \/ approval'[w].st = "none" /\ challenge'[w].st /= "signed"
               \/ approval'[w].st = "yes" /\ window'[w] = "forgotten"
      <3>1. w \in Windows /\ approval[w].st \in {"none", "yes"}
        BY <2>1 DEF Undecided
      <3>2. challenge'[w] = NoChallenge
        BY <2>1, <3>1
      <3> QED BY <2>1, <2>2, <2>3, <3>1, <3>2, <1>0, <1>u
    <2> QED BY <2>3
  <1>3. ASSUME NEW w \in Windows, Sign(w) PROVE StaleInv'
    BY <1>3 DEF Sign
  <1>4. ASSUME NEW w \in Windows, PostApprove(w) PROVE StaleInv'
    BY <1>0, <1>4 DEF PostApprove, Approve
  <1>5. ASSUME NEW r \in Requests, PostGrantCommit(r) PROVE StaleInv'
    <2>1. ASSUME CommitReply(of[r]).st = "yes" PROVE of[r] \notin stale
      <3>1. Committable(of[r])
        BY <2>1 DEF CommitReply, NotCommitted, NoReply
      <3> QED BY <3>1 DEF Committable, ApprovalInv
    <2>2. reply'[r] = CommitReply(of[r]) /\ \A s \in Requests \ {r} : reply'[s] = reply[s]
      BY <1>5 DEF PostGrantCommit
    <2> QED BY <1>5, <2>1, <2>2 DEF PostGrantCommit
  <1>6. ASSUME NEW w \in Windows, ApprovalChallengeEnd(w) PROVE StaleInv'
    BY <1>6 DEF ApprovalChallengeEnd
  <1>7. ASSUME NEW w \in Windows,
               PinHead(w) \/ PostRegisterVeto(w) \/ PostVeto(w)
        PROVE  StaleInv'
    BY <1>7 DEF PinHead, PostRegisterVeto, PostVeto
  <1>8. ASSUME NEW w \in Windows, ApprovalChallengeBegin(w) \/ GetVeto(w)
        PROVE  StaleInv'
    BY <1>8 DEF ApprovalChallengeBegin, GetVeto
  <1>9. CASE PostRestore
    BY <1>9 DEF PostRestore
  <1>10. CASE Broker \/ GitHub \/ Tick \/ UNCHANGED vars
    <2>1. UNCHANGED <<stale, window, approval, challenge, epoch, of, reply>>
      <3>1. CASE Broker
        BY <3>1, Frames DEF Broker, BrokerStart, BrokerCrash, PowerCut, Die,
           RequestRefused, Present, BurnSync, ArgumentsRefused, ProbeGood, ProbeBad,
           Minted, MintFails, Dispatch, CommitFails, Confirmed, Rejected, Ambiguous,
           VerifiedMerged, Unverified, RequestTimeout, ClientGivesUp, Ends
      <3> QED BY <1>10, <3>1, Frames DEF vars, Tick
    <2> QED BY <2>1
  <1> QED
    BY <1>1, <1>2, <1>3, <1>4, <1>5, <1>6, <1>7, <1>8, <1>9, <1>10 DEF Next, Plane

-----------------------------------------------------------------------------
(* The ledger: who holds a grant.                                          *)

\* A record that is removed is the record of an expired grant, or one that was
\* written over an unreadable one.
LEMMA PrunedExpired ==
    ASSUME TypeOK, NEW w \in Windows, Prunable(w), w \notin misread
    PROVE  Expired(w)
  BY TimeAssumption DEF TypeOK, PlaneOK, MaxAge, Prunable, Expired

\* The age of an issued grant is not set back.
LEMMA ExpiryStays ==
    ASSUME TypeOK, ApprovalInv, [Next]_vars, NEW w \in issued, Expired(w)
    PROVE  Expired(w)'
  <1> USE DEF TypeOK, PlaneOK, plane, grants, switch, Expired
  <1>1. CASE age' = age
    BY <1>1
  <1>2. CASE Tick
    BY <1>2, TimeAssumption DEF Tick, MaxAge
  <1>3. ASSUME NEW v \in Windows, PostApprove(v) PROVE age'[w] = age[w]
    BY <1>3 DEF PostApprove, Approve, ApprovalInv
  <1>4. CASE Plane
    BY <1>1, <1>3, <1>4 DEF Plane, PostKill, PostKillAgent, Killing, PostRestore,
           PlaneRestart, PinHead, PostRegisterVeto, ApprovalChallengeBegin,
           ApprovalChallengeEnd, Sign, PostVeto, GetVeto, PostGrantCommit
  <1> QED BY <1>1, <1>2, <1>4, Frames DEF Next, vars

\* Of the grants: nothing is taken back.
LEMMA IssuedGrows == TypeOK /\ [Next]_vars => issued \subseteq issued'
  <1> SUFFICES ASSUME [Next]_vars PROVE issued \subseteq issued'
    OBVIOUS
  <1> USE DEF plane, grants
  <1>1. CASE Plane
    BY <1>1 DEF Plane, PostKill, PostKillAgent, Killing, PostRestore,
           PlaneRestart, PinHead, PostRegisterVeto, ApprovalChallengeBegin,
           ApprovalChallengeEnd, Sign, PostApprove, Approve, PostVeto, GetVeto, Issue,
           PostGrantCommit
  <1> QED BY <1>1, Frames DEF Next, vars, Tick

\* One request holds a grant, its record stays as long as the grant may be
\* presented, and so no second request comes to hold it.
LEMMA HolderStep ==
    TypeOK /\ ApprovalInv /\ ReplyInv /\ HolderInv /\ [Next]_vars => HolderInv'
  <1> SUFFICES ASSUME TypeOK, ApprovalInv, ReplyInv, HolderInv, [Next]_vars
               PROVE  HolderInv'
    OBVIOUS
  <1> USE DEF TypeOK, PlaneOK, RequestsOK, StoreOK, broker, store, github, Goto
  <1>m. issued \subseteq issued' /\ \A w \in issued : Expired(w) => Expired(w)'
    BY IssuedGrows, ExpiryStays
  \* Nobody comes to hold a grant; records and what is synced stay.
  <1>1. ASSUME of' = of, misread \subseteq misread',
               \A r \in Requests : Holds(r)' => Holds(r) /\ (pc'[r] = pc[r] \/ pc[r] /= "burning"
                                                \/ of[r] \notin unsynced'),
               \A w \in Windows : Burned(w) /\ w \notin misread => Burned(w)' \/ Expired(w)',
               \A w \in Windows : w \in unsynced' => w \in unsynced
        PROVE  HolderInv'
    BY <1>1, <1>m DEF HolderInv
  <1>2. CASE Plane \/ GitHub \/ Tick \/ UNCHANGED vars
    <2>1. UNCHANGED <<pc, of, store>>
      BY <1>2, Frames DEF vars
    <2>2. \A r \in Requests : Holds(r)' => Holds(r)
      <3>1. \A r \in Requests : put'[r] /= "none" => put[r] /= "none"
        BY <1>2, Frames DEF GitHub, GitHubMerges, GitHubRejects, PullRequestMoves, GitHubOK,
                            vars
      <3> QED BY <2>1, <3>1 DEF Holds
    <2> QED BY <2>1, <2>2, <1>1 DEF Burned
  <1>3. CASE Broker
    <2>1. CASE BrokerStart
      <3>1. UNCHANGED <<pc, of, put, unsynced, misread, age>>
        BY <2>1 DEF BrokerStart, grants
      <3>2. ASSUME NEW w \in Windows, Burned(w), w \notin misread PROVE Burned(w)' \/ Expired(w)'
        BY <2>1, <3>1, <3>2, PrunedExpired DEF BrokerStart, Burned, Expired
      <3> QED BY <3>1, <3>2, <1>1 DEF Holds
    <2>2. CASE BrokerCrash
      <3>1. PICK S : Die(S) /\ UNCHANGED <<burn, unsynced>>
        BY <2>2 DEF BrokerCrash
      <3>2. UNCHANGED <<of, misread, put>>
            /\ pc' = [r \in Requests |-> IF r \in S THEN "closed" ELSE pc[r]]
        BY <3>1 DEF Die
      <3>3. \A r \in Requests : Holds(r)' => Holds(r) /\ (pc'[r] = pc[r] \/ pc[r] /= "burning")
        BY <3>2 DEF Holds, ReplyInv
      <3> QED BY <3>1, <3>2, <3>3, <1>1 DEF Burned
    <2>3. CASE PowerCut
      <3>1. PICK lost \in SUBSET unsynced :
              burn' = [w \in Windows |-> IF w \in lost THEN "none" ELSE burn[w]]
        BY <2>3 DEF PowerCut
      <3>2. UNCHANGED <<of, misread, put>> /\ unsynced' = {}
            /\ pc' = [r \in Requests |-> IF Running(r) THEN "closed" ELSE pc[r]]
        BY <2>3 DEF PowerCut, Die
      <3>3. ASSUME NEW r \in Requests, Holds(r)' PROVE put[r] /= "none" /\ pc[r] /= "burning"
        BY <3>2, <3>3 DEF Holds, Running, ReplyInv
      <3>4. ASSUME NEW r \in Requests, Holds(r)', of[r] \notin misread, ~Expired(of[r])'
            PROVE  Burned(of[r])'
        <4>1. Holds(r) /\ put[r] /= "none" /\ pc[r] /= "burning"
          BY <3>3, <3>4 DEF Holds
        <4>2. ~Expired(of[r])
          BY <3>2, <3>4, <4>1, <1>m DEF HolderInv, Expired
        <4>3. Burned(of[r]) /\ of[r] \notin unsynced
          BY <3>4, <4>1, <4>2 DEF HolderInv
        <4> QED BY <3>1, <3>2, <4>3 DEF Burned
      <3>5. \A r \in Requests : Holds(r)' => Holds(r)
        BY <3>3 DEF Holds
      <3> QED BY <1>m, <3>2, <3>4, <3>5 DEF HolderInv
    <2>4. ASSUME NEW r \in Requests, Present(r) PROVE HolderInv'
      <3>0. pc[r] = "free" /\ of[r] \in issued /\ ~Expired(of[r])
            /\ UNCHANGED <<of, put, misread, age, issued>>
        BY <2>4 DEF Present, GrantVerifies, grants
      <3>1. CASE pc'[r] = "closed"
        <4>1. \A s \in Requests : Holds(s)' => Holds(s) /\ pc'[s] = pc[s]
          <5>1. pc' = [pc EXCEPT ![r] = "closed"]
            BY <2>4, <3>1 DEF Present
          <5>2. ~Holds(r)'
            BY <3>0, <5>1 DEF ReplyInv, Uncommitted, Holds
          <5> QED BY <3>0, <5>1, <5>2 DEF Holds
        <4>2. CASE UNCHANGED <<burn, unsynced>>
          BY <3>0, <4>1, <4>2, <1>1 DEF Burned
        <4>3. CASE ~Burned(of[r]) /\ BurnFails(of[r])
          <5>1. \A s \in Requests : Holds(s) /\ of[s] \notin misread => of[s] /= of[r]
            BY <3>0, <4>3 DEF HolderInv
          <5> QED BY <1>m, <3>0, <4>1, <4>3, <5>1 DEF HolderInv, BurnFails, Burned
        <4> QED BY <2>4, <3>1, <4>2, <4>3 DEF Present, AlreadyBurned
      <3>2. CASE /\ ~Burned(of[r])
                 /\ pc' = [pc EXCEPT ![r] = "burning"]
                 /\ burn' = [burn EXCEPT ![of[r]] = "dispatching"]
                 /\ unsynced' = unsynced \union {of[r]}
        <4>1. \A s \in Requests : Holds(s) /\ of[s] \notin misread => of[s] /= of[r]
          BY <3>0, <3>2 DEF HolderInv
        <4>2. \A s \in Requests \ {r} : pc'[s] = pc[s] /\ (Holds(s)' <=> Holds(s))
          BY <3>0, <3>2 DEF Holds
        <4>3. pc'[r] = "burning" /\ Burned(of[r])'
          BY <3>0, <3>2 DEF Burned
        <4>4. \A w \in Windows \ {of[r]} : burn'[w] = burn[w]
          BY <3>2
        <4> QED BY <1>m, <3>0, <3>2, <4>1, <4>2, <4>3, <4>4 DEF HolderInv, Burned
      <3> QED BY <2>4, <3>1, <3>2 DEF Present, AlreadyBurned
    \* Writing over a record leaves a record.
    <2>5. ASSUME NEW w \in Windows, NEW st \in BurnState \ {"none"}, Record(w, st)
          PROVE  misread \subseteq misread' /\ \A v \in Windows : Burned(v) => Burned(v)'
      BY <2>5 DEF Record, Burned
    <2>6. ASSUME NEW r \in Requests, NEW st \in BurnState \ {"none"}, NEW a, Ends(r, st, a)
          PROVE  HolderInv'
      <3>1. /\ pc' = [pc EXCEPT ![r] = "closed"] /\ Record(of[r], st)
            /\ UNCHANGED <<of, put, unsynced>>
        BY <2>6 DEF Ends
      <3>2. \A s \in Requests : Holds(s)' => Holds(s) /\ (pc'[s] = pc[s] \/ pc[s] /= "burning")
        BY <3>1 DEF Holds, ReplyInv
      <3> QED BY <3>1, <3>2, <2>5, <1>1
    <2>7. ASSUME NEW r \in Requests,
                 ProbeBad(r) \/ MintFails(r) \/ CommitFails(r) \/ Confirmed(r)
                 \/ Rejected(r) \/ VerifiedMerged(r) \/ Unverified(r)
          PROVE  HolderInv'
      BY <2>7, <2>6 DEF ProbeBad, MintFails, CommitFails, Confirmed, Rejected,
                        VerifiedMerged, Unverified, UnverifiedOutcome, BurnState
    <2>8. ASSUME NEW r \in Requests, BurnSync(r) \/ RequestRefused(r) PROVE HolderInv'
      <3>1. UNCHANGED <<of, burn, misread, put>> /\ unsynced' \subseteq unsynced
        BY <2>8 DEF BurnSync, RequestRefused
      <3>2. \/ pc' = [pc EXCEPT ![r] = "closed"]
            \/ pc' = [pc EXCEPT ![r] = "probe"] /\ pc[r] = "burning" /\ unsynced' = {}
        BY <2>8 DEF BurnSync, RequestRefused
      <3>3. \A s \in Requests : Holds(s)' =>
              Holds(s) /\ (pc'[s] = pc[s] \/ pc[s] /= "burning" \/ of[s] \notin unsynced')
        BY <3>1, <3>2 DEF Holds, ReplyInv
      <3> QED BY <3>1, <3>3, <1>1 DEF Burned
    <2>9. ASSUME NEW r \in Requests, ArgumentsRefused(r) PROVE HolderInv'
      <3>1. /\ pc' = [pc EXCEPT ![r] = "closed"] /\ Record(of[r], "not-performed")
            /\ UNCHANGED <<of, put>> /\ unsynced' = {}
        BY <2>9 DEF ArgumentsRefused
      <3>2. \A s \in Requests : Holds(s)' => Holds(s)
        BY <3>1 DEF Holds
      <3> QED BY <3>1, <3>2, <2>5, <1>1 DEF BurnState
    <2>10. ASSUME NEW r \in Requests,
                 ProbeGood(r) \/ Minted(r) \/ Dispatch(r) \/ Ambiguous(r)
          PROVE  HolderInv'
      BY <2>10, <1>1 DEF ProbeGood, Minted, Dispatch, Ambiguous, Holds, Burned, GitHubOK
    <2>11. ASSUME NEW r \in Requests, RequestTimeout(r) \/ ClientGivesUp(r) PROVE HolderInv'
      BY <2>11, <1>1 DEF RequestTimeout, ClientGivesUp, Holds, Burned
    <2> QED
      BY <1>3, <2>1, <2>2, <2>3, <2>4, <2>7, <2>8, <2>9, <2>10, <2>11 DEF Broker
  <1> QED BY <1>2, <1>3 DEF Next

-----------------------------------------------------------------------------
(* What the gateway is told and what the record says.                      *)

\* A request that was told no does not go on to its PUT.
LEMMA AnswerStep ==
    TypeOK /\ ReplyInv /\ AnswerInv /\ [Next]_vars => AnswerInv'
  <1> SUFFICES ASSUME TypeOK, ReplyInv, AnswerInv, [Next]_vars PROVE AnswerInv'
    OBVIOUS
  <1> USE DEF TypeOK, RequestsOK, GitHubOK, AnswerInv, Negative, Goto, Told, broker, github
  \* No request is answered, and one that is over or abandoned stays so.
  <1>1. ASSUME UNCHANGED <<answer, put>>, abandoned \subseteq abandoned',
               \A r \in Requests : pc[r] = "closed" => pc'[r] = "closed"
        PROVE  AnswerInv'
    BY <1>1
  \* A request is answered, at its end or by its timer.
  <1>2. ASSUME NEW r \in Requests, NEW a, Told(r, a), UNCHANGED put,
               abandoned \subseteq abandoned',
               \A s \in Requests : pc[s] = "closed" => pc'[s] = "closed",
               a \in Negative =>
                  \/ put[r] = "failed"
                  \/ put[r] = "none" /\ (pc'[r] = "closed" \/ r \in abandoned')
        PROVE  AnswerInv'
    <2>1. \A s \in Requests : answer'[s] \in Negative =>
             answer[s] \in Negative \/ (s = r /\ a \in Negative)
      BY <1>2
    <2> QED BY <1>2, <2>1
  <1>3. CASE Plane \/ Tick \/ UNCHANGED vars
    BY <1>1, <1>3, Frames DEF vars
  <1>4. CASE GitHub
    <2>1. UNCHANGED <<pc, abandoned, answer>>
      BY <1>4, Frames
    <2>2. \A r \in Requests : put[r] \in {"none", "failed"} => put'[r] = put[r]
      BY <1>4 DEF GitHub, GitHubMerges, GitHubRejects, PullRequestMoves
    <2> QED BY <2>1, <2>2
  <1>5. CASE Broker
    <2>0. ASSUME NEW r \in Requests, pc[r] \notin {"sent", "verify", "closed"}
          PROVE  put[r] = "none"
      BY <2>0 DEF ReplyInv
    <2>1. CASE BrokerStart
      BY <2>1, <1>1 DEF BrokerStart
    <2>2. ASSUME NEW S, Die(S) PROVE AnswerInv'
      BY <2>2 DEF Die
    <2>3. ASSUME NEW r \in Requests,
                 RequestRefused(r) \/ Present(r) \/ BurnSync(r) \/ ArgumentsRefused(r)
          PROVE  AnswerInv'
      <3>1. UNCHANGED <<put, abandoned>> /\ pc[r] \in {"free", "burning"}
        BY <2>3 DEF RequestRefused, Present, BurnSync, ArgumentsRefused
      <3>2. \/ pc' = [pc EXCEPT ![r] = "closed"] /\ Told(r, "refused")
            \/ (\E l : pc' = [pc EXCEPT ![r] = l]) /\ UNCHANGED answer
        BY <2>3 DEF RequestRefused, Present, BurnSync, ArgumentsRefused
      <3> QED BY <3>1, <3>2, <2>0, <1>1, <1>2
    <2>4. ASSUME NEW r \in Requests, NEW st, NEW a, Ends(r, st, a),
                 a \in Negative => put[r] \in {"none", "failed"}
          PROVE  AnswerInv'
      <3>1. UNCHANGED <<put, abandoned>> /\ pc' = [pc EXCEPT ![r] = "closed"] /\ Told(r, a)
        BY <2>4 DEF Ends
      <3> QED BY <2>4, <3>1, <1>2
    <2>5. ASSUME NEW r \in Requests, ProbeBad(r) \/ MintFails(r) \/ CommitFails(r)
          PROVE  AnswerInv'
      BY <2>5, <2>0, <2>4 DEF ProbeBad, MintFails, CommitFails
    <2>6. ASSUME NEW r \in Requests,
                 Confirmed(r) \/ Rejected(r) \/ VerifiedMerged(r) \/ Unverified(r)
          PROVE  AnswerInv'
      BY <2>6, <2>4 DEF Confirmed, Rejected, VerifiedMerged, Unverified, UnverifiedOutcome
    <2>7. ASSUME NEW r \in Requests, ProbeGood(r) \/ Minted(r) \/ Ambiguous(r)
          PROVE  AnswerInv'
      BY <2>7, <1>1 DEF ProbeGood, Minted, Ambiguous
    <2>8. ASSUME NEW r \in Requests, Dispatch(r) PROVE AnswerInv'
      <3>1. put[r] = "none" /\ pc[r] = "commit" /\ r \notin abandoned
        BY <2>8, <2>0 DEF Dispatch, Dispatchable
      <3>2. \A s \in Requests \ {r} : put'[s] = put[s] /\ pc'[s] = pc[s]
        BY <2>8 DEF Dispatch
      <3> QED BY <2>8, <3>1, <3>2 DEF Dispatch
    <2>9. ASSUME NEW r \in Requests, RequestTimeout(r) PROVE AnswerInv'
      <3>1. pc[r] \notin {"sent", "verify"} => put[r] = "none"
        BY <2>9, <2>0 DEF RequestTimeout, Running
      <3> QED BY <2>9, <3>1, <1>2 DEF RequestTimeout
    <2>10. ASSUME NEW r \in Requests, ClientGivesUp(r) PROVE AnswerInv'
      BY <2>10, <1>2 DEF ClientGivesUp
    <2> QED
      BY <1>5, <2>1, <2>2, <2>3, <2>5, <2>6, <2>7, <2>8, <2>9, <2>10
         DEF Broker, BrokerCrash, PowerCut
  <1> QED BY <1>3, <1>4, <1>5 DEF Next

NotPerformed == {"not-performed", "connector-not-performed"}

\* The record of a grant is written by the one request that holds it, and of
\* what became of that request's PUT.
LEMMA RecordStep ==
    TypeOK /\ ReplyInv /\ HolderInv /\ RecordInv /\ [Next]_vars => RecordInv'
  <1> SUFFICES ASSUME TypeOK, ReplyInv, HolderInv, RecordInv, [Next]_vars
               PROVE  RecordInv'
    OBVIOUS
  <1> USE DEF TypeOK, RequestsOK, StoreOK, GitHubOK, Goto, broker, store, github
  \* The record says no more than it did, and nobody comes to hold the grant.
  <1>1. ASSUME of' = of, misread \subseteq misread',
               \A w \in Windows : burn'[w] \in NotPerformed \union {"performed"} =>
                                     burn'[w] = burn[w],
               \A r \in Requests : put[r] \in {"landed", "failed"} => put'[r] = put[r],
               \A r \in Requests : Holds(r)' /\ burn'[of[r]] \in NotPerformed => Holds(r)
        PROVE  RecordInv'
    BY <1>1 DEF RecordInv, NotPerformed
  \* The holder of the grant ends and writes what became of its PUT.
  <1>2. ASSUME NEW r \in Requests, NEW st, Holds(r), Record(of[r], st),
               pc' = [pc EXCEPT ![r] = "closed"], UNCHANGED <<of, put>>,
               st = "performed" => put[r] = "landed",
               st \in NotPerformed => put[r] \in {"none", "failed"}
        PROVE  RecordInv'
    <2>1. \A s \in Requests : Holds(s)' => Holds(s)
      BY <1>2 DEF Holds
    <2>2. misread \subseteq misread'
      BY <1>2 DEF Record
    <2>3. \A w \in Windows \ {of[r]} : burn'[w] = burn[w]
      BY <1>2 DEF Record
    <2>4. burn'[of[r]] \in {st, "unreadable", burn[of[r]]}
      BY <1>2 DEF Record
    <2>5. ASSUME NEW w \in Windows, burn'[w] = "performed", w \notin misread'
          PROVE  \E s \in Requests : of'[s] = w /\ put'[s] = "landed"
      BY <1>2, <2>2, <2>3, <2>4, <2>5 DEF RecordInv
    <2>6. ASSUME NEW w \in Windows, burn'[w] \in NotPerformed, w \notin misread',
                 NEW s \in Requests, of'[s] = w, Holds(s)'
          PROVE  put'[s] = "failed"
      <3>1. w \notin misread /\ Holds(s) /\ of[s] = w
        BY <1>2, <2>1, <2>2, <2>6
      <3>2. CASE burn'[w] = burn[w]
        BY <1>2, <2>6, <3>1, <3>2 DEF RecordInv, NotPerformed
      <3>3. CASE burn'[w] /= burn[w]
        <4>1. w = of[r] /\ burn'[w] = st
          BY <2>3, <2>4, <2>6, <3>3 DEF NotPerformed
        <4>2. s = r
          BY <3>1, <4>1, <1>2 DEF HolderInv
        <4>3. put[r] /= "none"
          BY <1>2, <2>6, <4>2 DEF Holds
        <4> QED BY <1>2, <2>6, <4>1, <4>2, <4>3
      <3> QED BY <3>2, <3>3
    <2> QED BY <2>5, <2>6 DEF RecordInv, NotPerformed
  <1>3. CASE Plane \/ Tick \/ UNCHANGED vars
    BY <1>1, <1>3, Frames DEF vars, Holds
  <1>4. CASE GitHub
    <2>1. UNCHANGED <<pc, of, burn, misread>>
      BY <1>4, Frames
    <2>2. \A r \in Requests : /\ put[r] \in {"landed", "failed"} => put'[r] = put[r]
                              /\ put'[r] /= "none" => put[r] /= "none"
      BY <1>4 DEF GitHub, GitHubMerges, GitHubRejects, PullRequestMoves
    <2> QED BY <2>1, <2>2, <1>1 DEF Holds
  <1>5. CASE Broker
    <2>1. CASE BrokerStart
      BY <2>1, <1>1 DEF BrokerStart, Holds, NotPerformed
    <2>2. ASSUME NEW S, Die(S), \A w \in Windows : burn'[w] \in {"none", burn[w]}
          PROVE  RecordInv'
      <3>1. UNCHANGED <<of, misread, put>>
            /\ pc' = [r \in Requests |-> IF r \in S THEN "closed" ELSE pc[r]]
        BY <2>2 DEF Die
      <3> QED BY <2>2, <3>1, <1>1 DEF Holds, NotPerformed
    <2>3. CASE BrokerCrash
      BY <2>2, <2>3 DEF BrokerCrash
    <2>4. CASE PowerCut
      <3>1. \A w \in Windows : burn'[w] \in {"none", burn[w]}
        BY <2>4 DEF PowerCut
      <3> QED BY <2>2, <2>4, <3>1 DEF PowerCut
    <2>5. ASSUME NEW r \in Requests, Present(r) PROVE RecordInv'
      <3>1. UNCHANGED <<of, misread, put>> /\ pc' \in {[pc EXCEPT ![r] = "closed"],
                                                      [pc EXCEPT ![r] = "burning"]}
        BY <2>5 DEF Present
      <3>2. burn' \in {burn, [burn EXCEPT ![of[r]] = "unreadable"],
                       [burn EXCEPT ![of[r]] = "dispatching"]}
        BY <2>5 DEF Present, BurnFails
      <3>3. pc' = [pc EXCEPT ![r] = "burning"] => burn'[of[r]] = "dispatching"
        BY <2>5 DEF Present
      <3>4. \A s \in Requests : Holds(s)' /\ burn'[of[s]] \in NotPerformed => Holds(s)
        BY <3>1, <3>3 DEF Holds, NotPerformed
      <3>5. \A w \in Windows : burn'[w] \in NotPerformed \union {"performed"} =>
                                  burn'[w] = burn[w]
        BY <3>2 DEF NotPerformed
      <3> QED BY <3>1, <3>4, <3>5, <1>1
    <2>6. ASSUME NEW r \in Requests, RequestRefused(r) PROVE RecordInv'
      BY <2>6, <1>1 DEF RequestRefused, Holds
    <2>7. ASSUME NEW r \in Requests, BurnSync(r) PROVE RecordInv'
      BY <2>7, <1>1 DEF BurnSync, Holds
    <2>8. ASSUME NEW r \in Requests, ArgumentsRefused(r) PROVE RecordInv'
      <3>1. Holds(r) /\ put[r] = "none"
        BY <2>8 DEF ArgumentsRefused, Holds, ReplyInv
      <3> QED BY <2>8, <3>1, <1>2 DEF ArgumentsRefused
    <2>9. ASSUME NEW r \in Requests, ProbeBad(r) \/ MintFails(r) \/ CommitFails(r)
          PROVE  RecordInv'
      <3>1. Holds(r) /\ put[r] = "none"
        BY <2>9 DEF ProbeBad, MintFails, CommitFails, Holds, ReplyInv
      <3> QED BY <2>9, <3>1, <1>2 DEF ProbeBad, MintFails, CommitFails, Ends
    <2>10. ASSUME NEW r \in Requests, Confirmed(r) \/ Rejected(r) PROVE RecordInv'
      <3>1. Holds(r)
        BY <2>10 DEF Confirmed, Rejected, Holds
      <3> QED BY <2>10, <3>1, <1>2 DEF Confirmed, Rejected, Ends, NotPerformed
    <2>11. ASSUME NEW r \in Requests, VerifiedMerged(r) \/ Unverified(r) PROVE RecordInv'
      <3>1. Holds(r)
        BY <2>11 DEF VerifiedMerged, Unverified, Holds
      <3> QED BY <2>11, <3>1, <1>2 DEF VerifiedMerged, Unverified, UnverifiedOutcome, Ends,
                                       NotPerformed
    <2>12. ASSUME NEW r \in Requests, ProbeGood(r) \/ Minted(r) \/ Ambiguous(r)
           PROVE  RecordInv'
      BY <2>12, <1>1 DEF ProbeGood, Minted, Ambiguous, Holds
    <2>13. ASSUME NEW r \in Requests, Dispatch(r) PROVE RecordInv'
      <3>1. put[r] = "none" /\ pc[r] = "commit"
        BY <2>13 DEF Dispatch, ReplyInv
      <3> QED BY <2>13, <3>1, <1>1 DEF Dispatch, Holds
    <2>14. ASSUME NEW r \in Requests, RequestTimeout(r) \/ ClientGivesUp(r)
           PROVE  RecordInv'
      BY <2>14, <1>1 DEF RequestTimeout, ClientGivesUp, Holds
    <2> QED
      BY <1>5, <2>1, <2>3, <2>4, <2>5, <2>6, <2>7, <2>8, <2>9, <2>10, <2>11, <2>12, <2>13,
         <2>14 DEF Broker
  <1> QED BY <1>3, <1>4, <1>5 DEF Next

-----------------------------------------------------------------------------
(* The pull request.                                                       *)

\* A request joins the race on a base that holds, and a retargeting during the
\* race is one the broker cannot have seen.
LEMMA RaceStep == TypeOK /\ ReplyInv /\ RaceInv /\ [Next]_vars => RaceInv'
  <1> SUFFICES ASSUME TypeOK, ReplyInv, RaceInv, [Next]_vars PROVE RaceInv'
    OBVIOUS
  <1> USE DEF TypeOK, RequestsOK, GitHubOK, Goto, broker, github
  <1>1. ASSUME target' = target, of' = of,
               \A r \in Requests : pc'[r] = "commit" \/ put'[r] = "flying" =>
                                     \/ pc[r] = "commit" \/ put[r] = "flying"
                                     \/ target[of[r]] /= "retargeted"
        PROVE  RaceInv'
    BY <1>1 DEF RaceInv, Racing
  <1>2. CASE Plane \/ Tick \/ UNCHANGED vars
    BY <1>1, <1>2, Frames DEF vars
  <1>3. CASE GitHub
    <2>0. UNCHANGED <<pc, of>>
      BY <1>3, Frames
    <2>1. ASSUME NEW r \in Requests, GitHubMerges(r) PROVE RaceInv'
      BY <2>0, <2>1 DEF GitHubMerges, RaceInv, Racing
    <2>2. ASSUME NEW r \in Requests, GitHubRejects(r) PROVE RaceInv'
      BY <2>0, <2>2, <1>1 DEF GitHubRejects
    <2>3. ASSUME NEW w \in Windows, PullRequestMoves(w) PROVE RaceInv'
      <3>1. put' = put /\ \A v \in Windows \ {w} : target'[v] = target[v]
        BY <2>3 DEF PullRequestMoves
      <3>2. Racing(w) /= {} => target'[w] /= "retargeted"
        BY <2>3 DEF PullRequestMoves
      <3> QED BY <2>0, <3>1, <3>2 DEF RaceInv, Racing
    <2> QED BY <1>3, <2>1, <2>2, <2>3 DEF GitHub
  <1>4. CASE Broker
    <2>1. ASSUME NEW r \in Requests, Minted(r) PROVE RaceInv'
      BY <2>1, <1>1 DEF Minted, BaseHolds
    <2>2. ASSUME NEW r \in Requests, Dispatch(r) PROVE RaceInv'
      BY <2>2, <1>1 DEF Dispatch
    <2>3. ASSUME NEW S, Die(S) PROVE RaceInv'
      BY <2>3, <1>1 DEF Die
    <2>4. ASSUME NEW r \in Requests, NEW st, NEW a, Ends(r, st, a) PROVE RaceInv'
      BY <2>4, <1>1 DEF Ends
    <2>5. ASSUME NEW r \in Requests, RequestRefused(r) \/ Present(r) \/ BurnSync(r) \/
                 ArgumentsRefused(r) \/ ProbeGood(r) \/ Ambiguous(r)
          PROVE  RaceInv'
      BY <2>5, <1>1 DEF RequestRefused, Present, BurnSync, ArgumentsRefused, ProbeGood,
                        Ambiguous
    <2>6. ASSUME NEW r \in Requests, RequestTimeout(r) \/ ClientGivesUp(r) PROVE RaceInv'
      BY <2>6, <1>1 DEF RequestTimeout, ClientGivesUp
    <2>7. CASE BrokerStart
      BY <2>7, <1>1 DEF BrokerStart
    <2> QED
      BY <1>4, <2>1, <2>2, <2>3, <2>4, <2>5, <2>6, <2>7 DEF Broker, BrokerCrash, PowerCut,
         ProbeBad, MintFails, CommitFails, Confirmed, Rejected, VerifiedMerged, Unverified
  <1> QED BY <1>2, <1>3, <1>4 DEF Next

-----------------------------------------------------------------------------
(* The theorems.                                                           *)

\* The inductive invariant of the merge lane.
LEMMA MInvHolds == Spec => []MInv
  <1>1. Init => MInv
    <2> SUFFICES ASSUME Init PROVE MInv
      OBVIOUS
    <2>1. Inv
      BY InvInit
    <2>2. /\ \A w \in Windows : approval[w].st = "none"
          /\ \A r \in Requests : reply[r].st = "none"
      BY DEF Init, NoApproval, NoReply
    <2>3. ApprovalInv /\ ReplyInv /\ StaleInv
      BY <2>2 DEF Init, ApprovalInv, ReplyInv, StaleInv
    <2>4. HolderInv /\ AnswerInv /\ RecordInv /\ RaceInv
      BY DEF Init, HolderInv, Holds, AnswerInv, Negative, RecordInv, RaceInv, Racing
    <2> QED BY <2>1, <2>3, <2>4 DEF MInv
  <1>2. MInv /\ [Next]_vars => MInv'
    <2> SUFFICES ASSUME MInv, [Next]_vars PROVE MInv'
      OBVIOUS
    <2> USE DEF MInv, Inv
    <2>1. TypeOK' /\ NoCeremonyWhileKilled'
      BY TypeStep, CeremonyStep
    <2>2. ApprovalInv' /\ ReplyInv' /\ StaleInv'
      BY ApprovalStep, ReplyStep, StaleStep
    <2>3. HolderInv' /\ AnswerInv' /\ RecordInv' /\ RaceInv'
      BY HolderStep, AnswerStep, RecordStep, RaceStep
    <2> QED BY <2>1, <2>2, <2>3
  <1> QED BY <1>1, <1>2, PTL DEF Spec

\* The lane keeps its types, and a killed control plane holds no ceremony,
\* although a kill may land while the request for one drains
\* (postApprovalChallenge).
THEOREM CeremoniesEndWithKill == Spec => []Inv
  BY MInvHolds, PTL DEF MInv

\* One approval, one PUT, for any number of brokers and presentations and
\* through crashes and power cuts (burn(), pruneExpired() and the retention).
THEOREM OnePut == Spec => []OnePutPerGrant
  <1>1. MInv => OnePutPerGrant
    <2> SUFFICES ASSUME MInv, NEW w \in Windows \ misread
                 PROVE  Cardinality(Sent(w)) <= 1
      BY DEF OnePutPerGrant
    <2>1. \A r, s \in Sent(w) : r = s
      BY DEF MInv, HolderInv, Sent, Holds
    <2>2. CASE Sent(w) = {}
      BY <2>2, FS_EmptySet
    <2>3. ASSUME NEW r \in Sent(w) PROVE Cardinality(Sent(w)) <= 1
      <3>1. Sent(w) = {r}
        BY <2>1, <2>3
      <3> QED BY <3>1, FS_Singleton
    <2> QED BY <2>2, <2>3
  <1> QED BY <1>1, MInvHolds, PTL

\* No PUT is ever sent on an approval that the owner vetoed, that a kill ended
\* or that a restart of the control plane forgot (postGrantCommit, postVeto).
THEOREM NoPutWithoutAuthority == Spec => []RevokedMeansUnsent
  <1>1. MInv => RevokedMeansUnsent
    <2> SUFFICES ASSUME MInv PROVE RevokedMeansUnsent
      OBVIOUS
    <2>1. \A w \in Windows : \A r \in Sent(w) : reply[r].st = "yes" /\ of[r] = w /\ r \in Requests
      BY DEF MInv, ReplyInv, Sent
    <2>2. VetoStops
      BY <2>1 DEF MInv, ReplyInv, VetoStops
    <2>3. KillEndsApproval
      BY <2>1 DEF MInv, Inv, TypeOK, PlaneOK, StaleInv, KillEndsApproval
    <2> QED BY <2>2, <2>3 DEF RevokedMeansUnsent
  <1> QED BY <1>1, MInvHolds, PTL

\* What the gateway is told and what the burn record says is what GitHub did
\* (the phases of merge-broker.ts and the outcomes of burn-store.ts).
THEOREM ReportsTrue == Spec => []ReportsAreTrue
  <1>1. MInv => ReportsAreTrue
    <2> SUFFICES ASSUME MInv PROVE ReportsAreTrue
      OBVIOUS
    <2>1. RefusalsAreTrue
      BY DEF MInv, AnswerInv, Negative, RefusalsAreTrue
    <2>2. RecordsAreTrue
      BY DEF MInv, RecordInv, RecordsAreTrue, OutcomeOf, Sent, Holds
    <2> QED BY <2>1, <2>2 DEF ReportsAreTrue
  <1> QED BY <1>1, MInvHolds, PTL

\* GitHub merges the head and the base the owner reviewed, or a base that was
\* changed after the broker's last look (mergePullRequest).
THEOREM MergesReviewed == Spec => MergesWhatWasReviewed
  <1>1. MInv /\ [Next]_vars =>
          [\A r \in Requests : put[r] = "flying" /\ put'[r] = "landed" =>
             target[of[r]] \in {"reviewed", "strays"}]_vars
    <2> SUFFICES ASSUME MInv, [Next]_vars, NEW r \in Requests,
                        put[r] = "flying", put'[r] = "landed"
                 PROVE  target[of[r]] \in {"reviewed", "strays"}
      OBVIOUS
    <2> USE DEF MInv, Inv, TypeOK, RequestsOK, GitHubOK, github
    <2>1. GitHubMerges(r)
      <3>1. CASE Plane \/ Tick \/ UNCHANGED vars
        BY <3>1, Frames DEF vars
      <3>2. CASE Broker
        BY <3>2 DEF Broker, BrokerStart, BrokerCrash, PowerCut, Die, RequestRefused, Present,
           BurnSync, ArgumentsRefused, ProbeGood, ProbeBad, Minted, MintFails, Dispatch,
           CommitFails, Confirmed, Rejected, Ambiguous, VerifiedMerged, Unverified,
           RequestTimeout, ClientGivesUp, Ends
      <3>3. CASE GitHub
        BY <3>3 DEF GitHub, GitHubMerges, GitHubRejects, PullRequestMoves
      <3> QED BY <3>1, <3>2, <3>3 DEF Next
    <2>2. Racing(of[r]) /= {}
      BY DEF Racing
    <2> QED BY <2>1, <2>2 DEF GitHubMerges, HeadHolds, RaceInv, Targets
  <1> QED BY <1>1, MInvHolds, PTL DEF Spec, MergesWhatWasReviewed
=============================================================================
