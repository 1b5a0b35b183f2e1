----------------------------- MODULE RestoreLane -----------------------------
(***************************************************************************)
(* The 2GO restore lane of the control plane: the ceremony of twogo.ts and *)
(* the handlers of server.ts around it (POST /restore/ceremony, POST       *)
(* /restore/ceremony/:id/challenge, POST /restore, POST /kill).            *)
(*                                                                         *)
(* Handlers run on one event loop.  What a handler does after its last     *)
(* await is one action; a handler that decides something before an await   *)
(* and uses it after is two (ChallengeBegin, ChallengeEnd).  A request may *)
(* be made at any time by whoever holds an owner's session, the owner or   *)
(* not; only the owner's authenticator makes a good assertion.             *)
(*                                                                         *)
(* Time is relative: every ceremony and challenge carries its age, capped  *)
(* where it expires, and Tick advances them together.                      *)
(*                                                                         *)
(* Abstracted: the kill switch keeps its answer (killed, epoch, agents,    *)
(* quarantineFailed); its store is KillSwitch.tla.  Challenge values and   *)
(* credentials are not modelled: an assertion is good or not for the       *)
(* challenge on record.  A license is in order when it is looked at, or    *)
(* it is not.                                                              *)
(***************************************************************************)
EXTENDS Naturals, FiniteSets

CONSTANTS
    Owners,        \* owner ids
    Owner,         \* the one owner a passkey logs in
    Agents,        \* agents that can be scope-killed
    Global,        \* the scope of a ceremony without agentId
    Ids,           \* ceremony ids (a finite pool stands for random UUIDs)
    MaxRecords,    \* MAX_CEREMONY_RECORDS
    MaxLogins,     \* MAX_LOGIN_CHALLENGES
    Cooldown,      \* cooldownMs
    Ttl,           \* ttlMs
    ChallengeTtl,  \* RESTORE_CHALLENGE_TTL_MS
    LoginTtl,      \* LOGIN_CHALLENGE_TTL_MS
    MaxEpoch,      \* bound on kills (model bound, not in the code)
    MaxRestarts    \* bound on process restarts (model bound)

ASSUME GlobalAssumption == Global \notin Agents
ASSUME OwnerAssumption == Owner \in Owners
ASSUME TimeAssumption ==
    /\ Cooldown \in Nat \ {0} /\ Ttl \in Nat /\ ChallengeTtl \in Nat \ {0} /\ LoginTtl \in Nat \ {0}
    /\ Cooldown < Ttl
ASSUME RecordsAssumption == MaxRecords \in Nat \ {0} /\ MaxLogins \in Nat \ {0}
ASSUME BoundAssumption == MaxEpoch \in Nat \ {0} /\ MaxRestarts \in Nat

VARIABLES
    killed, epoch, agents,  \* the kill switch
    quarantineFailed,       \* stale state may survive a restart
    passkey,                \* an owner passkey is enrolled (fixed at start)
    logins,                 \* loginChallenges: who asked, in which kill epoch
    sessions,               \* owners with a live session
    ceremonies,             \* ids in the map of ceremonies
    record,                 \* the ceremony behind an id
    challenge,              \* restoreChallenges
    draining,               \* ids whose challenge request awaits its body
    killAge,                \* history: time since the last kill
    restarts                \* number of restarts so far

switch == <<killed, epoch, agents, quarantineFailed>>
login == <<passkey, logins, sessions>>
vars == <<switch, passkey, logins, sessions, ceremonies, record, challenge, draining,
          killAge, restarts>>

Scopes == Agents \union {Global}

-----------------------------------------------------------------------------
(* RestoreCeremony.                                                        *)

Ceremony(o, s) ==
    [owner |-> o, scope |-> s, epoch |-> epoch, age |-> 0, completed |-> FALSE]
NoCeremony ==
    [owner |-> Global, scope |-> Global, epoch |-> 0, age |-> Ttl, completed |-> TRUE]

Expired(r) == r.age >= Ttl
Ready(r) == ~r.completed /\ r.age >= Cooldown /\ ~Expired(r)

\* There is something for the ceremony to restore.
Restorable(r) ==
    IF r.scope = Global THEN killed ELSE ~killed /\ r.scope \in agents

\* Mutant: the epoch of the ceremony is not compared.
SameEpochAny(r) == TRUE

SameEpoch(r) == r.epoch = epoch

\* What the start of a ceremony purges.
Dead(r) ==
    \/ Expired(r)
    \/ r.completed
    \/ ~SameEpoch(r)
    \/ r.scope /= Global /\ r.scope \notin agents

(* restoreChallenges: absent or minted.                                    *)
NoChallenge == [st |-> "none", epoch |-> 0, age |-> 0]
Minted(e) == [st |-> "minted", epoch |-> e, age |-> 0]

-----------------------------------------------------------------------------
Init ==
    /\ killed = FALSE /\ epoch = 0 /\ agents = {} /\ quarantineFailed = FALSE
    /\ passkey \in BOOLEAN
    /\ logins = {} /\ sessions = {}
    /\ ceremonies = {}
    /\ record = [id \in Ids |-> NoCeremony]
    /\ challenge = [id \in Ids |-> NoChallenge]
    /\ draining = {}
    /\ killAge = Cooldown
    /\ restarts = 0

(* Kills: POST /kill and every other engage() of server.ts.                *)

Killed ==
    /\ epoch < MaxEpoch
    /\ epoch' = epoch + 1
    /\ quarantineFailed' \in BOOLEAN
    /\ challenge' = [id \in Ids |-> NoChallenge]
    /\ killAge' = 0
    /\ UNCHANGED <<login, ceremonies, record, draining, restarts>>

PostKill == Killed /\ killed' = TRUE /\ UNCHANGED agents

PostKillAgent(a) == Killed /\ agents' = agents \union {a} /\ UNCHANGED killed

-----------------------------------------------------------------------------
(* Sessions.  With a passkey the one way to a session is to log in with    *)
(* it, killed or not; without one the process that embeds the server makes *)
(* its sessions.                                                           *)

Callers == {"owner", "other"}

\* Mutant: nobody logs in while the switch is killed.
PostSessionChallengeUnkilled(who) ==
    /\ passkey /\ ~killed
    /\ Cardinality(logins) < MaxLogins
    /\ logins' = logins \union {[by |-> who, epoch |-> epoch, age |-> 0]}
    /\ UNCHANGED <<switch, passkey, sessions, ceremonies, record, challenge, draining,
                   killAge, restarts>>

\* Anyone may ask; a full map refuses the owner like any other.
PostSessionChallenge(who) ==
    /\ passkey
    /\ Cardinality(logins) < MaxLogins
    /\ logins' = logins \union {[by |-> who, epoch |-> epoch, age |-> 0]}
    /\ UNCHANGED <<switch, passkey, sessions, ceremonies, record, challenge, draining,
                   killAge, restarts>>

\* The challenge is spent first.  The owner's assertion over one of this kill
\* epoch makes a session; any other, or one out of the counter's order, none.
PostSession(c) ==
    /\ passkey /\ c \in logins
    /\ logins' = logins \ {c}
    /\ \/ c.by = "owner" /\ c.epoch = epoch /\ sessions' = sessions \union {Owner}
       \/ UNCHANGED sessions
    /\ UNCHANGED <<switch, passkey, ceremonies, record, challenge, draining,
                   killAge, restarts>>

CreateOwnerSession(o) ==
    /\ ~passkey /\ o \notin sessions
    /\ sessions' = sessions \union {o}
    /\ UNCHANGED <<switch, passkey, logins, ceremonies, record, challenge, draining,
                   killAge, restarts>>

SessionExpires(o) ==
    /\ o \in sessions
    /\ sessions' = sessions \ {o}
    /\ UNCHANGED <<switch, passkey, logins, ceremonies, record, challenge, draining,
                   killAge, restarts>>

-----------------------------------------------------------------------------
(* GO 1/2.                                                                 *)

Live == {id \in ceremonies : ~Dead(record[id])}

\* This owner's live ceremony of this scope.
Held(o, s) == {id \in Live : record[id].owner = o /\ record[id].scope = s}

\* Ids no request refers to: a random id is never met twice.
Fresh == Ids \ (Live \union draining)

Full == Cardinality(Live) >= MaxRecords

\* The purge of every accepted start: what is dead is forgotten, with the
\* challenge that could only be spent on it.
Remembered == [id \in Ids |-> IF id \in Live \union draining THEN record[id] ELSE NoCeremony]
Unspent == [id \in Ids |-> IF id \in Live THEN challenge[id] ELSE NoChallenge]

\* The ceremony an owner already holds is returned with its clocks untouched,
\* license or not.
PostCeremonyStart(o, s) ==
    /\ o \in sessions
    /\ IF s = Global THEN killed ELSE ~killed /\ s \in agents
    /\ \/ ceremonies' = Live /\ record' = Remembered /\ challenge' = Unspent  \* held or refused
       \/ /\ Held(o, s) = {} /\ ~Full                                        \* a license in order
          /\ \E id \in Fresh :
              /\ ceremonies' = Live \union {id}
              /\ record' = [Remembered EXCEPT ![id] = Ceremony(o, s)]
              /\ challenge' = [Unspent EXCEPT ![id] = NoChallenge]
    /\ UNCHANGED <<switch, login, draining, killAge, restarts>>

\* What GET /restore/ceremony/:id answers; it changes nothing.
Shown(r) ==
    CASE r.completed -> "consumed"
      [] ~r.completed /\ (Dead(r) \/ Expired(r)) -> "expired"
      [] ~r.completed /\ ~Dead(r) -> IF Ready(r) THEN "ready" ELSE "cooldown"

-----------------------------------------------------------------------------
(* The GO 2/2 challenge.                                                   *)

ChallengeBegin(o, id) ==
    /\ o \in sessions /\ passkey /\ ~quarantineFailed
    /\ id \in ceremonies /\ record[id].owner = o
    /\ Restorable(record[id]) /\ SameEpoch(record[id])
    /\ draining' = draining \union {id}
    /\ UNCHANGED <<switch, login, ceremonies, record, challenge,
                   killAge, restarts>>

\* Mutant: what was checked before the body drained is not checked again.
ChallengeEndUnchecked(id) ==
    /\ id \in draining
    /\ draining' = draining \ {id}
    /\ challenge' = [challenge EXCEPT ![id] = Minted(epoch)]
    /\ UNCHANGED <<switch, login, ceremonies, record, killAge, restarts>>

\* After the body has drained: the checks again, on the record read before.
ChallengeEnd(id) ==
    /\ id \in draining
    /\ draining' = draining \ {id}
    /\ LET r == record[id] IN
       \/ /\ Restorable(r) /\ SameEpoch(r) /\ Ready(r)
          /\ challenge' = [challenge EXCEPT ![id] = Minted(epoch)]
       \/ /\ ~(Restorable(r) /\ SameEpoch(r) /\ Ready(r))
          /\ UNCHANGED challenge
    /\ UNCHANGED <<switch, login, ceremonies, record, killAge, restarts>>

-----------------------------------------------------------------------------
(* GO 2/2.                                                                 *)

\* The checks before the challenge is spent.
Spendable(o, id) ==
    /\ o \in sessions /\ ~quarantineFailed
    /\ id \in ceremonies
    /\ record[id].owner = o
    /\ SameEpoch(record[id])
    /\ Restorable(record[id])

\* A live challenge of this epoch; the owner's assertion over it is good.
Asserted(c) == c.st = "minted" /\ c.age < ChallengeTtl /\ c.epoch = epoch

\* confirm(): only a ready ceremony, and only once.
Confirm(id) == record' = [record EXCEPT ![id].completed = TRUE]

PostRestore(o, id) ==
    /\ Spendable(o, id)
    /\ passkey => Asserted(challenge[id])
    /\ Ready(record[id])
    /\ Confirm(id)
    /\ challenge' = [challenge EXCEPT ![id] = NoChallenge]
    /\ IF record[id].scope = Global
       THEN killed' = FALSE /\ UNCHANGED agents
       ELSE agents' = agents \ {record[id].scope} /\ UNCHANGED killed
    /\ quarantineFailed' \in BOOLEAN
    /\ UNCHANGED <<epoch, login, ceremonies, draining, killAge, restarts>>

\* An attempt that fails after the first checks has spent the challenge: no
\* live challenge, a bad assertion, or a ceremony that is not ready.
PostRestoreFails(o, id) ==
    /\ Spendable(o, id) /\ passkey
    /\ challenge[id] /= NoChallenge
    /\ challenge' = [challenge EXCEPT ![id] = NoChallenge]
    /\ UNCHANGED <<switch, login, ceremonies, record, draining,
                   killAge, restarts>>

-----------------------------------------------------------------------------
(* Restart: everything but the kill switch is process-local.  The switch   *)
(* comes back as it was or, fail-closed, killed at epoch 1 with no scoped  *)
(* kills (KillSwitch.tla).                                                 *)

Restart ==
    /\ restarts < MaxRestarts
    /\ restarts' = restarts + 1
    /\ \/ UNCHANGED <<killed, epoch, agents, killAge>>
       \/ killed' = TRUE /\ epoch' = 1 /\ agents' = {} /\ killAge' = 0
    /\ quarantineFailed' = FALSE
    /\ logins' = {} /\ sessions' = {}
    /\ ceremonies' = {} /\ draining' = {}
    /\ record' = [id \in Ids |-> NoCeremony]
    /\ challenge' = [id \in Ids |-> NoChallenge]
    /\ UNCHANGED passkey

\* An age is counted up to the point where it expires.
Capped(n, max) == IF n < max THEN n + 1 ELSE n

\* A login challenge past its time is as good as swept: every mint sweeps first.
Tick ==
    /\ logins' = {[c EXCEPT !.age = @ + 1] : c \in {x \in logins : x.age + 1 < LoginTtl}}
    /\ record' = [id \in Ids |-> [record[id] EXCEPT !.age = Capped(@, Ttl)]]
    /\ challenge' = [id \in Ids |->
         IF challenge[id].st = "none" THEN challenge[id]
         ELSE [challenge[id] EXCEPT !.age = Capped(@, ChallengeTtl)]]
    /\ killAge' = Capped(killAge, Cooldown)
    /\ UNCHANGED <<switch, passkey, sessions, ceremonies, draining, restarts>>

-----------------------------------------------------------------------------
Kills == PostKill \/ \E a \in Agents : PostKillAgent(a)

Sessions ==
    \/ \E who \in Callers : PostSessionChallenge(who)
    \/ \E c \in logins : PostSession(c)
    \/ \E o \in Owners : CreateOwnerSession(o) \/ SessionExpires(o)

Ceremonial ==
    \E o \in Owners :
        \/ \E s \in Scopes : PostCeremonyStart(o, s)
        \/ \E id \in Ids :
            \/ ChallengeBegin(o, id)
            \/ PostRestore(o, id)
            \/ PostRestoreFails(o, id)

Next ==
    \/ Kills
    \/ Sessions
    \/ Ceremonial
    \/ \E id \in Ids : ChallengeEnd(id)
    \/ Restart
    \/ Tick

Spec == Init /\ [][Next]_vars

-----------------------------------------------------------------------------
(* Fairness: time passes and the server finishes a request it has begun;   *)
(* the owner logs in and keeps trying, is not for ever too late or refused *)
(* for want of a license, and in the end a session outlasts a restore.     *)
(* Nothing else is fair: whoever holds a session, or asks for challenges   *)
(* without one, may do as it likes in between.  MaxEpoch makes the kills   *)
(* end.                                                                    *)

LogsIn == \E c \in logins : PostSession(c) /\ Owner \in sessions'
Starts == PostCeremonyStart(Owner, Global) /\ Held(Owner, Global)' /= {}
Owned == {id \in Ids : record[id].owner = Owner}

OwnerTries ==
    /\ SF_vars(PostSessionChallenge("owner") \/ CreateOwnerSession(Owner))
    /\ SF_vars(LogsIn)
    /\ <>[][~SessionExpires(Owner)]_vars
    /\ SF_vars(Starts)
    /\ SF_vars(\E id \in Ids : ChallengeBegin(Owner, id) /\ Ready(record[id]))
    /\ SF_vars(\E id \in Owned : ChallengeEnd(id) /\ challenge' /= challenge)
    /\ SF_vars(\E id \in Ids : PostRestore(Owner, id))

Fairness ==
    /\ WF_vars(Tick)
    /\ WF_vars(\E id \in Ids : ChallengeEnd(id))
    /\ OwnerTries

FairSpec == Spec /\ Fairness

-----------------------------------------------------------------------------
(* Properties.                                                             *)

CeremonyType ==
    [owner : Owners \union {Global}, scope : Scopes, epoch : 0..MaxEpoch,
     age : 0..Ttl, completed : BOOLEAN]

\* The types of the variables; the map of ceremonies and the restore
\* challenges stay within their ids.
TypeOK ==
    /\ killed \in BOOLEAN /\ quarantineFailed \in BOOLEAN /\ passkey \in BOOLEAN
    /\ epoch \in 0..MaxEpoch
    /\ agents \in SUBSET Agents
    /\ logins \in SUBSET [by : Callers, epoch : 0..MaxEpoch, age : 0..LoginTtl - 1]
    /\ Cardinality(logins) <= MaxLogins
    /\ sessions \in SUBSET Owners
    /\ ceremonies \in SUBSET Ids /\ draining \in SUBSET Ids
    /\ record \in [Ids -> CeremonyType]
    /\ challenge \in [Ids -> [st : {"none", "minted"},
                              epoch : 0..MaxEpoch, age : 0..ChallengeTtl]]
    /\ killAge \in 0..Cooldown
    /\ restarts \in 0..MaxRestarts

\* Something that was denied is denied no more.
Freed ==
    ~killed' /\ (killed \/ \E a \in agents : a \notin agents')

\* Nothing is released, globally or for one agent, within a cooldown of the
\* latest kill of any kind: a ceremony counts only in the epoch it started
\* in, so every kill makes every owner wait again (postRestore, confirm).
CooldownAfterEveryKill == [][Freed => killAge >= Cooldown]_vars

\* A restore challenge on record belongs to a ceremony of the present kill
\* epoch that is past its cooldown and not consumed, although a kill or a
\* restore may land while the request for it drains (postRestoreChallenge).
ChallengeIsOfThisKill ==
    \A id \in Ids : challenge[id].st /= "none" =>
        /\ challenge[id].epoch = epoch
        /\ record[id].epoch = epoch
        /\ record[id].age >= Cooldown
        /\ ~record[id].completed

\* An owner never holds two live ceremonies of one scope: there is one
\* cooldown to wait for, and one to reset (postCeremonyStart).
OneLiveCeremony ==
    \A o \in Owners, s \in Scopes : Cardinality(Held(o, s)) <= 1

\* What an owner is shown of its ceremony is true: one shown as ready restores
\* something (getCeremony against postRestore).  It would not be with two owners,
\* of whom one restores while the other's ceremony waits.
ReadyRestores ==
    passkey => \A id \in ceremonies : Shown(record[id]) = "ready" => Restorable(record[id])

\* The shape of the state, the ceremonies an owner holds and their challenges.
Inv == TypeOK /\ OneLiveCeremony /\ ChallengeIsOfThisKill /\ ReadyRestores

\* An owner that keeps trying ends a global kill, whatever the holders of
\* sessions do, unless a failed quarantine keeps restores denied.
RestoreEventually == killed ~> (~killed \/ quarantineFailed)
=============================================================================
