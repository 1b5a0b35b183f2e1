--------------------------- MODULE RestoreLaneProofs ---------------------------
(***************************************************************************)
(* Proofs about the 2GO restore lane, for every set of owners, agents and  *)
(* ceremony ids, every capacity, every length of a cooldown, a ceremony    *)
(* and a challenge, and every number of kills and restarts: nothing is     *)
(* released within a cooldown of a kill, an owner holds one ceremony of a  *)
(* scope, a challenge is of the present kill, and "ready" is true.         *)
(***************************************************************************)
EXTENDS RestoreLane, FiniteSetTheorems, TLAPS

-----------------------------------------------------------------------------
(* The inductive invariant.                                                *)

\* The types, in parts.
SwitchType ==
    /\ killed \in BOOLEAN /\ quarantineFailed \in BOOLEAN /\ passkey \in BOOLEAN
    /\ epoch \in 0..MaxEpoch /\ agents \in SUBSET Agents
LoginSet == [by : Callers, epoch : 0..MaxEpoch, age : 0..LoginTtl - 1]
LoginType ==
    /\ logins \in SUBSET LoginSet /\ IsFiniteSet(logins)
    /\ Cardinality(logins) <= MaxLogins /\ sessions \in SUBSET Owners
CeremoniesType ==
    /\ ceremonies \in SUBSET Ids /\ draining \in SUBSET Ids
    /\ record \in [Ids -> CeremonyType]
ChallengeSet == [st : {"none", "minted"}, epoch : 0..MaxEpoch, age : 0..ChallengeTtl]
ChallengeType == challenge \in [Ids -> ChallengeSet]
ClockType == killAge \in 0..Cooldown /\ restarts \in 0..MaxRestarts

\* A ceremony that may still be confirmed is of this kill epoch or an older
\* one, and one of this epoch is no older than its kill, up to the cooldown.
CooldownInv ==
    \A id \in Ids : ~record[id].completed =>
        /\ record[id].epoch <= epoch
        /\ record[id].epoch = epoch => killAge >= Cooldown \/ record[id].age <= killAge

\* Of the ceremonies on record that may still be confirmed in this epoch, an
\* owner has one of a scope: the agents of dead ones are killed again only in
\* another epoch.
OneInv ==
    \A i, j \in Live :
        record[i].owner = record[j].owner /\ record[i].scope = record[j].scope => i = j

\* With a passkey there is one owner, and what its live ceremonies are of is
\* still denied.
OwnerInv ==
    passkey =>
        /\ sessions \subseteq {Owner}
        /\ \A id \in Live : record[id].owner = Owner /\ Restorable(record[id])

RInv ==
    /\ SwitchType /\ LoginType /\ CeremoniesType /\ ChallengeType /\ ClockType
    /\ CooldownInv /\ OneInv /\ OwnerInv /\ ChallengeIsOfThisKill
-----------------------------------------------------------------------------
(* Records and challenges.                                                 *)

LEMMA CeremonyShape ==
    ASSUME NEW r \in CeremonyType
    PROVE  /\ r.owner \in Owners \union {Global} /\ r.scope \in Scopes
           /\ r.epoch \in 0..MaxEpoch /\ r.epoch \in Int
           /\ r.age \in 0..Ttl /\ r.age \in Nat /\ r.completed \in BOOLEAN
           /\ MaxEpoch \in Nat /\ Cooldown \in Nat /\ Ttl \in Nat /\ Cooldown < Ttl /\ Cooldown >= 1
  BY TimeAssumption, BoundAssumption DEF CeremonyType

LEMMA NoCeremonyShape ==
    /\ NoCeremony \in CeremonyType /\ NoCeremony.completed = TRUE
    /\ NoChallenge \in ChallengeSet /\ NoChallenge.st = "none"
  BY TimeAssumption, BoundAssumption DEF NoCeremony, CeremonyType, Scopes, NoChallenge, ChallengeSet

LEMMA StartedShape ==
    ASSUME NEW o \in Owners, NEW s \in Scopes, epoch \in 0..MaxEpoch
    PROVE  /\ Ceremony(o, s) \in CeremonyType
           /\ Ceremony(o, s).owner = o /\ Ceremony(o, s).scope = s /\ Ceremony(o, s).epoch = epoch
           /\ Ceremony(o, s).age = 0 /\ Ceremony(o, s).completed = FALSE
           /\ Minted(epoch) \in ChallengeSet /\ Minted(epoch).epoch = epoch
  BY TimeAssumption DEF Ceremony, CeremonyType, Minted, ChallengeSet

LEMMA CompletedShape ==
    ASSUME NEW r \in CeremonyType
    PROVE  /\ [r EXCEPT !.completed = TRUE] \in CeremonyType
           /\ [r EXCEPT !.completed = TRUE].completed = TRUE
  BY DEF CeremonyType

LEMMA AgedShape ==
    ASSUME NEW r \in CeremonyType
    PROVE  LET y == [r EXCEPT !.age = Capped(@, Ttl)]
           IN  /\ y \in CeremonyType /\ y.owner = r.owner /\ y.scope = r.scope
               /\ y.epoch = r.epoch /\ y.completed = r.completed
               /\ y.age >= r.age /\ y.age <= r.age + 1
  <1> DEFINE a == Capped(r.age, Ttl)
             y == [r EXCEPT !.age = a]
  <1>1. a \in 0..Ttl /\ a >= r.age /\ a <= r.age + 1
    BY CeremonyShape DEF Capped
  <1> HIDE DEF a
  <1>2. /\ y \in CeremonyType /\ y.owner = r.owner /\ y.scope = r.scope /\ y.age = a
        /\ y.epoch = r.epoch /\ y.completed = r.completed
    BY <1>1 DEF CeremonyType
  <1> QED BY <1>1, <1>2 DEF a

LEMMA AgedChallenge ==
    ASSUME NEW c \in ChallengeSet
    PROVE  LET y == [c EXCEPT !.age = Capped(@, ChallengeTtl)]
           IN  y \in ChallengeSet /\ y.st = c.st /\ y.epoch = c.epoch
  <1> DEFINE a == Capped(c.age, ChallengeTtl)
             y == [c EXCEPT !.age = a]
  <1>1. a \in 0..ChallengeTtl
    BY TimeAssumption DEF Capped, ChallengeSet
  <1> HIDE DEF a
  <1>2. y \in ChallengeSet /\ y.st = c.st /\ y.epoch = c.epoch
    BY <1>1 DEF ChallengeSet
  <1> QED BY <1>2 DEF a

-----------------------------------------------------------------------------
(* The steps.                                                              *)

\* What a step may do to the switch, the ceremonies and their challenges.
Moves ==
    \/ UNCHANGED <<switch, passkey, ceremonies, record, challenge, draining, killAge, restarts>>
    \/ Killed /\ killed' \in BOOLEAN /\ agents' \in SUBSET Agents
    \/ \E o \in Owners, s \in Scopes : PostCeremonyStart(o, s)
    \/ \E o \in Owners, id \in Ids :
          ChallengeBegin(o, id) \/ PostRestore(o, id) \/ PostRestoreFails(o, id)
    \/ \E id \in Ids : ChallengeEnd(id)
    \/ Restart
    \/ Tick

LEMMA StepMoves ==
    ASSUME SwitchType, [Next]_vars
    PROVE  Moves
  <1>1. CASE Kills
    BY <1>1 DEF Kills, PostKill, PostKillAgent, SwitchType, Moves
  <1>2. CASE Sessions
    BY <1>2 DEF Sessions, PostSessionChallenge, PostSession, CreateOwnerSession, SessionExpires,
                Moves
  <1>3. CASE Ceremonial
    BY <1>3 DEF Ceremonial, Moves
  <1>4. CASE UNCHANGED vars
    BY <1>4 DEF vars, Moves
  <1> QED BY <1>1, <1>2, <1>3, <1>4 DEF Next, Moves

LEMMA SwitchStep ==
    ASSUME SwitchType, Moves, [Next]_vars
    PROVE  SwitchType'
  <1>0. passkey' = passkey
    BY DEF Next, Kills, PostKill, PostKillAgent, Killed, login, Sessions, PostSessionChallenge,
      PostSession, CreateOwnerSession, SessionExpires, Ceremonial, PostCeremonyStart,
      ChallengeBegin, PostRestore, PostRestoreFails, ChallengeEnd, Restart, Tick, vars
  <1>1. CASE Killed /\ killed' \in BOOLEAN /\ agents' \in SUBSET Agents
    <2>1. epoch' \in 0..MaxEpoch
      BY <1>1, BoundAssumption DEF Killed, SwitchType
    <2> QED BY <1>0, <1>1, <2>1 DEF Killed, SwitchType
  <1>2. CASE Restart
    <2>1. 1 \in 0..MaxEpoch
      BY BoundAssumption
    <2> QED BY <1>0, <1>2, <2>1 DEF Restart, SwitchType
  <1>3. ASSUME NEW o \in Owners, NEW id \in Ids, PostRestore(o, id) PROVE SwitchType'
    BY <1>0, <1>3 DEF PostRestore, SwitchType
  <1>4. CASE UNCHANGED switch
    BY <1>0, <1>4 DEF SwitchType, switch
  <1> QED BY <1>1, <1>2, <1>3, <1>4 DEF Moves, PostCeremonyStart, ChallengeBegin,
        PostRestoreFails, ChallengeEnd, Tick

\* The map of login challenges stays within its capacity.
LEMMA LoginStep ==
    ASSUME LoginType, SwitchType, [Next]_vars
    PROVE  LoginType'
  <1> USE DEF LoginType
  <1>1. ASSUME NEW who \in Callers, PostSessionChallenge(who) PROVE LoginType'
    <2> DEFINE c == [by |-> who, epoch |-> epoch, age |-> 0]
    <2>1. c \in LoginSet
      BY TimeAssumption DEF LoginSet, SwitchType
    <2> HIDE DEF c
    <2>2. logins' = logins \union {c} /\ sessions' = sessions /\ Cardinality(logins) < MaxLogins
      BY <1>1 DEF PostSessionChallenge, c
    <2>3. /\ IsFiniteSet(logins')
          /\ Cardinality(logins') = Cardinality(logins) \/ Cardinality(logins') = Cardinality(logins) + 1
      BY <2>2, FS_AddElement
    <2>4. Cardinality(logins) \in Nat
      BY FS_CardinalityType
    <2> QED BY <2>1, <2>2, <2>3, <2>4, RecordsAssumption
  <1>2. ASSUME NEW c \in logins, PostSession(c) PROVE LoginType'
    <2>1. logins' \subseteq logins /\ sessions' \in SUBSET Owners
      BY <1>2, OwnerAssumption DEF PostSession
    <2>2. IsFiniteSet(logins') /\ Cardinality(logins') <= Cardinality(logins)
      BY <2>1, FS_Subset
    <2> QED BY <2>1, <2>2, FS_CardinalityType, RecordsAssumption
  <1>3. ASSUME NEW o \in Owners, CreateOwnerSession(o) \/ SessionExpires(o) PROVE LoginType'
    BY <1>3 DEF CreateOwnerSession, SessionExpires
  <1>4. CASE Restart
    BY <1>4, FS_EmptySet, RecordsAssumption DEF Restart
  <1>5. CASE Tick
    <2> DEFINE S == {x \in logins : x.age + 1 < LoginTtl}
               f == [c \in S |-> [c EXCEPT !.age = @ + 1]]
    <2>1. /\ logins' = {[c EXCEPT !.age = @ + 1] : c \in S} /\ sessions' = sessions
      BY <1>5 DEF Tick
    <2>2. IsFiniteSet(S) /\ Cardinality(S) <= Cardinality(logins)
      BY FS_Subset
    <2>3. ASSUME NEW c \in S PROVE [c EXCEPT !.age = @ + 1] \in LoginSet
      <3>1. c.age + 1 \in 0..LoginTtl - 1
        BY TimeAssumption DEF LoginSet
      <3>2. c \in LoginSet
        OBVIOUS
      <3> DEFINE a == c.age + 1
      <3> HIDE DEF a
      <3>3. [c EXCEPT !.age = a] \in LoginSet
        BY <3>1, <3>2 DEF LoginSet, a
      <3> QED BY <3>3 DEF a
    <2>4. logins' \in SUBSET LoginSet
      BY <2>1, <2>3
    <2>5. f \in [S -> logins'] /\ \A t \in logins' : \E c \in S : f[c] = t
      BY <2>1
    <2> HIDE DEF f, S
    <2>6. f \in Surjection(S, logins')
      BY <2>5 DEF Surjection
    <2>7. IsFiniteSet(logins') /\ Cardinality(logins') <= Cardinality(S)
      BY <2>2, <2>6, FS_Surjection
    <2>8. Cardinality(logins) \in Nat /\ Cardinality(S) \in Nat /\ Cardinality(logins') \in Nat
      BY <2>2, <2>7, FS_CardinalityType
    <2>9. Cardinality(logins') <= MaxLogins
      BY <2>2, <2>7, <2>8, RecordsAssumption
    <2> QED BY <2>1, <2>4, <2>7, <2>9
  <1>6. CASE UNCHANGED <<logins, sessions>>
    BY <1>6
  <1>7. CASE Kills \/ Ceremonial \/ (\E id \in Ids : ChallengeEnd(id)) \/ UNCHANGED vars
    BY <1>6, <1>7 DEF Kills, PostKill, PostKillAgent, Killed, Ceremonial, PostCeremonyStart,
      ChallengeBegin, PostRestore, PostRestoreFails, ChallengeEnd, login, vars
  <1> QED BY <1>1, <1>2, <1>3, <1>4, <1>5, <1>7 DEF Next, Sessions
-----------------------------------------------------------------------------
(* Ceremonies, their clocks and their challenges.                          *)

\* What a start leaves of the map: the live ceremonies as they were, and at
\* most one more, new to every request.
LEMMA StartMoves ==
    ASSUME CeremoniesType, ChallengeType, SwitchType,
           NEW o \in Owners, NEW s \in Scopes, PostCeremonyStart(o, s)
    PROVE  /\ o \in sessions /\ UNCHANGED <<switch, passkey, draining, killAge, restarts>>
           /\ IF s = Global THEN killed ELSE ~killed /\ s \in agents
           /\ \/ ceremonies' = Live /\ record' = Remembered /\ challenge' = Unspent
              \/ /\ Held(o, s) = {}
                 /\ \E id \in Fresh :
                      /\ ceremonies' = Live \union {id}
                      /\ record' = [Remembered EXCEPT ![id] = Ceremony(o, s)]
                      /\ challenge' = [Unspent EXCEPT ![id] = NoChallenge]
           /\ Remembered \in [Ids -> CeremonyType]
           /\ Unspent \in [Ids -> ChallengeSet]
           /\ Fresh \subseteq Ids /\ Live \subseteq Ids /\ Live \subseteq ceremonies
  BY NoCeremonyShape DEF PostCeremonyStart, login, CeremoniesType, ChallengeType, Remembered,
     Unspent, Fresh, Live

LEMMA TypeStep ==
    ASSUME SwitchType, CeremoniesType, ChallengeType, ClockType, Moves
    PROVE  CeremoniesType' /\ ChallengeType' /\ ClockType'
  <1> USE DEF CeremoniesType, ChallengeType, ClockType
  <1> DEFINE Goal == CeremoniesType' /\ ChallengeType' /\ ClockType'
  <1>1. CASE UNCHANGED <<switch, passkey, ceremonies, record, challenge, draining, killAge, restarts>>
    BY <1>1
  <1>2. CASE Killed
    BY <1>2, NoCeremonyShape, TimeAssumption DEF Killed
  <1>3. ASSUME NEW o \in Owners, NEW s \in Scopes, PostCeremonyStart(o, s) PROVE Goal
    <2>1. CASE ceremonies' = Live /\ record' = Remembered /\ challenge' = Unspent
      BY <1>3, <2>1, StartMoves
    <2>2. ASSUME NEW id \in Fresh, ceremonies' = Live \union {id},
                 record' = [Remembered EXCEPT ![id] = Ceremony(o, s)],
                 challenge' = [Unspent EXCEPT ![id] = NoChallenge]
          PROVE  Goal
      <3>1. Ceremony(o, s) \in CeremonyType /\ NoChallenge \in ChallengeSet
        BY StartedShape, NoCeremonyShape DEF SwitchType
      <3> QED BY <1>3, <2>2, <3>1, StartMoves
    <2> QED BY <1>3, <2>1, <2>2, StartMoves
  <1>4. ASSUME NEW o \in Owners, NEW id \in Ids, ChallengeBegin(o, id) PROVE Goal
    BY <1>4 DEF ChallengeBegin
  <1>5. ASSUME NEW o \in Owners, NEW id \in Ids, PostRestore(o, id) PROVE Goal
    <2>1. record' = [record EXCEPT ![id] = [record[id] EXCEPT !.completed = TRUE]]
      BY <1>5 DEF PostRestore, Confirm
    <2>2. [record[id] EXCEPT !.completed = TRUE] \in CeremonyType
      BY CompletedShape
    <2>3. record' \in [Ids -> CeremonyType]
      BY <2>1, <2>2
    <2> QED BY <1>5, <2>3, NoCeremonyShape DEF PostRestore
  <1>6. ASSUME NEW o \in Owners, NEW id \in Ids, PostRestoreFails(o, id) PROVE Goal
    BY <1>6, NoCeremonyShape DEF PostRestoreFails
  <1>7. ASSUME NEW id \in Ids, ChallengeEnd(id) PROVE Goal
    <2>1. Minted(epoch) \in ChallengeSet
      BY TimeAssumption DEF SwitchType, Minted, ChallengeSet
    <2> QED BY <1>7, <2>1 DEF ChallengeEnd
  <1>8. CASE Restart
    BY <1>8, NoCeremonyShape, BoundAssumption, TimeAssumption DEF Restart
  <1>9. CASE Tick
    <2>1. record' \in [Ids -> CeremonyType]
      <3>1. record' = [id \in Ids |-> [record[id] EXCEPT !.age = Capped(@, Ttl)]]
        BY <1>9 DEF Tick
      <3>2. \A id \in Ids : [record[id] EXCEPT !.age = Capped(@, Ttl)] \in CeremonyType
        BY AgedShape
      <3> QED BY <3>1, <3>2
    <2>2. challenge' \in [Ids -> ChallengeSet]
      <3>1. challenge' = [id \in Ids |->
              IF challenge[id].st = "none" THEN challenge[id]
              ELSE [challenge[id] EXCEPT !.age = Capped(@, ChallengeTtl)]]
        BY <1>9 DEF Tick
      <3>2. \A id \in Ids : [challenge[id] EXCEPT !.age = Capped(@, ChallengeTtl)] \in ChallengeSet
        BY AgedChallenge
      <3> QED BY <3>1, <3>2
    <2>3. killAge' \in 0..Cooldown
      BY <1>9, TimeAssumption DEF Tick, Capped
    <2> QED BY <1>9, <2>1, <2>2, <2>3 DEF Tick
  <1> QED BY <1>1, <1>2, <1>3, <1>4, <1>5, <1>6, <1>7, <1>8, <1>9 DEF Moves

\* The same ceremony, perhaps a unit of time older.
Same(x, y) ==
    /\ y.owner = x.owner /\ y.scope = x.scope /\ y.epoch = x.epoch
    /\ y.completed = x.completed /\ y.age >= x.age

\* Between kills and restarts the epoch stays, and the set of live ceremonies
\* changes by the one that starts; each of the others is one that was live.
LEMMA LiveMoves ==
    ASSUME RInv, Moves, ~Killed, ~Restart
    PROVE  /\ epoch' = epoch
           /\ \/ /\ \A id \in Live' : id \in Live /\ Same(record[id], record'[id])
                 /\ \E o \in Owners, id \in Ids : PostRestore(o, id)
              \/ /\ \A id \in Live' : id \in Live /\ Same(record[id], record'[id])
                 /\ UNCHANGED switch
              \/ \E o \in Owners, s \in Scopes : \E id \in Fresh :
                    /\ UNCHANGED switch /\ o \in sessions /\ Held(o, s) = {}
                    /\ IF s = Global THEN killed ELSE ~killed /\ s \in agents
                    /\ record'[id] = Ceremony(o, s)
                    /\ \A j \in Live' \ {id} : j \in Live /\ record'[j] = record[j]
  <1> USE DEF RInv
  <1>0. /\ record \in [Ids -> CeremonyType] /\ ceremonies \subseteq Ids /\ Live \subseteq Ids
        /\ \A id \in Ids : record[id] \in CeremonyType /\ Same(record[id], record[id])
    BY CeremonyShape DEF CeremoniesType, Live, Same
  <1> DEFINE Kept == \A id \in Live' : id \in Live /\ Same(record[id], record'[id])
  <1>1. CASE UNCHANGED <<switch, ceremonies, record>>
    <2>1. Live' = Live
      BY <1>1 DEF Live, Dead, Expired, SameEpoch, switch
    <2> QED BY <1>0, <1>1, <2>1 DEF switch
  <1>2. ASSUME NEW o \in Owners, NEW s \in Scopes, PostCeremonyStart(o, s)
        PROVE  /\ epoch' = epoch
               /\ \/ Kept /\ UNCHANGED switch
                  \/ \E id \in Fresh :
                       /\ UNCHANGED switch /\ o \in sessions /\ Held(o, s) = {}
                       /\ IF s = Global THEN killed ELSE ~killed /\ s \in agents
                       /\ record'[id] = Ceremony(o, s)
                       /\ \A j \in Live' \ {id} : j \in Live /\ record'[j] = record[j]
    <2>0. UNCHANGED switch
      BY <1>2, StartMoves
    <2>1. CASE ceremonies' = Live /\ record' = Remembered
      <3>1. \A id \in Live' : id \in Live
        BY <2>1 DEF Live
      <3>2. \A id \in Live : record'[id] = record[id]
        BY <1>0, <2>1 DEF Remembered
      <3> QED BY <1>0, <2>0, <3>1, <3>2 DEF switch
    <2>2. ASSUME NEW id \in Fresh, ceremonies' = Live \union {id},
                 record' = [Remembered EXCEPT ![id] = Ceremony(o, s)]
          PROVE  /\ record'[id] = Ceremony(o, s)
                 /\ \A j \in Live' \ {id} : j \in Live /\ record'[j] = record[j]
      <3>1. \A j \in Live' : j \in Live \union {id}
        BY <2>2 DEF Live
      <3>2. Remembered \in [Ids -> CeremonyType] /\ id \in Ids
        BY <1>2, StartMoves
      <3>3. \A j \in Live : Remembered[j] = record[j]
        BY <1>0 DEF Remembered
      <3> QED BY <1>0, <2>2, <3>1, <3>2, <3>3
    <2> QED BY <1>2, <2>0, <2>1, <2>2, StartMoves DEF switch
  <1>3. ASSUME NEW o \in Owners, NEW id \in Ids, PostRestore(o, id)
        PROVE  epoch' = epoch /\ Kept
    <2>1. /\ record' = [record EXCEPT ![id] = [record[id] EXCEPT !.completed = TRUE]]
          /\ epoch' = epoch /\ ceremonies' = ceremonies /\ agents' \subseteq agents
      BY <1>3 DEF PostRestore, Confirm
    <2>2. record'[id].completed /\ \A j \in Ids \ {id} : record'[j] = record[j]
      BY <1>0, <2>1, CompletedShape
    <2>3. \A j \in Live' : j \in Live /\ record'[j] = record[j]
      BY <1>0, <2>1, <2>2 DEF Live, Dead, Expired, SameEpoch
    <2> QED BY <1>0, <2>1, <2>3
  <1>4. ASSUME NEW o \in Owners, NEW id \in Ids, ChallengeBegin(o, id) \/ PostRestoreFails(o, id)
        PROVE  UNCHANGED <<switch, ceremonies, record>>
    BY <1>4 DEF ChallengeBegin, PostRestoreFails
  <1>5. ASSUME NEW id \in Ids, ChallengeEnd(id) PROVE UNCHANGED <<switch, ceremonies, record>>
    BY <1>5 DEF ChallengeEnd
  <1>6. CASE Tick
    <2>1. /\ UNCHANGED <<switch, ceremonies>>
          /\ \A id \in Ids : record'[id] = [record[id] EXCEPT !.age = Capped(@, Ttl)]
      BY <1>6 DEF Tick
    <2>2. \A id \in Ids : Same(record[id], record'[id]) /\ record'[id] \in CeremonyType
      BY <1>0, <2>1, AgedShape DEF Same
    <2>3. \A id \in Live' : id \in Live
      <3> SUFFICES ASSUME NEW id \in Live' PROVE id \in Live
        OBVIOUS
      <3>1. id \in Ids /\ id \in ceremonies
        BY <1>0, <2>1 DEF Live
      <3>2. /\ record[id].age \in Nat /\ record'[id].age \in Nat /\ Ttl \in Nat
            /\ Same(record[id], record'[id])
        BY <1>0, <2>2, <3>1, CeremonyShape
      <3> QED BY <2>1, <3>1, <3>2 DEF Live, Dead, Expired, SameEpoch, Same, switch
    <2> QED BY <1>0, <2>1, <2>2, <2>3 DEF switch
  <1>7. UNCHANGED <<switch, passkey, ceremonies, record, challenge, draining, killAge, restarts>>
          => UNCHANGED <<switch, ceremonies, record>>
    OBVIOUS
  <1> HIDE DEF Kept
  <1> QED BY <1>1, <1>2, <1>3, <1>4, <1>5, <1>6, <1>7 DEF Moves, Kept

\* After a kill nothing is live, and after a restart nothing is on record.
LEMMA DeadMoves ==
    ASSUME RInv, Killed \/ Restart
    PROVE  Live' = {}
  <1> USE DEF RInv
  <1>1. CASE Restart
    BY <1>1 DEF Restart, Live
  <1>2. CASE Killed
    <2>1. epoch' = epoch + 1 /\ ceremonies' = ceremonies /\ record' = record
      BY <1>2 DEF Killed
    <2>2. \A id \in Ids : ~record[id].completed => record[id].epoch <= epoch
      BY DEF CooldownInv
    <2>3. \A id \in ceremonies : id \in Ids /\ record[id].epoch \in Int
      BY CeremonyShape DEF CeremoniesType
    <2>4. epoch \in Int
      BY BoundAssumption DEF SwitchType
    <2> QED BY <2>1, <2>2, <2>3, <2>4 DEF Live, Dead, SameEpoch
  <1> QED BY <1>1, <1>2

LEMMA OneStep ==
    ASSUME RInv, Moves
    PROVE  OneInv'
  <1> USE DEF RInv
  <1>1. CASE Killed \/ Restart
    BY <1>1, DeadMoves DEF OneInv
  <1>2. CASE \A id \in Live' : id \in Live /\ Same(record[id], record'[id])
    BY <1>2 DEF OneInv, Same
  <1>3. ASSUME NEW o \in Owners, NEW s \in Scopes, NEW id \in Fresh, Held(o, s) = {},
               record'[id] = Ceremony(o, s),
               \A j \in Live' \ {id} : j \in Live /\ record'[j] = record[j]
        PROVE  OneInv'
    <2>1. record'[id].owner = o /\ record'[id].scope = s
      BY <1>3 DEF Ceremony
    <2>2. \A j \in Live : ~(record[j].owner = o /\ record[j].scope = s)
      BY <1>3 DEF Held
    <2> QED BY <1>3, <2>1, <2>2 DEF OneInv
  <1> QED BY <1>1, <1>2, <1>3, LiveMoves

LEMMA OwnerStep ==
    ASSUME RInv, Moves, passkey' = passkey, passkey => sessions' \subseteq {Owner}
    PROVE  OwnerInv'
  <1> USE DEF RInv
  <1> SUFFICES ASSUME passkey, NEW id \in Live'
               PROVE  record'[id].owner = Owner /\ Restorable(record[id])'
    BY DEF OwnerInv
  <1>0. sessions \subseteq {Owner}
    BY DEF OwnerInv
  <1>1. CASE Killed \/ Restart
    BY <1>1, DeadMoves
  <1>2. CASE /\ \A j \in Live' : j \in Live /\ Same(record[j], record'[j])
             /\ UNCHANGED switch
    BY <1>2 DEF OwnerInv, Restorable, Same, switch
  <1>3. ASSUME NEW o \in Owners, NEW k \in Ids, PostRestore(o, k), epoch' = epoch,
               \A j \in Live' : j \in Live /\ Same(record[j], record'[j])
        PROVE  record'[id].owner = Owner /\ Restorable(record[id])'
    <2>1. id \in Live /\ Same(record[id], record'[id])
      BY <1>3
    <2>2. record[id].owner = Owner /\ Restorable(record[id]) /\ record'[id].owner = Owner
      BY <2>1 DEF OwnerInv, Same
    <2>3. /\ o = Owner /\ k \in ceremonies /\ record[k].owner = o /\ SameEpoch(record[k])
          /\ Restorable(record[k]) /\ Ready(record[k])
      BY <1>0, <1>3 DEF PostRestore, Spendable
    <2>4. record[k].scope /= Global => record[k].scope \in agents
      BY <2>3 DEF Restorable
    <2>5. k \in Live
      BY <2>3, <2>4 DEF Live, Dead, Ready
    <2>6. k /= id
      <3>1. record'[k].completed
        BY <1>3, CompletedShape DEF PostRestore, Confirm, CeremoniesType
      <3>2. ~record'[id].completed
        BY DEF Live, Dead
      <3> QED BY <3>1, <3>2
    <2>7. record[k].scope /= record[id].scope
      BY <2>1, <2>2, <2>3, <2>5, <2>6 DEF OneInv
    <2>8. IF record[k].scope = Global THEN killed' = FALSE /\ UNCHANGED agents
          ELSE agents' = agents \ {record[k].scope} /\ UNCHANGED killed
      BY <1>3 DEF PostRestore
    <2>9. CASE record[k].scope = Global
      BY <2>2, <2>3, <2>7, <2>9 DEF Restorable
    <2>10. CASE record[k].scope /= Global
      BY <2>1, <2>2, <2>3, <2>7, <2>8, <2>10 DEF Restorable, Same
    <2> QED BY <2>9, <2>10
  <1>4. ASSUME NEW o \in Owners, NEW s \in Scopes, NEW k \in Fresh,
               UNCHANGED switch, o \in sessions,
               IF s = Global THEN killed ELSE ~killed /\ s \in agents,
               record'[k] = Ceremony(o, s),
               \A j \in Live' \ {k} : j \in Live /\ record'[j] = record[j]
        PROVE  record'[id].owner = Owner /\ Restorable(record[id])'
    <2>1. CASE id = k
      <3>1. record'[id].owner = o /\ record'[id].scope = s
        BY <1>4, <2>1 DEF Ceremony
      <3> QED BY <1>0, <1>4, <3>1 DEF Restorable, switch
    <2>2. CASE id /= k
      BY <1>4, <2>2 DEF OwnerInv, Restorable, switch
    <2> QED BY <2>1, <2>2
  <1> QED BY <1>1, <1>2, <1>3, <1>4, LiveMoves

\* The clock of a ceremony that may still be confirmed runs no further than
\* that of the last kill.
LEMMA CooldownStep ==
    ASSUME RInv, Moves
    PROVE  CooldownInv'
  <1> USE DEF RInv
  <1>0. /\ record \in [Ids -> CeremonyType] /\ epoch \in Int /\ killAge \in Nat /\ Cooldown \in Nat
        /\ \A id \in Ids : record[id].epoch \in Int /\ record[id].age \in Nat
    BY CeremonyShape, TimeAssumption, BoundAssumption DEF CeremoniesType, SwitchType, ClockType
  <1> SUFFICES ASSUME NEW id \in Ids, ~record'[id].completed
               PROVE  /\ record'[id].epoch <= epoch'
                      /\ record'[id].epoch = epoch' => killAge' >= Cooldown \/ record'[id].age <= killAge'
    BY DEF CooldownInv
  <1>1. CASE UNCHANGED <<epoch, killAge>> /\ record'[id] = record[id]
    BY <1>1 DEF CooldownInv
  <1>2. CASE Killed
    <2>1. epoch' = epoch + 1 /\ record' = record
      BY <1>2 DEF Killed
    <2> QED BY <1>0, <2>1 DEF CooldownInv
  <1>3. ASSUME NEW o \in Owners, NEW s \in Scopes, PostCeremonyStart(o, s)
        PROVE  \/ UNCHANGED <<epoch, killAge>> /\ record'[id] = record[id]
               \/ record'[id].epoch = epoch' /\ record'[id].age = 0 /\ killAge' = killAge /\ epoch' = epoch
    <2>1. Remembered[id] \in {record[id], NoCeremony} /\ Remembered \in [Ids -> CeremonyType]
      BY <1>3, StartMoves DEF Remembered
    <2>2. \/ record' = Remembered
          \/ \E k \in Fresh : k \in Ids /\ record' = [Remembered EXCEPT ![k] = Ceremony(o, s)]
      BY <1>3, StartMoves
    <2>3. record'[id] = Remembered[id] \/ record'[id] = Ceremony(o, s)
      BY <2>1, <2>2
    <2>4. UNCHANGED <<epoch, killAge>>
      BY <1>3, StartMoves DEF switch
    <2> QED BY <2>1, <2>3, <2>4, NoCeremonyShape DEF Ceremony
  <1>4. ASSUME NEW o \in Owners, NEW k \in Ids, PostRestore(o, k)
        PROVE  UNCHANGED <<epoch, killAge>> /\ record'[id] = record[id]
    <2>1. /\ record' = [record EXCEPT ![k] = [record[k] EXCEPT !.completed = TRUE]]
          /\ UNCHANGED <<epoch, killAge>>
      BY <1>4 DEF PostRestore, Confirm
    <2>2. k /= id
      BY <1>0, <2>1, CompletedShape
    <2> QED BY <1>0, <2>1, <2>2
  <1>5. ASSUME NEW o \in Owners, NEW k \in Ids, ChallengeBegin(o, k) \/ PostRestoreFails(o, k)
        PROVE  UNCHANGED <<epoch, killAge>> /\ record'[id] = record[id]
    BY <1>5 DEF ChallengeBegin, PostRestoreFails, switch
  <1>6. ASSUME NEW k \in Ids, ChallengeEnd(k)
        PROVE  UNCHANGED <<epoch, killAge>> /\ record'[id] = record[id]
    BY <1>6 DEF ChallengeEnd, switch
  <1>7. ~Restart
    BY NoCeremonyShape DEF Restart
  <1>8. CASE Tick
    <2>1. /\ epoch' = epoch /\ killAge' = Capped(killAge, Cooldown)
          /\ record'[id] = [record[id] EXCEPT !.age = Capped(@, Ttl)]
      BY <1>8 DEF Tick, switch
    <2>2. /\ record'[id].epoch = record[id].epoch /\ record'[id].completed = record[id].completed
          /\ record'[id].age \in Nat /\ record'[id].age <= record[id].age + 1
      <3>1. record'[id] \in CeremonyType
        BY <1>0, <2>1, AgedShape
      <3>2. record'[id].age \in Nat
        BY <3>1, CeremonyShape
      <3> QED BY <1>0, <2>1, <3>2, AgedShape
    <2>3. killAge' >= Cooldown \/ killAge' = killAge + 1
      BY <1>0, <2>1 DEF Capped
    <2> QED BY <1>0, <2>1, <2>2, <2>3 DEF CooldownInv
  <1>9. CASE UNCHANGED <<switch, passkey, ceremonies, record, challenge, draining, killAge, restarts>>
    BY <1>1, <1>9 DEF switch
  <1>10. ASSUME record'[id].epoch = epoch', record'[id].age = 0, killAge' = killAge, epoch' = epoch
         PROVE  /\ record'[id].epoch <= epoch'
                /\ record'[id].epoch = epoch' => killAge' >= Cooldown \/ record'[id].age <= killAge'
    BY <1>0, <1>10
  <1> QED BY <1>1, <1>2, <1>3, <1>4, <1>5, <1>6, <1>7, <1>8, <1>9, <1>10 DEF Moves

\* A challenge stays of the present kill, and its ceremony past its cooldown.
LEMMA ChallengeStep ==
    ASSUME RInv, Moves
    PROVE  ChallengeIsOfThisKill'
  <1> USE DEF RInv
  <1>0. /\ record \in [Ids -> CeremonyType] /\ challenge \in [Ids -> ChallengeSet]
        /\ \A id \in Ids : /\ record[id].age \in Nat /\ record[id].completed \in BOOLEAN
                           /\ record[id].epoch \in Int
        /\ Cooldown \in Nat
    BY CeremonyShape, TimeAssumption DEF CeremoniesType, ChallengeType
  <1> SUFFICES ASSUME NEW id \in Ids, challenge'[id].st /= "none"
               PROVE  /\ challenge'[id].epoch = epoch' /\ record'[id].epoch = epoch'
                      /\ record'[id].age >= Cooldown /\ ~record'[id].completed
    BY DEF ChallengeIsOfThisKill
  <1>1. CASE /\ epoch' = epoch /\ challenge'[id].epoch = challenge[id].epoch
             /\ challenge'[id].st = challenge[id].st /\ Same(record[id], record'[id])
             /\ record'[id].age \in Nat
    <2>1. /\ challenge[id].epoch = epoch /\ record[id].epoch = epoch
          /\ record[id].age >= Cooldown /\ ~record[id].completed
      BY <1>1 DEF ChallengeIsOfThisKill
    <2> QED BY <1>0, <1>1, <2>1 DEF Same
  <1>2. CASE UNCHANGED <<epoch, record>> /\ challenge'[id] = challenge[id]
    BY <1>2 DEF ChallengeIsOfThisKill
  <1>3. ~Killed /\ ~Restart
    BY NoCeremonyShape DEF Killed, Restart
  <1>4. ASSUME NEW o \in Owners, NEW s \in Scopes, PostCeremonyStart(o, s)
        PROVE  /\ epoch' = epoch /\ challenge'[id] = challenge[id]
               /\ record'[id] = record[id]
    <2>1. epoch' = epoch
      BY <1>4, StartMoves DEF switch
    <2>2. /\ Unspent[id] = IF id \in Live THEN challenge[id] ELSE NoChallenge
          /\ id \in Live => Remembered[id] = record[id]
          /\ Unspent \in [Ids -> ChallengeSet] /\ Remembered \in [Ids -> CeremonyType]
      BY <1>4, StartMoves DEF Unspent, Remembered
    <2>3. CASE record' = Remembered /\ challenge' = Unspent
      BY <2>1, <2>2, <2>3, NoCeremonyShape
    <2>4. ASSUME NEW k \in Fresh, k \in Ids,
                 record' = [Remembered EXCEPT ![k] = Ceremony(o, s)],
                 challenge' = [Unspent EXCEPT ![k] = NoChallenge]
          PROVE  challenge'[id] = challenge[id] /\ record'[id] = record[id]
      <3>1. k /= id
        BY <2>2, <2>4, NoCeremonyShape
      <3> QED BY <2>2, <2>4, <3>1, NoCeremonyShape
    <2> QED BY <1>4, <2>1, <2>3, <2>4, StartMoves
  <1>5. ASSUME NEW o \in Owners, NEW k \in Ids, ChallengeBegin(o, k)
        PROVE  UNCHANGED <<epoch, record>> /\ challenge'[id] = challenge[id]
    BY <1>5 DEF ChallengeBegin, switch
  <1>6. ASSUME NEW o \in Owners, NEW k \in Ids, PostRestore(o, k)
        PROVE  /\ epoch' = epoch /\ challenge'[id] = challenge[id]
               /\ record'[id] = record[id]
    <2>1. /\ record' = [record EXCEPT ![k] = [record[k] EXCEPT !.completed = TRUE]]
          /\ challenge' = [challenge EXCEPT ![k] = NoChallenge] /\ epoch' = epoch
      BY <1>6 DEF PostRestore, Confirm
    <2>2. k /= id
      BY <1>0, <2>1, NoCeremonyShape
    <2> QED BY <1>0, <2>1, <2>2
  <1>7. ASSUME NEW o \in Owners, NEW k \in Ids, PostRestoreFails(o, k)
        PROVE  UNCHANGED <<epoch, record>> /\ challenge'[id] = challenge[id]
    <2>1. challenge' = [challenge EXCEPT ![k] = NoChallenge] /\ UNCHANGED <<epoch, record>>
      BY <1>7 DEF PostRestoreFails, switch
    <2>2. k /= id
      BY <1>0, <2>1, NoCeremonyShape
    <2> QED BY <1>0, <2>1, <2>2
  <1>8. ASSUME NEW k \in Ids, ChallengeEnd(k)
        PROVE  /\ UNCHANGED <<epoch, record>>
               /\ \/ challenge'[id] = challenge[id]
                  \/ challenge'[id] = Minted(epoch) /\ SameEpoch(record[id]) /\ Ready(record[id])
    <2>1. /\ UNCHANGED <<epoch, record>>
          /\ \/ /\ SameEpoch(record[k]) /\ Ready(record[k])
                /\ challenge' = [challenge EXCEPT ![k] = Minted(epoch)]
             \/ challenge' = challenge
      BY <1>8 DEF ChallengeEnd, switch
    <2> QED BY <1>0, <2>1
  <1>9. ASSUME UNCHANGED <<epoch, record>>, challenge'[id] = Minted(epoch),
               SameEpoch(record[id]), Ready(record[id])
        PROVE  /\ challenge'[id].epoch = epoch' /\ record'[id].epoch = epoch'
               /\ record'[id].age >= Cooldown /\ ~record'[id].completed
    BY <1>9 DEF Minted, SameEpoch, Ready
  <1>10. ASSUME Tick
         PROVE  /\ epoch' = epoch /\ challenge'[id].epoch = challenge[id].epoch
                /\ challenge'[id].st = challenge[id].st /\ Same(record[id], record'[id])
                /\ record'[id].age \in Nat
    <2>1. /\ epoch' = epoch /\ record'[id] = [record[id] EXCEPT !.age = Capped(@, Ttl)]
          /\ challenge'[id] = IF challenge[id].st = "none" THEN challenge[id]
                              ELSE [challenge[id] EXCEPT !.age = Capped(@, ChallengeTtl)]
      BY <1>10 DEF Tick, switch
    <2>2. challenge'[id].epoch = challenge[id].epoch /\ challenge'[id].st = challenge[id].st
      BY <1>0, <2>1, AgedChallenge
    <2>3. Same(record[id], record'[id]) /\ record'[id] \in CeremonyType
      BY <1>0, <2>1, AgedShape DEF Same
    <2>4. record'[id].age \in Nat
      BY <2>3, CeremonyShape
    <2> QED BY <2>1, <2>2, <2>3, <2>4
  <1>11. ASSUME epoch' = epoch, challenge'[id] = challenge[id], record'[id] = record[id]
         PROVE  /\ challenge'[id].epoch = epoch' /\ record'[id].epoch = epoch'
                /\ record'[id].age >= Cooldown /\ ~record'[id].completed
    BY <1>11 DEF ChallengeIsOfThisKill
  <1>12. CASE UNCHANGED <<switch, passkey, ceremonies, record, challenge, draining, killAge, restarts>>
    BY <1>2, <1>12 DEF switch
  <1> QED BY <1>1, <1>2, <1>3, <1>4, <1>5, <1>6, <1>7, <1>8, <1>9, <1>10, <1>11, <1>12 DEF Moves

-----------------------------------------------------------------------------
(* The invariant.                                                          *)

LEMMA RInvInit == Init => RInv
  <1> SUFFICES ASSUME Init PROVE RInv
    OBVIOUS
  <1>1. SwitchType
    <2>1. 0 \in 0..MaxEpoch
      BY BoundAssumption
    <2> QED BY <2>1 DEF Init, SwitchType
  <1>2. LoginType
    BY FS_EmptySet, RecordsAssumption DEF Init, LoginType
  <1>3. CeremoniesType /\ ChallengeType
    BY NoCeremonyShape DEF Init, CeremoniesType, ChallengeType
  <1>4. ClockType
    BY TimeAssumption, BoundAssumption DEF Init, ClockType
  <1>5. Live = {}
    BY DEF Init, Live
  <1>6. CooldownInv /\ ChallengeIsOfThisKill
    BY NoCeremonyShape DEF Init, CooldownInv, ChallengeIsOfThisKill
  <1>7. OneInv /\ OwnerInv
    BY <1>5 DEF Init, OneInv, OwnerInv
  <1> QED BY <1>1, <1>2, <1>3, <1>4, <1>6, <1>7 DEF RInv

LEMMA RInvStep == RInv /\ [Next]_vars => RInv'
  <1> SUFFICES ASSUME RInv, [Next]_vars PROVE RInv'
    OBVIOUS
  <1>1. Moves
    BY StepMoves DEF RInv
  <1>2. SwitchType' /\ LoginType'
    BY <1>1, SwitchStep, LoginStep DEF RInv
  <1>3. CeremoniesType' /\ ChallengeType' /\ ClockType'
    BY <1>1, TypeStep DEF RInv
  <1>4. OneInv' /\ CooldownInv' /\ ChallengeIsOfThisKill'
    BY <1>1, OneStep, CooldownStep, ChallengeStep
  <1>5. passkey' = passkey /\ (passkey => sessions' \subseteq {Owner})
    <2>1. passkey => sessions \subseteq {Owner}
      BY DEF RInv, OwnerInv
    <2> QED BY <2>1 DEF Next, Kills, PostKill, PostKillAgent, Killed, login, Sessions,
      PostSessionChallenge, PostSession, CreateOwnerSession, SessionExpires, Ceremonial,
      PostCeremonyStart, ChallengeBegin, PostRestore, PostRestoreFails, ChallengeEnd, Restart,
      Tick, vars
  <1>6. OwnerInv'
    BY <1>1, <1>5, OwnerStep
  <1> QED BY <1>2, <1>3, <1>4, <1>6 DEF RInv

LEMMA RInvHolds == Spec => []RInv
  BY RInvInit, RInvStep, PTL DEF Spec
-----------------------------------------------------------------------------
(* What the restore lane promises.                                         *)

\* The map and the challenges stay within their bounds; an owner holds one
\* live ceremony of a scope; a challenge on record belongs to a ceremony of
\* the present kill past its cooldown; and one shown as ready restores
\* something (postCeremonyStart, postRestoreChallenge, getCeremony).
THEOREM CeremoniesSound == Spec => []Inv
  <1>1. RInv => Inv
    <2> SUFFICES ASSUME RInv PROVE Inv
      OBVIOUS
    <2>1. TypeOK
      BY DEF RInv, SwitchType, LoginType, LoginSet, CeremoniesType, ChallengeType, ChallengeSet,
             ClockType, TypeOK
    <2>2. OneLiveCeremony
      <3> SUFFICES ASSUME NEW o \in Owners, NEW s \in Scopes PROVE Cardinality(Held(o, s)) <= 1
        BY DEF OneLiveCeremony
      <3>1. CASE Held(o, s) = {}
        BY <3>1, FS_EmptySet
      <3>2. CASE Held(o, s) /= {}
        <4>1. PICK id : id \in Held(o, s)
          BY <3>2
        <4>2. \A j \in Held(o, s) : j = id
          BY <4>1 DEF Held, RInv, OneInv
        <4>3. Held(o, s) = {id}
          BY <4>1, <4>2
        <4>4. Cardinality(Held(o, s)) = 1
          BY <4>3, FS_Singleton, Zenon
        <4> QED BY <4>4
      <3> QED BY <3>1, <3>2
    <2>3. ReadyRestores
      <3> SUFFICES ASSUME passkey, NEW id \in ceremonies, Shown(record[id]) = "ready"
                   PROVE  Restorable(record[id])
        BY DEF ReadyRestores
      <3>1. ~record[id].completed /\ ~Dead(record[id])
        BY DEF Shown, Dead
      <3>2. id \in Live
        BY <3>1 DEF Live
      <3> QED BY <3>2 DEF RInv, OwnerInv
    <2> QED BY <2>1, <2>2, <2>3 DEF Inv, RInv
  <1> QED BY <1>1, RInvHolds, PTL

\* Nothing is released, globally or for one agent, within a cooldown of the
\* latest kill of any kind, however kills, ceremonies, requests under way and
\* restarts interleave (postRestore, confirm).
THEOREM CooldownKept == Spec => CooldownAfterEveryKill
  <1>1. RInv /\ [Next]_vars => [Freed => killAge >= Cooldown]_vars
    <2> SUFFICES ASSUME RInv, [Next]_vars, Freed PROVE killAge >= Cooldown
      OBVIOUS
    <2>1. Moves
      BY StepMoves DEF RInv
    <2>2. \E o \in Owners, id \in Ids : PostRestore(o, id)
      <3>1. ~UNCHANGED <<killed, agents>> /\ ~(killed' = TRUE)
        BY DEF Freed
      <3>2. ~Kills
        BY DEF Freed, Kills, PostKill, PostKillAgent, RInv, SwitchType
      <3> QED BY <2>1, <3>1, <3>2 DEF Next, Sessions, PostSessionChallenge, PostSession,
          CreateOwnerSession, SessionExpires, Ceremonial, PostCeremonyStart, ChallengeBegin,
          PostRestoreFails, ChallengeEnd, Restart, Tick, switch, vars
    <2>3. PICK o \in Owners, id \in Ids : PostRestore(o, id)
      BY <2>2
    <2>4. /\ ~record[id].completed /\ record[id].age >= Cooldown /\ record[id].epoch = epoch
      BY <2>3 DEF PostRestore, Spendable, Ready, SameEpoch
    <2>5. record[id].age \in Nat /\ killAge \in Nat /\ Cooldown \in Nat
      BY CeremonyShape, TimeAssumption DEF RInv, CeremoniesType, ClockType
    <2> QED BY <2>4, <2>5 DEF RInv, CooldownInv
  <1> QED BY <1>1, RInvHolds, PTL DEF Spec, CooldownAfterEveryKill
=============================================================================
