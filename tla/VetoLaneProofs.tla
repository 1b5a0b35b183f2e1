---------------------------- MODULE VetoLaneProofs ----------------------------
(***************************************************************************)
(* Proofs about the ordinary veto window, for every set of windows and of  *)
(* devices, every length of a window, of its extension and of the floor,   *)
(* and every number of kills: the owner had time, a served release is of a *)
(* world without a kill, and a severed device stays severed.               *)
(***************************************************************************)
EXTENDS VetoLane, TLAPS

-----------------------------------------------------------------------------
(* The inductive invariant.                                                *)

\* One window: its evidence is of the showing on record, and has stood, or
\* will have stood at the deadline, for the floor's time.
Good(x) ==
    /\ x \in WindowType
    /\ x.st = "pending" => x.revision = 1
    /\ Delivered(x) => x.shown = x.revision
    /\ Open(x) /\ Delivered(x) => x.seen >= Floor \/ x.seen + x.left >= Floor
    /\ x.st = "released" => x.seen >= Floor

\* What a kill leaves behind: a window it crossed is of an older epoch, and a
\* window of the present epoch was neither registered nor released under one.
EpochInv ==
    \A w \in Windows :
        /\ w \in crossed => window[w].st /= "unborn"
        /\ Known(w) =>
              /\ window[w].epoch <= epoch
              /\ w \in crossed => window[w].epoch < epoch
              /\ window[w].epoch = epoch =>
                    ~scoped /\ (window[w].st = "released" => ~killed)

\* A release that was served stands until the process ends.
ServedInv == \A w \in served : window[w].st \in {"released", "gone"}

\* A promised revocation is on the disk, whatever a power cut leaves of it, or
\* the switch is killed; and a process that reads it from there, or has lost
\* its history and so writes nothing, trusts the device no more.
PromiseInv ==
    /\ ~up => ~quarantined
    /\ \A d \in promised : killed \/ Written(d)
    /\ up => \A d \in Devices : Written(d) =>
          \/ standing[d] = "revoked"
          \/ ~quarantined /\ \A e \in Devices : standing[e] /= "active"

VInv ==
    /\ TypeOK
    /\ \A w \in Windows : Good(window[w])
    /\ EpochInv /\ ServedInv /\ PromiseInv
-----------------------------------------------------------------------------
(* One window.                                                             *)

\* A window is a record of these fields.
LEMMA WindowShape ==
    ASSUME NEW x \in WindowType
    PROVE  /\ x.st \in Status /\ x.left \in Int /\ x.left >= -Extension
           /\ x.left <= WindowMs + Extension /\ x.revision \in 1..2
           /\ x.epoch \in 0..MaxEpoch /\ x.by \in Devices \union {NoDevice}
           /\ x.shown \in 0..2 /\ x.seen \in 0..Floor /\ x.seen \in Int
           /\ WindowMs \in Nat /\ Extension \in Nat /\ Floor \in Nat /\ Floor >= 1 /\ Extension >= 1
  BY TimeAssumption, BoundAssumption DEF WindowType

\* What the calls of one window's handlers make of it: the epoch stays, a
\* final status stays, and a release comes of a witness.
Next1(x, y, S) ==
    /\ Good(y) /\ y.epoch = x.epoch
    /\ ~Open(x) => y = x
    /\ Open(x) => y.st \in {"pending", "extended", "released", "held", "vetoed"}
    /\ y.st = "released" /\ x.st /= "released" => S /= {}

LEMMA EndedGood ==
    ASSUME NEW x, Good(x), Open(x), NEW st \in {"released", "held", "vetoed"},
           st = "released" => Delivered(x) /\ x.left <= 0,
           NEW S, st = "released" => S /= {}
    PROVE  Next1(x, Ended(x, st), S)
  <1>1. x \in WindowType
    BY DEF Good
  <1> DEFINE y == Ended(x, st)
  <1>2. /\ y \in WindowType /\ y.st = st /\ y.by = x.by /\ y.shown = x.shown
        /\ y.revision = x.revision /\ y.seen = x.seen /\ y.epoch = x.epoch
    <2>1. 0 \in -Extension .. (WindowMs + Extension)
      BY TimeAssumption
    <2> QED BY <1>1, <2>1 DEF Ended, WindowType, Status
  <1>3. st = "released" => x.seen >= Floor
    BY <1>1, WindowShape DEF Good
  <1>4. Delivered(x) => x.shown = x.revision
    BY DEF Good
  <1> HIDE DEF y
  <1>5. Good(y)
    BY <1>2, <1>3, <1>4 DEF Good, Open, Delivered
  <1>6. Next1(x, y, S)
    BY <1>2, <1>5 DEF Next1
  <1> QED BY <1>6 DEF y

LEMMA ClearedGood ==
    ASSUME NEW x, Good(x), Open(x), NEW S
    PROVE  Next1(x, Cleared(x), S) /\ Cleared(x).left = x.left /\ Open(Cleared(x))
  <1>1. x \in WindowType
    BY DEF Good
  <1> DEFINE y == Cleared(x)
  <1>2. /\ y \in WindowType /\ y.st = x.st /\ y.by = NoDevice /\ y.left = x.left
        /\ y.revision = x.revision /\ y.epoch = x.epoch
    <2>1. 0 \in 0..2 /\ 0 \in 0..Floor
      BY TimeAssumption
    <2> QED BY <1>1, <2>1 DEF Cleared, WindowType
  <1> HIDE DEF y
  <1>3. x.st \in {"pending", "extended"} /\ (x.st = "pending" => x.revision = 1)
    BY DEF Good, Open
  <1>4. Good(y) /\ Open(y)
    BY <1>2, <1>3 DEF Good, Open, Delivered
  <1>5. Next1(x, y, S)
    BY <1>2, <1>3, <1>4 DEF Next1, Open
  <1> QED BY <1>2, <1>4, <1>5 DEF y

LEMMA OverdueGood ==
    ASSUME NEW x, Good(x), Open(x), ~Delivered(x), x.left <= 0, NEW S
    PROVE  Next1(x, Overdue(x), S)
  <1>1. x \in WindowType
    BY DEF Good
  <1>2. CASE x.st = "pending"
    <2> DEFINE y == [x EXCEPT !.st = "extended", !.left = @ + Extension, !.revision = @ + 1]
    <2>1. /\ y \in WindowType /\ y.st = "extended" /\ y.by = x.by /\ y.epoch = x.epoch
      <3>1. x.left + Extension \in -Extension .. (WindowMs + Extension) /\ x.revision + 1 \in 1..2
        BY <1>1, <1>2, WindowShape DEF Good
      <3> QED BY <1>1, <3>1 DEF WindowType, Status
    <2>2. Overdue(x) = y
      BY <1>2 DEF Overdue
    <2> HIDE DEF y
    <2> QED BY <2>1, <2>2 DEF Next1, Good, Open, Delivered
  <1>3. CASE x.st /= "pending"
    BY <1>3, EndedGood DEF Overdue
  <1> QED BY <1>2, <1>3

\* The lazy tick.
LEMMA TickedGood ==
    ASSUME NEW x, Good(x), NEW S \in SUBSET Devices
    PROVE  Next1(x, Ticked(x, S), S)
  <1>1. CASE ~Open(x) \/ x.left > 0
    BY <1>1 DEF Next1, Ticked, Open
  <1>2. CASE Open(x) /\ ~(x.left > 0)
    <2>1. x.left <= 0
      BY <1>2, WindowShape DEF Good
    <2>2. CASE x.by \in S
      <3>1. Delivered(x)
        BY <2>2, DeviceAssumption DEF Delivered
      <3> QED BY <1>2, <2>1, <2>2, <3>1, EndedGood DEF Ticked
    <2>3. CASE x.by \notin S
      <3>1. Next1(x, Cleared(x), S) /\ Cleared(x).left = x.left /\ Open(Cleared(x))
        BY <1>2, ClearedGood
      <3>2. ~Delivered(Cleared(x)) /\ Good(Cleared(x))
        <4>1. x \in WindowType
          BY DEF Good
        <4>2. Cleared(x).by = NoDevice
          BY <4>1 DEF Cleared, WindowType
        <4> QED BY <3>1, <4>2 DEF Delivered, Next1
      <3>3. Next1(Cleared(x), Overdue(Cleared(x)), S)
        BY <2>1, <3>1, <3>2, OverdueGood
      <3>4. Ticked(x, S) = Overdue(Cleared(x))
        BY <1>2, <2>3 DEF Ticked
      <3> QED BY <1>2, <3>1, <3>3, <3>4 DEF Next1, Open
    <2> QED BY <2>2, <2>3
  <1> QED BY <1>1, <1>2

\* The tick of a revocation.
LEMMA SeveredGood ==
    ASSUME NEW x, Good(x), NEW d, Witnesses \subseteq Devices
    PROVE  Next1(x, Severed(x, d), Witnesses)
  <1> DEFINE y == Ticked(x, Witnesses \ {d})
  <1>1. Next1(x, y, Witnesses \ {d})
    BY TickedGood
  <1> HIDE DEF y
  <1>2. CASE Open(y) /\ y.by = d
    <2>1. Next1(y, Cleared(y), Witnesses) /\ Open(Cleared(y)) /\ Severed(x, d) = Cleared(y)
      BY <1>1, <1>2, ClearedGood DEF Next1, Severed, y
    <2> QED BY <1>1, <1>2, <2>1 DEF Next1, Open
  <1>3. CASE ~(Open(y) /\ y.by = d)
    BY <1>1, <1>3 DEF Next1, Severed, y
  <1> QED BY <1>2, <1>3

\* A confirmation that is taken.
LEMMA AckedGood ==
    ASSUME NEW x, Good(x), NEW d \in Devices, NEW v, v.revision \in 0..2, Acceptable(x, v), NEW S
    PROVE  Next1(x, [x EXCEPT !.by = d, !.shown = v.revision], S)
  <1>1. x \in WindowType /\ Open(x) /\ v.revision = x.revision /\ x.left >= Floor
    BY DEF Good, Acceptable, Current, InTime
  <1> DEFINE y == [x EXCEPT !.by = d, !.shown = v.revision]
  <1>2. /\ y \in WindowType /\ y.st = x.st /\ y.by = d /\ y.shown = v.revision /\ y.left = x.left
        /\ y.revision = x.revision /\ y.seen = x.seen /\ y.epoch = x.epoch
    BY <1>1 DEF WindowType
  <1>3. x.seen + x.left >= Floor
    BY <1>1, WindowShape
  <1> HIDE DEF y
  <1>4. x.st \in {"pending", "extended"} /\ (x.st = "pending" => x.revision = 1)
    BY <1>1 DEF Good, Open
  <1>5. Good(y)
    BY <1>1, <1>2, <1>3, <1>4 DEF Good, Open, Delivered
  <1>6. Next1(x, y, S)
    BY <1>2, <1>4, <1>5 DEF Next1, Open
  <1> QED BY <1>6 DEF y

\* A unit of time.
LEMMA NearerGood ==
    ASSUME NEW x, Good(x), NEW S
    PROVE  Next1(x, Nearer(x), S)
  <1>1. CASE ~Open(x)
    BY <1>1 DEF Nearer, Next1
  <1>2. CASE Open(x)
    <2>1. x \in WindowType
      BY DEF Good
    <2> DEFINE l == IF x.left > -Extension THEN x.left - 1 ELSE x.left
               s == IF Delivered(x) /\ x.left > 0 /\ x.seen < Floor THEN x.seen + 1 ELSE x.seen
               y == [x EXCEPT !.left = l, !.seen = s]
    <2>2. l \in -Extension .. (WindowMs + Extension) /\ s \in 0..Floor
      BY <2>1, WindowShape
    <2>3. Delivered(x) => s >= Floor \/ s + l >= Floor
      BY <1>2, <2>1, WindowShape DEF Good
    <2>4. Nearer(x) = y
      BY <1>2 DEF Nearer
    <2> HIDE DEF l, s
    <2>5. /\ y \in WindowType /\ y.st = x.st /\ y.by = x.by /\ y.shown = x.shown /\ y.left = l
          /\ y.revision = x.revision /\ y.seen = s /\ y.epoch = x.epoch
      BY <2>1, <2>2 DEF WindowType
    <2> HIDE DEF y
    <2> QED BY <1>2, <2>3, <2>4, <2>5 DEF Next1, Good, Open, Delivered
  <1> QED BY <1>1, <1>2
-----------------------------------------------------------------------------
(* The steps.                                                              *)

LEMMA WitnessesTrusted ==
    ASSUME enrolled \subseteq Devices
    PROVE  Witnesses \subseteq Devices /\ (Witnesses /= {} => ~killed)
  BY DEF Witnesses

\* The handlers of the review and the clock leave the switch, the registry,
\* the disk and what was promised alone.
LEMMA LooksOnly ==
    ASSUME Review \/ Tick
    PROVE  UNCHANGED <<up, switch, registry, disk, crossed, promised>>
  BY DEF Review, Tick, GetVetoPending, PostRegisterVeto, GetVeto, PostVeto, GetVetoDetail,
         ReAck, Ack, history

\* What a step may do to the windows.
WindowMoves ==
    \/ /\ window' = [w \in Windows |-> window'[w]]
       /\ \A w \in Windows : Next1(window[w], window'[w], Witnesses)
    \/ \E v \in Windows : PostRegisterVeto(v)
    \/ Die

LEMMA StillMoves ==
    ASSUME window \in [Windows -> WindowType], \A w \in Windows : Good(window[w]),
           UNCHANGED window
    PROVE  WindowMoves
  BY DEF WindowMoves, Next1, Open

\* A change of one window.
LEMMA OneMoves ==
    ASSUME window \in [Windows -> WindowType], \A w \in Windows : Good(window[w]),
           NEW v \in Windows, NEW x, Next1(window[v], x, Witnesses),
           window' = [window EXCEPT ![v] = x]
    PROVE  WindowMoves
  <1>1. /\ \A w \in Windows : window'[w] = IF w = v THEN x ELSE window[w]
        /\ window' = [w \in Windows |-> window'[w]]
    OBVIOUS
  <1> QED BY <1>1 DEF WindowMoves, Next1, Open

LEMMA WindowStep ==
    ASSUME VInv, [Next]_vars
    PROVE  WindowMoves
  <1> USE DEF VInv
  <1>0. window \in [Windows -> WindowType] /\ \A w \in Windows : Good(window[w])
    BY DEF TypeOK
  <1>00. Witnesses \subseteq Devices
    BY WitnessesTrusted DEF TypeOK
  <1>1. CASE Boots \/ Switch \/ Damage \/ UNCHANGED vars
    <2>1. UNCHANGED window
      BY <1>1 DEF Boots, Boot, BootRefused, BootCorrupt, Switch, PostKill, PostKillAgent,
                  PostRestore, Damage, vars
    <2> QED BY <1>0, <2>1, StillMoves
  <1>2. CASE Crash \/ PowerCut
    BY <1>2 DEF Crash, PowerCut, WindowMoves
  <1>3. CASE Tick
    <2>1. \A w \in Windows : Next1(window[w], window'[w], Witnesses)
      BY <1>3, <1>0, NearerGood DEF Tick
    <2> QED BY <1>3, <2>1 DEF WindowMoves, Tick
  <1>4. CASE GetVetoPending
    <2>1. \A w \in Windows : Next1(window[w], window'[w], Witnesses)
      BY <1>4, <1>0, <1>00, TickedGood DEF GetVetoPending
    <2> QED BY <1>4, <2>1 DEF WindowMoves, GetVetoPending
  <1>5. ASSUME NEW w \in Windows, PostRegisterVeto(w) PROVE WindowMoves
    BY <1>5 DEF WindowMoves
  <1>6. ASSUME NEW w \in Windows, GetVeto(w) PROVE WindowMoves
    <2>1. Next1(window[w], Ticked(window[w], Witnesses), Witnesses)
      BY <1>0, <1>00, TickedGood
    <2>2. window' = [window EXCEPT ![w] = Ticked(window[w], Witnesses)]
      BY <1>6 DEF GetVeto
    <2> QED BY <1>0, <2>1, <2>2, OneMoves
  <1>7. ASSUME NEW w \in Windows, PostVeto(w) PROVE WindowMoves
    <2>1. Next1(window[w], Ended(window[w], "vetoed"), Witnesses)
      BY <1>0, <1>7, EndedGood DEF PostVeto, Vetoable
    <2>2. window' = [window EXCEPT ![w] = Ended(window[w], "vetoed")]
      BY <1>7 DEF PostVeto
    <2> QED BY <1>0, <2>1, <2>2, OneMoves
  <1>8. ASSUME NEW w \in Windows, NEW d \in Devices, GetVetoDetail(w, d) \/ ReAck(w, d)
        PROVE  WindowMoves
    <2>1. Next1(window[w], Ticked(window[w], Witnesses), Witnesses)
      BY <1>0, <1>00, TickedGood
    <2>2. window' = [window EXCEPT ![w] = Ticked(window[w], Witnesses)]
      BY <1>8 DEF GetVetoDetail, ReAck
    <2> QED BY <1>0, <2>1, <2>2, OneMoves
  <1>9. ASSUME NEW w \in Windows, NEW d \in Devices, Ack(w, d) PROVE WindowMoves
    <2> DEFINE x == Ticked(window[w], Witnesses)
               v == delivery[w][d]
    <2>1. Next1(window[w], x, Witnesses)
      BY <1>0, <1>00, TickedGood
    <2>2. v.revision \in 0..2
      BY DEF TypeOK
    <2>3. CASE Acceptable(x, v) /\ window' = [window EXCEPT ![w] = [x EXCEPT !.by = d, !.shown = v.revision]]
      <3> DEFINE y == [x EXCEPT !.by = d, !.shown = v.revision]
      <3> HIDE DEF x, v
      <3>1. Next1(x, y, Witnesses)
        <4>1. Good(x) /\ Acceptable(x, v) /\ v.revision \in 0..2
          BY <2>1, <2>2, <2>3 DEF Next1
        <4> QED BY <4>1, AckedGood, Zenon
      <3> HIDE DEF y
      <3>2. Open(x) /\ Open(window[w])
        BY <2>1, <2>3 DEF Acceptable, Next1
      <3>3. Next1(window[w], y, Witnesses)
        BY <2>1, <3>1, <3>2 DEF Next1, Open
      <3> QED BY <1>0, <2>3, <3>3, OneMoves DEF y
    <2>4. CASE window' = [window EXCEPT ![w] = x]
      <3> HIDE DEF x
      <3> QED BY <1>0, <2>1, <2>4, OneMoves
    <2> QED BY <1>9, <2>3, <2>4 DEF Ack
  <1>10. ASSUME NEW d \in Devices, Revoking(d) PROVE WindowMoves
    <2>1. \A w \in Windows : Next1(window[w], window'[w], Witnesses)
      BY <1>10, <1>0, <1>00, SeveredGood DEF Revoking
    <2> QED BY <1>10, <2>1 DEF WindowMoves, Revoking
  <1>11. ASSUME NEW d \in Devices, PostDeviceRevokeAgain(d) PROVE WindowMoves
    BY <1>0, <1>11, StillMoves DEF PostDeviceRevokeAgain
  <1>12. CASE Review
    BY <1>4, <1>5, <1>6, <1>7, <1>8, <1>9, <1>12 DEF Review
  <1>13. CASE Revocation
    BY <1>10, <1>11, <1>13 DEF Revocation, PostDeviceRevoke, PostDeviceRevokeFails
  <1> QED BY <1>1, <1>2, <1>3, <1>12, <1>13 DEF Next, Environment

\* Every window stays sound.
LEMMA GoodStep ==
    ASSUME VInv, WindowMoves
    PROVE  /\ window' \in [Windows -> WindowType]
           /\ \A w \in Windows : Good(window'[w])
  <1> USE DEF VInv
  <1>0. window \in [Windows -> WindowType] /\ \A w \in Windows : Good(window[w])
    BY DEF TypeOK
  <1>00. [Unborn EXCEPT !.st = "gone"] \in WindowType /\ Good([Unborn EXCEPT !.st = "gone"])
    <2> DEFINE g == [Unborn EXCEPT !.st = "gone"]
    <2>1. g \in WindowType /\ g.st = "gone" /\ g.by = NoDevice
      BY TimeAssumption, BoundAssumption DEF Unborn, WindowType, Status
    <2> HIDE DEF g
    <2>2. Good(g)
      BY <2>1 DEF Good, Open, Delivered
    <2> QED BY <2>1, <2>2 DEF g
  <1>1. CASE /\ window' = [w \in Windows |-> window'[w]]
             /\ \A w \in Windows : Next1(window[w], window'[w], Witnesses)
    BY <1>1 DEF Next1, Good
  <1>2. ASSUME NEW v \in Windows, PostRegisterVeto(v)
        PROVE  window' \in [Windows -> WindowType] /\ \A w \in Windows : Good(window'[w])
    <2> DEFINE n == [Unborn EXCEPT !.st = "pending", !.left = WindowMs, !.epoch = epoch]
    <2>1. n \in WindowType /\ n.st = "pending" /\ n.by = NoDevice /\ n.revision = 1
      <3>1. /\ WindowMs \in -Extension .. (WindowMs + Extension) /\ 0 \in 0..Floor
            /\ epoch \in 0..MaxEpoch
        BY TimeAssumption, BoundAssumption DEF TypeOK
      <3>2. Unborn \in WindowType /\ Unborn.by = NoDevice /\ Unborn.revision = 1
        <4>1. 0 \in -Extension .. (WindowMs + Extension) /\ 0 \in 0..MaxEpoch
          BY TimeAssumption, BoundAssumption
        <4> QED BY <3>1, <4>1 DEF Unborn, WindowType, Status
      <3>3. "pending" \in Status
        BY DEF Status
      <3> QED BY <3>1, <3>2, <3>3 DEF WindowType
    <2>2. window' = [window EXCEPT ![v] = n]
      BY <1>2 DEF PostRegisterVeto
    <2> HIDE DEF n
    <2>3. Good(n)
      BY <2>1 DEF Good, Open, Delivered
    <2> QED BY <1>0, <2>1, <2>2, <2>3
  <1>3. CASE Die
    <2> DEFINE g == [Unborn EXCEPT !.st = "gone"]
    <2>1. window' = [w \in Windows |-> IF Known(w) THEN g ELSE window[w]]
      BY <1>3 DEF Die
    <2> HIDE DEF g
    <2> QED BY <1>0, <1>00, <2>1 DEF g
  <1> QED BY <1>1, <1>2, <1>3 DEF WindowMoves

\* The switch changes only with a kill, with a restore and with the process.
SwitchMoves ==
    \/ UNCHANGED <<switch, crossed>>
    \/ Killing /\ killed' = TRUE /\ scoped' = scoped
    \/ Killing /\ killed' = killed /\ scoped' = TRUE
    \/ PostRestore
    \/ Die

LEMMA SwitchStep ==
    ASSUME [Next]_vars
    PROVE  SwitchMoves
  <1>1. CASE Boots
    BY <1>1 DEF Boots, Boot, BootRefused, BootCorrupt, SwitchMoves, history
  <1>2. CASE Switch
    BY <1>2 DEF Switch, PostKill, PostKillAgent, SwitchMoves
  <1>3. CASE Review \/ Tick
    BY <1>3, LooksOnly DEF SwitchMoves
  <1>4. CASE Revocation
    BY <1>4 DEF Revocation, PostDeviceRevoke, PostDeviceRevokeFails, PostDeviceRevokeAgain,
                SwitchMoves, switch
  <1>5. CASE Crash \/ PowerCut \/ Damage
    BY <1>5 DEF Crash, PowerCut, Damage, SwitchMoves, history
  <1>6. CASE UNCHANGED vars
    BY <1>6 DEF vars, SwitchMoves, history
  <1> QED BY <1>1, <1>2, <1>3, <1>4, <1>5, <1>6 DEF Next, Environment

\* A window's epoch is no newer than the switch, and older once it is crossed.
LEMMA EpochStep ==
    ASSUME VInv, WindowMoves, SwitchMoves, [Next]_vars
    PROVE  EpochInv'
  <1> USE DEF VInv
  <1>0. /\ epoch \in 0..MaxEpoch /\ epoch \in Int /\ killed \in BOOLEAN /\ scoped \in BOOLEAN
        /\ enrolled \subseteq Devices
        /\ \A w \in Windows : window[w] \in WindowType /\ window[w].epoch \in Int
    BY BoundAssumption DEF TypeOK, Good, WindowType
  <1>00. Witnesses /= {} => ~killed
    BY <1>0, WitnessesTrusted
  <1> SUFFICES ASSUME NEW w \in Windows
               PROVE  /\ w \in crossed' => window'[w].st /= "unborn"
                      /\ Known(w)' =>
                            /\ window'[w].epoch <= epoch'
                            /\ w \in crossed' => window'[w].epoch < epoch'
                            /\ window'[w].epoch = epoch' =>
                                 ~scoped' /\ (window'[w].st = "released" => ~killed')
    BY DEF EpochInv
  <1>1. CASE Die
    <2>1. window'[w] = IF Known(w) THEN [Unborn EXCEPT !.st = "gone"] ELSE window[w]
      BY <1>1 DEF Die
    <2>2. [Unborn EXCEPT !.st = "gone"].st = "gone"
      BY DEF Unborn
    <2>3. crossed' = crossed
      BY <1>1 DEF Die, history
    <2> QED BY <2>1, <2>2, <2>3 DEF EpochInv, Known
  <1>2. CASE \E v \in Windows : PostRegisterVeto(v)
    <2>1. PICK v \in Windows : PostRegisterVeto(v)
      BY <1>2
    <2> DEFINE n == [Unborn EXCEPT !.st = "pending", !.left = WindowMs, !.epoch = epoch]
    <2>2. n.st = "pending" /\ n.epoch = epoch
      BY DEF Unborn
    <2>3. /\ window' = [window EXCEPT ![v] = n] /\ ~scoped /\ window[v].st = "unborn"
          /\ UNCHANGED <<killed, epoch, scoped, crossed>>
      BY <2>1 DEF PostRegisterVeto, switch, history, Unborn
    <2> HIDE DEF n
    <2>4. window'[w] = IF w = v THEN n ELSE window[w]
      BY <2>3 DEF TypeOK
    <2>5. CASE w = v
      BY <1>0, <2>2, <2>3, <2>4, <2>5 DEF EpochInv
    <2>6. CASE w /= v
      BY <2>3, <2>4, <2>6 DEF EpochInv, Known
    <2> QED BY <2>5, <2>6
  <1>3. CASE Next1(window[w], window'[w], Witnesses)
    <2>0. /\ window'[w].epoch = window[w].epoch
          /\ Known(w)' <=> Known(w)
          /\ window'[w].st = "unborn" => window[w].st = "unborn"
          /\ window'[w].st = "released" => window[w].st = "released" \/ ~killed
      BY <1>3, <1>00 DEF Next1, Open, Known
    <2>1. CASE UNCHANGED <<switch, crossed>>
      BY <2>0, <2>1 DEF EpochInv, switch
    <2>2. CASE Killing
      <3>1. epoch' = epoch + 1 /\ crossed' = crossed \union {v \in Windows : Known(v)}
        BY <2>2 DEF Killing
      <3>2. w \in crossed' => window'[w].st /= "unborn"
        BY <2>0, <3>1 DEF EpochInv, Known
      <3>3. Known(w)' => window'[w].epoch <= epoch
        BY <2>0 DEF EpochInv
      <3> QED BY <1>0, <2>0, <3>1, <3>2, <3>3
    <2>3. CASE PostRestore
      <3>1. /\ UNCHANGED <<epoch, window, crossed>>
            /\ (scoped' => scoped) /\ (killed' => killed)
        BY <1>0, <2>3 DEF PostRestore
      <3> QED BY <3>1 DEF EpochInv, Known
    <2> QED BY <1>1, <2>1, <2>2, <2>3 DEF SwitchMoves
  <1> QED BY <1>1, <1>2, <1>3 DEF WindowMoves

\* What was served stays so.
LEMMA ServedStep ==
    ASSUME VInv, WindowMoves, [Next]_vars
    PROVE  ServedInv'
  <1> USE DEF VInv
  <1> SUFFICES ASSUME NEW w \in served' PROVE window'[w].st \in {"released", "gone"}
    BY DEF ServedInv
  <1>0. window \in [Windows -> WindowType] /\ served \subseteq Windows
    BY DEF TypeOK
  <1>1. CASE w \in served
    <2>0. window[w].st \in {"released", "gone"} /\ w \in Windows
      BY <1>0, <1>1 DEF ServedInv
    <2>1. CASE Next1(window[w], window'[w], Witnesses)
      BY <2>0, <2>1 DEF Next1, Open
    <2>2. CASE \E v \in Windows : PostRegisterVeto(v)
      <3>1. PICK v \in Windows : PostRegisterVeto(v)
        BY <2>2
      <3>2. window'[w] = window[w] \/ v = w
        BY <1>0, <3>1, <2>0 DEF PostRegisterVeto, Unborn
      <3>3. window[v].st = "unborn"
        BY <3>1 DEF PostRegisterVeto, Unborn
      <3> QED BY <2>0, <3>2, <3>3
    <2>3. CASE Die
      <3>1. window'[w] = IF Known(w) THEN [Unborn EXCEPT !.st = "gone"] ELSE window[w]
        BY <2>0, <2>3 DEF Die
      <3>2. [Unborn EXCEPT !.st = "gone"].st = "gone"
        BY DEF Unborn
      <3> QED BY <2>0, <3>1, <3>2
    <2> QED BY <2>0, <2>1, <2>2, <2>3 DEF WindowMoves
  <1>2. CASE w \notin served
    <2>1. \E v \in Windows : GetVeto(v)
      BY <1>2 DEF Next, Boots, Boot, BootRefused, BootCorrupt, Switch, PostKill, PostKillAgent,
        PostRestore, Review, GetVetoPending, PostRegisterVeto, PostVeto, GetVetoDetail, ReAck,
        Ack, Revocation, Revoking, PostDeviceRevoke, PostDeviceRevokeFails,
        PostDeviceRevokeAgain, Environment, Crash, PowerCut, Die, Damage, Tick, history, vars
    <2>2. PICK v \in Windows : GetVeto(v)
      BY <2>1
    <2> DEFINE x == Ticked(window[v], Witnesses)
    <2>3. /\ window' = [window EXCEPT ![v] = x]
          /\ served' = IF x.st = "released" /\ ~Spent(x) THEN served \union {v} ELSE served
      BY <2>2 DEF GetVeto
    <2> HIDE DEF x
    <2>4. w = v /\ x.st = "released"
      BY <1>2, <2>3
    <2> QED BY <1>0, <2>3, <2>4
  <1> QED BY <1>1, <1>2
-----------------------------------------------------------------------------
(* The standing file and what it promises.                                 *)

\* The types, in parts.
SwitchType ==
    /\ up \in BOOLEAN /\ killed \in BOOLEAN /\ scoped \in BOOLEAN
    /\ epoch \in 0..MaxEpoch
DeviceType == enrolled \subseteq Devices /\ standing \in Standing /\ quarantined \in BOOLEAN
DiskType == file \in FileType /\ older \subseteq FileType
DeliveryType ==
    delivery \in [Windows -> [Devices -> [revision : 0..2, age : 0..(DeliveryTtl - 1)]]]
HistoryType == served \subseteq Windows /\ crossed \subseteq Windows /\ promised \subseteq Devices

\* What boot reads of the file, and what a revocation makes of the standing.
LEMMA LoadedShape ==
    ASSUME DiskType, NEW E \in SUBSET Devices
    PROVE  /\ Loaded(E) \in Standing
           /\ \A d \in Devices : file.devices[d] = "revoked" => Loaded(E)[d] = "revoked"
  BY DEF DiskType, FileType, Loaded, Standing

LEMMA SavedShape ==
    ASSUME NEW E, NEW s \in Standing
    PROVE  /\ Saved(StateToSave(E, s)) \in FileType
           /\ Saved(StateToSave(E, s)).st = "ok" /\ Saved(StateToSave(E, s)).devices = s
  BY DEF Saved, StateToSave, FileType

LEMMA FixedFiles ==
    /\ Absent \in FileType /\ Absent.st = "absent" /\ Corrupt \in FileType /\ Corrupt.st = "corrupt"
    /\ \A d \in Devices : Absent.devices[d] = "none"
    /\ NoStanding \in Standing
  BY DEF Absent, Corrupt, FileType, Standing, NoStanding

\* A save that keeps every written revocation of the disk keeps the promises.
LEMMA SaveKeeps ==
    ASSUME DiskType, NEW E, NEW s \in Standing, NEW d \in Devices,
           Written(d) => s[d] = "revoked",
           SaveDurable(E, s) \/ SaveNotDurable(E, s)
    PROVE  /\ DiskType' /\ (Written(d) => Written(d)')
           /\ SaveDurable(E, s) /\ s[d] = "revoked" => Written(d)'
           /\ Written(d)' => s[d] = "revoked" \/ Written(d)
  <1> DEFINE f == Saved(StateToSave(E, s))
  <1>1. f \in FileType /\ f.st = "ok" /\ f.devices = s
    BY SavedShape
  <1>2. \/ SaveDurable(E, s) /\ file' = f /\ older' = {}
        \/ UNCHANGED <<file, older>>
        \/ file' = f /\ older' = older \union {file}
    BY DEF SaveDurable, SaveNotDurable, disk
  <1>3. SaveDurable(E, s) => file' = f /\ older' = {}
    BY DEF SaveDurable
  <1> HIDE DEF f
  <1>4. DiskType'
    BY <1>1, <1>2 DEF DiskType
  <1>5. Written(d) => Written(d)'
    BY <1>1, <1>2 DEF Written
  <1>6. SaveDurable(E, s) /\ s[d] = "revoked" => Written(d)'
    BY <1>1, <1>3 DEF Written
  <1>7. Written(d)' => s[d] = "revoked" \/ Written(d)
    BY <1>1, <1>2 DEF Written
  <1> QED BY <1>4, <1>5, <1>6, <1>7

\* What a step may do to the devices, to the disk and to what was promised.
StandingMoves ==
    \/ /\ UNCHANGED <<up, enrolled, standing, quarantined, file, older, promised>>
       /\ killed => killed'
    \/ \E E \in SUBSET Devices : Boot(E) \/ BootRefused(E) \/ BootCorrupt(E)
    \/ PostRestore
    \/ \E d \in Devices :
          PostDeviceRevoke(d) \/ PostDeviceRevokeFails(d) \/ PostDeviceRevokeAgain(d)
    \/ Crash \/ PowerCut \/ Damage

LEMMA StandingStep ==
    ASSUME [Next]_vars
    PROVE  StandingMoves
  <1>1. CASE Review \/ Tick
    BY <1>1, LooksOnly DEF StandingMoves, registry, disk, switch
  <1>2. CASE Switch
    BY <1>2 DEF Switch, PostKill, PostKillAgent, Killing, StandingMoves, registry, disk
  <1>3. CASE UNCHANGED vars
    BY <1>3 DEF vars, StandingMoves, registry, disk, switch, history
  <1> QED BY <1>1, <1>2, <1>3 DEF Next, Boots, Revocation, Environment, StandingMoves

\* Every write of the standing file keeps what was revoked.
LEMMA PromiseStep ==
    ASSUME SwitchType, DeviceType, DiskType, HistoryType, PromiseInv, StandingMoves
    PROVE  DeviceType' /\ DiskType' /\ promised' \subseteq Devices /\ up' \in BOOLEAN
           /\ PromiseInv'
  <1> USE DEF SwitchType, DeviceType, DiskType, HistoryType
  <1> DEFINE Goal == DeviceType' /\ DiskType' /\ promised' \subseteq Devices /\ up' \in BOOLEAN
                     /\ PromiseInv'
  <1>1. CASE /\ UNCHANGED <<up, enrolled, standing, quarantined, file, older, promised>>
             /\ killed => killed'
    BY <1>1 DEF PromiseInv, Written
  <1>2. ASSUME NEW E \in SUBSET Devices, Boot(E) PROVE Goal
    <2>1. /\ ~up /\ file.st /= "corrupt" /\ up' = TRUE /\ enrolled' = E
          /\ standing' = Loaded(E) /\ SaveDurable(E, Loaded(E))
          /\ quarantined' = quarantined /\ killed' = killed /\ promised' = promised
      BY <1>2 DEF Boot, switch, history
    <2>2. Loaded(E) \in Standing /\ \A d \in Devices : Written(d) => Loaded(E)[d] = "revoked"
      BY <2>1, LoadedShape DEF Written
    <2> DEFINE s == Loaded(E)
    <2> HIDE DEF s
    <2>3. file' = Saved(StateToSave(E, s)) /\ older' = {}
      BY <2>1 DEF SaveDurable, s
    <2>4. Saved(StateToSave(E, s)) \in FileType /\ Saved(StateToSave(E, s)).st = "ok"
          /\ Saved(StateToSave(E, s)).devices = s
      BY <2>2, SavedShape DEF s
    <2>5. \A d \in Devices : /\ Written(d) => Written(d)'
                             /\ Written(d)' => standing'[d] = "revoked"
      BY <2>1, <2>2, <2>3, <2>4 DEF Written, s
    <2>6. DeviceType' /\ DiskType'
      BY <2>1, <2>2, <2>3, <2>4
    <2> QED BY <2>1, <2>5, <2>6 DEF PromiseInv
  <1>3. ASSUME NEW E \in SUBSET Devices, BootRefused(E) PROVE Goal
    <2>1. /\ ~up /\ file.st /= "corrupt" /\ up' = up /\ enrolled' = enrolled
          /\ standing' = standing /\ quarantined' = quarantined
          /\ killed' = killed /\ promised' = promised
      BY <1>3 DEF BootRefused, switch, registry, history
    <2>2. Loaded(E) \in Standing /\ \A d \in Devices : Written(d) => Loaded(E)[d] = "revoked"
      BY <2>1, LoadedShape DEF Written
    <2>3. CASE SaveNotDurable(E, Loaded(E))
      <3>1. DiskType'
        <4> DEFINE f == Saved(StateToSave(E, Loaded(E)))
        <4>1. f \in FileType
          BY <2>2, SavedShape
        <4> HIDE DEF f
        <4>2. (UNCHANGED disk) \/ (file' = f /\ older' = older \union {file})
          BY <2>3 DEF SaveNotDurable, f
        <4> QED BY <4>1, <4>2 DEF disk
      <3>2. \A d \in Devices : Written(d) => Written(d)'
        BY <2>2, <2>3, SaveKeeps
      <3> QED BY <2>1, <3>1, <3>2 DEF PromiseInv
    <2>4. CASE file = Absent /\ file' = Corrupt /\ older' = {Absent}
      <3>1. \A d \in Devices : ~Written(d)
        BY <2>4, FixedFiles DEF Written
      <3>2. DiskType'
        BY <2>4, FixedFiles
      <3> QED BY <2>1, <3>1, <3>2 DEF PromiseInv
    <2> QED BY <1>3, <2>3, <2>4 DEF BootRefused
  <1>4. ASSUME NEW E \in SUBSET Devices, BootCorrupt(E) PROVE Goal
    <2> DEFINE s == [d \in Devices |-> IF d \in E THEN "revoked" ELSE "none"]
    <2>1. /\ ~up /\ up' = TRUE /\ enrolled' = E /\ standing' = s
          /\ quarantined' = quarantined /\ file' = file /\ older' = older
          /\ killed' = killed /\ promised' = promised
      BY <1>4 DEF BootCorrupt, switch, disk, history
    <2>2. s \in Standing /\ \A d \in Devices : s[d] /= "active"
      BY DEF Standing
    <2> HIDE DEF s
    <2> QED BY <2>1, <2>2 DEF PromiseInv, Written
  <1>5. CASE PostRestore
    BY <1>5 DEF PostRestore, PromiseInv, Written, registry, disk
  <1>6. ASSUME NEW d \in Devices, Revoking(d),
               \/ SaveDurable(enrolled, standing') /\ quarantined' = FALSE /\ killed' = killed
               \/ SaveNotDurable(enrolled, standing') /\ quarantined' = TRUE /\ killed' = TRUE
        PROVE  Goal
    <2>1. /\ up /\ Authenticates(d) /\ standing' = [standing EXCEPT ![d] = "revoked"]
          /\ promised' = promised \union {d} /\ up' = up /\ enrolled' = enrolled
      BY <1>6 DEF Revoking
    <2> DEFINE s == [standing EXCEPT ![d] = "revoked"]
    <2>2. s \in Standing /\ \A e \in Devices : s[e] = IF e = d THEN "revoked" ELSE standing[e]
      BY DEF Standing
    <2>3. \A e \in Devices : Written(e) => standing[e] = "revoked"
      BY <2>1 DEF PromiseInv, Authenticates
    <2> HIDE DEF s
    <2>4. standing' = s
      BY <2>1 DEF s
    <2>5. \A e \in Devices : Written(e) => s[e] = "revoked"
      BY <2>2, <2>3
    <2>6. /\ DiskType'
          /\ \A e \in Devices : Written(e) => Written(e)'
          /\ \A e \in Devices : Written(e)' => s[e] = "revoked"
          /\ SaveDurable(enrolled, s) => Written(d)'
      BY <1>6, <2>2, <2>4, <2>5, SaveKeeps
    <2>7. DeviceType'
      BY <1>6, <2>1, <2>2, <2>4
    <2>8. \A e \in promised' : killed' \/ Written(e)'
      <3>1. CASE killed' = TRUE
        BY <3>1
      <3>2. CASE SaveDurable(enrolled, s) /\ killed' = killed
        BY <2>1, <2>6, <3>2 DEF PromiseInv
      <3> QED BY <1>6, <2>4, <3>1, <3>2
    <2> QED BY <2>1, <2>4, <2>6, <2>7, <2>8 DEF PromiseInv
  <1>7. ASSUME NEW d \in Devices, PostDeviceRevokeAgain(d) PROVE Goal
    <2>1. /\ up /\ standing[d] = "revoked" /\ up' = up /\ enrolled' = enrolled
          /\ standing' = standing /\ killed' = killed
      BY <1>7 DEF PostDeviceRevokeAgain, switch
    <2>2. CASE ~quarantined /\ UNCHANGED <<disk, quarantined, promised>>
      BY <2>1, <2>2 DEF PromiseInv, Written, disk
    <2>3. ASSUME quarantined
          PROVE  \A e \in Devices : Written(e) => standing[e] = "revoked"
      BY <2>1, <2>3 DEF PromiseInv
    <2>4. CASE quarantined /\ SaveDurable(enrolled, standing) /\ quarantined' = FALSE
               /\ promised' = promised \union {d}
      <3>1. /\ DiskType'
            /\ \A e \in Devices : Written(e) => Written(e)'
            /\ \A e \in Devices : Written(e)' => standing[e] = "revoked"
            /\ Written(d)'
        BY <2>1, <2>3, <2>4, SaveKeeps
      <3> QED BY <2>1, <2>4, <3>1 DEF PromiseInv
    <2>5. CASE quarantined /\ SaveNotDurable(enrolled, standing) /\ UNCHANGED <<quarantined, promised>>
      <3>1. /\ DiskType'
            /\ \A e \in Devices : Written(e) => Written(e)'
            /\ \A e \in Devices : Written(e)' => standing[e] = "revoked"
        BY <2>1, <2>3, <2>5, SaveKeeps
      <3> QED BY <2>1, <2>5, <3>1 DEF PromiseInv
    <2> QED BY <1>7, <2>2, <2>4, <2>5 DEF PostDeviceRevokeAgain
  <1>8. CASE Crash \/ PowerCut
    <2>1. /\ up' = FALSE /\ enrolled' = {} /\ standing' = NoStanding /\ quarantined' = FALSE
          /\ (killed => killed') /\ promised' = promised
      BY <1>8 DEF Crash, PowerCut, Die, switch, history
    <2>2. \/ UNCHANGED <<file, older>>
          \/ file' \in older \union {file} /\ older' = {}
      BY <1>8 DEF Crash, PowerCut, disk
    <2>3. \A d \in Devices : Written(d) => Written(d)'
      BY <2>2 DEF Written
    <2> QED BY <2>1, <2>2, <2>3, FixedFiles DEF PromiseInv
  <1>9. CASE Damage
    <2>1. /\ file' = Corrupt /\ older' = older \union {file}
          /\ UNCHANGED <<up, enrolled, standing, quarantined, killed, promised>>
      BY <1>9 DEF Damage, switch, registry, history
    <2>2. \A d \in Devices : Written(d) <=> Written(d)'
      BY <2>1, FixedFiles DEF Written
    <2> QED BY <2>1, <2>2, FixedFiles DEF PromiseInv
  <1> QED BY <1>1, <1>2, <1>3, <1>4, <1>5, <1>6, <1>7, <1>8, <1>9
          DEF StandingMoves, PostDeviceRevoke, PostDeviceRevokeFails, switch
-----------------------------------------------------------------------------
(* The invariant.                                                          *)

LEMMA TypeParts ==
    TypeOK <=> /\ SwitchType /\ DeviceType /\ DiskType /\ DeliveryType /\ HistoryType
               /\ window \in [Windows -> WindowType]
  BY DEF TypeOK, SwitchType, DeviceType, DiskType, DeliveryType, HistoryType

LEMMA VInvInit == Init => VInv
  <1> SUFFICES ASSUME Init PROVE VInv
    OBVIOUS
  <1>1. Unborn \in WindowType /\ Unborn.st = "unborn" /\ Unborn.by = NoDevice
    <2>1. 0 \in -Extension .. (WindowMs + Extension) /\ 0 \in 0..MaxEpoch /\ 0 \in 0..Floor
      BY TimeAssumption, BoundAssumption
    <2> QED BY <2>1 DEF Unborn, WindowType, Status
  <1>2. Good(Unborn)
    BY <1>1 DEF Good, Open, Delivered
  <1>3. SwitchType /\ HistoryType
    <2>1. 0 \in 0..MaxEpoch
      BY BoundAssumption
    <2> QED BY <2>1 DEF Init, SwitchType, HistoryType
  <1>4. DeviceType /\ DiskType
    BY FixedFiles DEF Init, DeviceType, DiskType
  <1>5. DeliveryType
    <2>1. NoDelivery \in [revision : 0..2, age : 0..(DeliveryTtl - 1)]
      BY TimeAssumption DEF NoDelivery
    <2> HIDE DEF NoDelivery
    <2> QED BY <2>1 DEF Init, DeliveryType, NoDeliveries
  <1>6. window \in [Windows -> WindowType] /\ \A w \in Windows : window[w] = Unborn
    BY <1>1 DEF Init
  <1>7. EpochInv /\ ServedInv
    BY <1>1, <1>6 DEF Init, EpochInv, ServedInv, Known
  <1>8. PromiseInv
    BY DEF Init, PromiseInv
  <1> QED BY <1>2, <1>3, <1>4, <1>5, <1>6, <1>7, <1>8, TypeParts DEF VInv

\* No delivery outlives its time.
LEMMA DeliveryStep ==
    ASSUME TypeOK, \A w \in Windows : Good(window[w]), [Next]_vars
    PROVE  DeliveryType'
  <1> DEFINE D == [revision : 0..2, age : 0..(DeliveryTtl - 1)]
  <1>1. delivery \in [Windows -> [Devices -> D]] /\ enrolled \subseteq Devices
    BY DEF TypeOK
  <1>2. NoDelivery \in D /\ \A v \in D : Older(v) \in D
    <2>1. NoDelivery \in D
      BY TimeAssumption DEF NoDelivery
    <2>2. ASSUME NEW v \in D PROVE Older(v) \in D
      <3>1. CASE v.revision /= 0 /\ v.age + 1 < DeliveryTtl
        <4>1. v.age + 1 \in 0..(DeliveryTtl - 1)
          BY <3>1, TimeAssumption
        <4>2. Older(v) = [v EXCEPT !.age = v.age + 1]
          BY <3>1 DEF Older
        <4> QED BY <4>1, <4>2
      <3>2. CASE ~(v.revision /= 0 /\ v.age + 1 < DeliveryTtl)
        BY <2>1, <3>2 DEF Older
      <3> QED BY <3>1, <3>2
    <2> QED BY <2>1, <2>2
  <1>3. ASSUME NEW w \in Windows, NEW d \in Devices, GetVetoDetail(w, d) PROVE DeliveryType'
    <2>1. Witnesses \subseteq Devices
      BY <1>1, WitnessesTrusted
    <2> DEFINE x == Ticked(window[w], Witnesses)
               n == [revision |-> x.revision, age |-> 0]
    <2>2. n \in D
      <3>1. x \in WindowType
        BY <2>1, TickedGood DEF Next1, Good
      <3>2. x.revision \in 0..2
        BY <3>1 DEF WindowType
      <3> HIDE DEF x
      <3> QED BY <3>2, TimeAssumption
    <2>3. delivery' = delivery \/ delivery' = [delivery EXCEPT ![w][d] = n]
      BY <1>3 DEF GetVetoDetail
    <2> HIDE DEF n, D
    <2>4. delivery' \in [Windows -> [Devices -> D]]
      BY <1>1, <2>2, <2>3
    <2> QED BY <2>4 DEF D, DeliveryType
  <1> HIDE DEF D
  <1>4. ASSUME NEW w \in Windows, NEW d \in Devices, Ack(w, d) PROVE DeliveryType'
    <2>1. delivery' = delivery \/ delivery' = [delivery EXCEPT ![w][d] = NoDelivery]
      BY <1>4 DEF Ack
    <2>2. delivery' \in [Windows -> [Devices -> D]]
      BY <1>1, <1>2, <2>1
    <2> QED BY <2>2 DEF D, DeliveryType
  <1>5. ASSUME NEW d \in Devices, Revoking(d) PROVE DeliveryType'
    <2>1. delivery' = [w \in Windows |-> [delivery[w] EXCEPT ![d] = NoDelivery]]
      BY <1>5 DEF Revoking
    <2>2. delivery' \in [Windows -> [Devices -> D]]
      BY <1>1, <1>2, <2>1
    <2> QED BY <2>2 DEF D, DeliveryType
  <1>6. CASE Tick
    <2>1. delivery' = [w \in Windows |-> [d \in Devices |-> Older(delivery[w][d])]]
      BY <1>6 DEF Tick
    <2>2. delivery' \in [Windows -> [Devices -> D]]
      BY <1>1, <1>2, <2>1
    <2> QED BY <2>2 DEF D, DeliveryType
  <1>7. CASE Die
    <2>1. delivery' = NoDeliveries
      BY <1>7 DEF Die
    <2>2. delivery' \in [Windows -> [Devices -> D]]
      BY <1>2, <2>1 DEF NoDeliveries
    <2> QED BY <2>2 DEF D, DeliveryType
  <1>8. CASE UNCHANGED delivery
    BY <1>1, <1>8 DEF D, DeliveryType
  <1>9. CASE Boots \/ Switch \/ Damage \/ UNCHANGED vars
    BY <1>8, <1>9 DEF Boots, Boot, BootRefused, BootCorrupt, Switch, PostKill, PostKillAgent,
                      PostRestore, Damage, vars
  <1>10. CASE Review
    BY <1>3, <1>4, <1>8, <1>10
       DEF Review, GetVetoPending, PostRegisterVeto, GetVeto, PostVeto, ReAck
  <1>11. CASE Revocation
    BY <1>5, <1>8, <1>11
       DEF Revocation, PostDeviceRevoke, PostDeviceRevokeFails, PostDeviceRevokeAgain
  <1> QED BY <1>6, <1>7, <1>9, <1>10, <1>11 DEF Next, Environment, Crash, PowerCut

\* The switch and the histories keep their types.
LEMMA SwitchTypeStep ==
    ASSUME SwitchType, crossed \subseteq Windows, SwitchMoves
    PROVE  /\ killed' \in BOOLEAN /\ scoped' \in BOOLEAN /\ epoch' \in 0..MaxEpoch
           /\ crossed' \subseteq Windows
  <1>1. CASE Killing
    <2>1. epoch' \in 0..MaxEpoch /\ crossed' \subseteq Windows
      BY <1>1, BoundAssumption DEF Killing, SwitchType
    <2> QED BY <1>1, <2>1 DEF SwitchMoves, SwitchType, PostRestore, Die, switch
  <1>2. CASE Die
    <2>1. 1 \in 0..MaxEpoch
      BY BoundAssumption
    <2>2. /\ UNCHANGED switch \/ (killed' = TRUE /\ epoch' = 1 /\ scoped' = FALSE)
          /\ crossed' = crossed
      BY <1>2 DEF Die, history
    <2> QED BY <2>1, <2>2 DEF SwitchType, switch
  <1>3. CASE ~Killing /\ ~Die
    BY <1>3 DEF SwitchMoves, SwitchType, PostRestore, switch
  <1> QED BY <1>1, <1>2, <1>3

LEMMA VInvStep == VInv /\ [Next]_vars => VInv'
  <1> SUFFICES ASSUME VInv, [Next]_vars PROVE VInv'
    OBVIOUS
  <1>1. SwitchType /\ DeviceType /\ DiskType /\ DeliveryType /\ HistoryType
    BY TypeParts DEF VInv
  <1>2. WindowMoves /\ SwitchMoves /\ StandingMoves
    BY WindowStep, SwitchStep, StandingStep
  <1>3. window' \in [Windows -> WindowType] /\ \A w \in Windows : Good(window'[w])
    BY <1>2, GoodStep
  <1>4. EpochInv' /\ ServedInv'
    BY <1>2, EpochStep, ServedStep
  <1>5. DeviceType' /\ DiskType' /\ promised' \subseteq Devices /\ up' \in BOOLEAN /\ PromiseInv'
    BY <1>1, <1>2, PromiseStep DEF VInv
  <1>6. /\ killed' \in BOOLEAN /\ scoped' \in BOOLEAN /\ epoch' \in 0..MaxEpoch
        /\ crossed' \subseteq Windows
    BY <1>1, <1>2, SwitchTypeStep DEF HistoryType
  <1>7. served' \subseteq Windows
    BY <1>1 DEF HistoryType, Next, Boots, Boot, BootRefused, BootCorrupt, Switch, PostKill,
      PostKillAgent, PostRestore, Review, GetVetoPending, PostRegisterVeto, GetVeto, PostVeto,
      GetVetoDetail, ReAck, Ack, Revocation, Revoking, PostDeviceRevoke,
      PostDeviceRevokeFails, PostDeviceRevokeAgain, Environment, Crash, PowerCut, Die, Damage,
      Tick, history, vars
  <1>8. DeliveryType'
    BY DeliveryStep DEF VInv
  <1>9. SwitchType' /\ HistoryType'
    BY <1>5, <1>6, <1>7 DEF SwitchType, HistoryType
  <1>10. TypeOK'
    BY <1>3, <1>5, <1>8, <1>9 DEF TypeOK, SwitchType, DeviceType, DiskType, DeliveryType, HistoryType
  <1> QED BY <1>3, <1>4, <1>5, <1>10 DEF VInv

LEMMA VInvHolds == Spec => []VInv
  BY VInvInit, VInvStep, PTL DEF Spec
-----------------------------------------------------------------------------
(* What the windows and the standing promise.                              *)

\* The evidence on record is of the showing on record, and a call the gateway
\* was told to run was never vetoed (GET /veto/:id, POST /veto/:id/seen).
THEOREM EvidenceSound == Spec => []Inv
  <1>1. VInv => Inv
    BY DEF VInv, Good, Inv, EvidenceIsCurrent, ServedInv, VetoMeansNotRun
  <1> QED BY <1>1, VInvHolds, PTL

\* Silence counts as consent only after the owner had the floor's time before
\* the deadline, whatever was extended, revoked or killed (postVetoSeen, tick).
THEOREM ConsentHadTime == Spec => []OwnerHadTime
  <1>1. VInv => OwnerHadTime
    BY DEF VInv, Good, OwnerHadTime
  <1> QED BY <1>1, VInvHolds, PTL

\* A revocation that was written, or answered with a kill, holds through
\* crashes, power cuts, damaged files and devices that leave and come back.
THEOREM RevocationLasts == Spec => []SeveredStaySevered
  <1>1. VInv => SeveredStaySevered
    <2> SUFFICES ASSUME VInv, NEW d \in promised, Trusted(d) PROVE FALSE
      BY DEF SeveredStaySevered
    <2>1. up /\ d \in Devices /\ standing[d] = "active" /\ ~killed /\ ~quarantined
      BY DEF Trusted, Witnesses, VInv, TypeOK
    <2>2. Written(d)
      BY <2>1 DEF VInv, PromiseInv
    <2> QED BY <2>1, <2>2 DEF VInv, PromiseInv
  <1> QED BY <1>1, VInvHolds, PTL

\* A release is served only in the world of the registration: no kill came
\* since, restored or not, global or of the agent (getVeto's "spent").
THEOREM ServedUnkilled == Spec => ServedOnlyLive
  <1>1. VInv /\ [Next]_vars => [\A w \in served' \ served : ~killed /\ ~scoped /\ w \notin crossed]_vars
    <2> SUFFICES ASSUME VInv, [Next]_vars, NEW w \in served' \ served
                 PROVE  ~killed /\ ~scoped /\ w \notin crossed
      OBVIOUS
    <2>1. \E v \in Windows : GetVeto(v)
      BY DEF Next, Boots, Boot, BootRefused, BootCorrupt, Switch, PostKill, PostKillAgent,
        PostRestore, Review, GetVetoPending, PostRegisterVeto, PostVeto, GetVetoDetail, ReAck,
        Ack, Revocation, Revoking, PostDeviceRevoke, PostDeviceRevokeFails,
        PostDeviceRevokeAgain, Environment, Crash, PowerCut, Die, Damage, Tick, history, vars
    <2>2. PICK v \in Windows : GetVeto(v)
      BY <2>1
    <2> DEFINE x == Ticked(window[v], Witnesses)
    <2>3. /\ Known(v)
          /\ served' = IF x.st = "released" /\ ~Spent(x) THEN served \union {v} ELSE served
      BY <2>2 DEF GetVeto
    <2>4. Next1(window[v], x, Witnesses) /\ (Witnesses /= {} => ~killed)
      BY TickedGood, WitnessesTrusted DEF VInv, TypeOK
    <2> HIDE DEF x
    <2>5. w = v /\ x.st = "released" /\ x.epoch = epoch
      BY <2>3 DEF Spent
    <2>6. window[v].epoch = epoch /\ (window[v].st = "released" \/ ~killed)
      BY <2>4, <2>5 DEF Next1
    <2>7. epoch \in Int
      BY BoundAssumption DEF VInv, TypeOK
    <2> QED BY <2>3, <2>5, <2>6, <2>7 DEF VInv, EpochInv
  <1> QED BY <1>1, VInvHolds, PTL DEF Spec, ServedOnlyLive
=============================================================================
