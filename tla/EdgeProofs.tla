------------------------------ MODULE EdgeProofs ------------------------------
(***************************************************************************)
(* Proofs about the three processes at the edge of the system: the         *)
(* button, the honeytokens and the escalation service.                     *)
(***************************************************************************)
EXTENDS Escalation, Button, Honeytoken, SequenceTheorems, FiniteSetTheorems,
        WellFoundedInduction, TLAPS

-----------------------------------------------------------------------------
(* The button: the inductive invariant.  A press is the cause of every     *)
(* head of a KILL line on the wire, and of whatever the daemon is doing;   *)
(* the wire carries whole lines, of which a broken cable may take a head.  *)

Fragments == {"KI", "LL", "FAU", "LT"}

\* What the firmware may have queued; p is that the contact has opened.
OutboxOK(o, p) ==
    /\ o \in Seq(Fragments) /\ Len(o) <= OutboxCap + 1
    /\ \A i \in 1 .. Len(o) :
        /\ o[i] = "KI" => p
        /\ o[i] \in Heads => i < Len(o) /\ o[i + 1] \notin Heads

\* What the host may have half read: the rest comes next, if the cable holds.
BufferOK(b, p) ==
    /\ b \in {<<>>, <<"KI">>, <<"FAU">>}
    /\ b = <<"KI">> => p
RestComes == buffer /= <<>> /\ stream = "open" => outbox /= <<>> /\ outbox[1] \notin Heads

\* The types, in parts.
FirmwareType ==
    /\ latched \in BOOLEAN /\ agree \in BOOLEAN /\ pressed \in BOOLEAN
    /\ lineAge \in 0 .. Reassert /\ faultAge \in 0 .. FaultReassert
DaemonType ==
    /\ active \in BOOLEAN /\ pressAge \in 0 .. Debounce
    /\ unconfirmed \in BOOLEAN /\ failed \in BOOLEAN
    /\ loop \in {"none", "post", "wait"} /\ request \in {"none", "sent", "landed"}
    /\ stale \in 0 .. MaxStale
HostType ==
    /\ stream \in {"open", "gone", "stopped"}
    /\ signalAge \in 0 .. EpisodeGap + 1 /\ tries \in 0 .. AlertTries
    /\ killed \in BOOLEAN /\ drops \in 0 .. MaxDrops

CausedByPress ==
    latched \/ loop /= "none" \/ request /= "none" \/ stale > 0 \/ unconfirmed \/ killed
    => pressed

ButtonIInv ==
    /\ FirmwareType /\ DaemonType /\ HostType
    /\ OutboxOK(outbox, pressed) /\ BufferOK(buffer, pressed) /\ RestComes
    /\ CausedByPress /\ PressIsOwned

-----------------------------------------------------------------------------
(* Lines and fragments.                                                    *)

\* A line is a head and its rest; a KILL line needs a press.
LineOK(line, p) ==
    /\ line \in Seq(Fragments) /\ Len(line) = 2
    /\ line[1] = "KI" => p
    /\ line[2] \notin Heads

LEMMA LinesAreOK ==
    ASSUME NEW p \in BOOLEAN
    PROVE  LineOK(FaultLine, p) /\ (p => LineOK(KillLine, p))
  BY DEF LineOK, FaultLine, KillLine, Fragments, Heads

\* A whole line fits where the outbox is not full.
LEMMA LineEnqueued ==
    ASSUME NEW o, NEW p \in BOOLEAN, NEW q \in BOOLEAN, OutboxOK(o, p), p => q,
           NEW line, LineOK(line, q),
           NEW r, r = IF Len(o) < OutboxCap THEN o \o line ELSE o
    PROVE  /\ OutboxOK(r, q)
           /\ o /= <<>> => r /= <<>> /\ r[1] = o[1]
  <1>1. /\ line \in Seq(Fragments) /\ Len(line) = 2
        /\ line[1] = "KI" => q
        /\ line[2] \notin Heads
    BY DEF LineOK
  <1>2. o \in Seq(Fragments) /\ Len(o) \in Nat
    BY DEF OutboxOK
  <1>3. CASE Len(o) < OutboxCap
    <2>1. /\ r \in Seq(Fragments) /\ Len(r) = Len(o) + 2
          /\ \A i \in 1 .. Len(o) + 2 : r[i] = IF i <= Len(o) THEN o[i] ELSE line[i - Len(o)]
      <3>1. r = o \o line
        BY <1>3
      <3>2. line \in Seq(Fragments)
        BY <1>1
      <3>3. /\ o \o line \in Seq(Fragments) /\ Len(o \o line) = Len(o) + Len(line)
            /\ \A i \in 1 .. Len(o) + Len(line) :
                (o \o line)[i] = IF i <= Len(o) THEN o[i] ELSE line[i - Len(o)]
        BY <1>2, <3>2, ConcatProperties
      <3> QED BY <1>1, <3>1, <3>3
    <2>2. ASSUME NEW i \in 1 .. Len(r)
          PROVE  /\ r[i] = "KI" => q
                 /\ r[i] \in Heads => i < Len(r) /\ r[i + 1] \notin Heads
      <3>1. CASE i <= Len(o)
        <4>1. r[i] = o[i]
          BY <1>2, <2>1, <3>1
        <4>2. i < Len(o) => r[i + 1] = o[i + 1]
          BY <1>2, <2>1, <3>1
        <4> QED BY <1>2, <2>1, <3>1, <4>1, <4>2 DEF OutboxOK
      <3>2. CASE i = Len(o) + 1
        <4>1. r[i] = line[1] /\ r[i + 1] = line[2]
          BY <1>2, <2>1, <3>2
        <4> QED BY <1>1, <1>2, <2>1, <3>2, <4>1
      <3>3. CASE i = Len(o) + 2
        <4>1. r[i] = line[2]
          BY <1>2, <2>1, <3>3
        <4> QED BY <1>1, <4>1 DEF Heads
      <3> QED BY <1>2, <2>1, <3>1, <3>2, <3>3
    <2>3. o /= <<>> => r /= <<>> /\ r[1] = o[1]
      BY <1>2, <2>1
    <2> QED BY <1>2, <1>3, <2>1, <2>2, <2>3, BoundAssumption DEF OutboxOK
  <1>4. CASE ~(Len(o) < OutboxCap)
    BY <1>4 DEF OutboxOK
  <1> QED BY <1>3, <1>4

\* A head is followed by the rest of its line.
LEMMA FragmentTaken ==
    ASSUME NEW o, NEW p \in BOOLEAN, OutboxOK(o, p), o /= <<>>
    PROVE  /\ OutboxOK(Tail(o), p)
           /\ Head(o) = o[1] /\ Head(o) \in Fragments
           /\ Head(o) = "KI" => p
           /\ Head(o) \in Heads => Tail(o) /= <<>> /\ Tail(o)[1] \notin Heads
  <1>1. o \in Seq(Fragments) /\ Len(o) \in Nat /\ Len(o) >= 1
    BY DEF OutboxOK
  <1>2. /\ Tail(o) \in Seq(Fragments) /\ Len(Tail(o)) = Len(o) - 1
        /\ \A i \in 1 .. Len(Tail(o)) : Tail(o)[i] = o[i + 1]
        /\ Head(o) = o[1]
    BY <1>1, HeadTailProperties
  <1>3. ASSUME NEW i \in 1 .. Len(Tail(o))
        PROVE  /\ Tail(o)[i] = "KI" => p
               /\ Tail(o)[i] \in Heads => i < Len(Tail(o)) /\ Tail(o)[i + 1] \notin Heads
    <2>1. i + 1 \in 1 .. Len(o) /\ Tail(o)[i] = o[i + 1]
      BY <1>1, <1>2
    <2>2. i < Len(Tail(o)) => Tail(o)[i + 1] = o[i + 1 + 1]
      BY <1>1, <1>2
    <2> QED BY <1>1, <1>2, <2>1, <2>2 DEF OutboxOK
  <1>4. OutboxOK(Tail(o), p)
    BY <1>1, <1>2, <1>3, BoundAssumption DEF OutboxOK
  <1>5. Head(o) \in Fragments /\ (Head(o) = "KI" => p)
    BY <1>1, <1>2 DEF OutboxOK
  <1>6. Head(o) \in Heads => Tail(o) /= <<>> /\ Tail(o)[1] \notin Heads
    <2>1. ASSUME Head(o) \in Heads PROVE Len(o) > 1 /\ o[1 + 1] \notin Heads
      BY <1>1, <1>2, <2>1 DEF OutboxOK
    <2>2. ASSUME Len(o) > 1 PROVE Tail(o) /= <<>> /\ Tail(o)[1] = o[1 + 1]
      <3>1. Len(Tail(o)) \in Nat /\ 1 \in 1 .. Len(Tail(o))
        BY <1>1, <1>2, <2>2
      <3>2. Tail(o)[1] = o[1 + 1]
        BY <1>2, <3>1
      <3>3. Tail(o) /= <<>>
        BY <3>1
      <3> QED BY <3>2, <3>3
    <2> QED BY <2>1, <2>2
  <1> QED BY <1>2, <1>4, <1>5, <1>6

\* Only a line whose head was a KILL line's is one.
LEMMA LineComplete ==
    ASSUME NEW b, NEW p \in BOOLEAN, BufferOK(b, p), NEW f \in Fragments, Append(b, f) = KillLine
    PROVE  p
  <1>1. b \in {<<>>, <<"KI">>, <<"FAU">>}
    BY DEF BufferOK
  <1>2. CASE b = <<>>
    <2>1. Len(Append(b, f)) = 1
      BY <1>2
    <2> QED BY <2>1 DEF KillLine
  <1>3. CASE b = <<"KI">>
    BY <1>3 DEF BufferOK
  <1>4. CASE b = <<"FAU">>
    <2>1. Append(b, f)[1] = "FAU"
      BY <1>4
    <2> QED BY <2>1 DEF KillLine
  <1> QED BY <1>1, <1>2, <1>3, <1>4

-----------------------------------------------------------------------------
(* The button: the inductive invariant holds.                              *)

\* The bounds, as the leaves below use them.
LEMMA ButtonBounds ==
    /\ Debounce \in Nat /\ Reassert \in Nat /\ Reassert >= 1
    /\ FaultReassert \in Nat /\ FaultReassert >= 1 /\ EpisodeGap \in Nat
    /\ AlertTries \in Nat /\ AlertTries >= 1
    /\ MaxStale \in Nat /\ MaxDrops \in Nat
  BY TimeAssumption, BoundAssumption

LEMMA ButtonStarts == ButtonInit => ButtonIInv
  <1> SUFFICES ASSUME ButtonInit PROVE ButtonIInv
    OBVIOUS
  <1> USE ButtonBounds DEF ButtonInit
  <1>1. FirmwareType
    <2>1. lineAge \in 0 .. Reassert /\ faultAge \in 0 .. FaultReassert
      OBVIOUS
    <2>2. latched \in BOOLEAN /\ agree \in BOOLEAN /\ pressed \in BOOLEAN
      OBVIOUS
    <2> QED BY <2>1, <2>2 DEF FirmwareType
  <1>2. DaemonType
    <2>1. pressAge \in 0 .. Debounce /\ stale \in 0 .. MaxStale
      OBVIOUS
    <2>2. active \in BOOLEAN /\ unconfirmed \in BOOLEAN /\ failed \in BOOLEAN
      OBVIOUS
    <2> QED BY <2>1, <2>2 DEF DaemonType
  <1>3. HostType
    <2>1. signalAge \in 0 .. EpisodeGap + 1 /\ tries \in 0 .. AlertTries
      OBVIOUS
    <2>2. drops \in 0 .. MaxDrops
      OBVIOUS
    <2>3. killed \in BOOLEAN
      OBVIOUS
    <2> QED BY <2>1, <2>2, <2>3 DEF HostType
  <1>4. OutboxOK(outbox, pressed)
    BY BoundAssumption DEF ButtonInit, OutboxOK
  <1>5. BufferOK(buffer, pressed) /\ RestComes
    BY DEF ButtonInit, BufferOK, RestComes
  <1>6. CausedByPress /\ PressIsOwned
    BY DEF ButtonInit, CausedByPress, PressIsOwned
  <1> QED BY <1>1, <1>2, <1>3, <1>4, <1>5, <1>6 DEF ButtonIInv

\* The firmware: a line at most is queued, behind what is queued already.
LEMMA FirmwareKeeps ==
    ASSUME ButtonIInv,
           Press \/ Unlatch \/ ReassertKill \/ Fault \/ Repair \/ ReassertFault \/ Tick
    PROVE  ButtonIInv'
  <1> USE TimeAssumption, BoundAssumption DEF ButtonIInv
  <1>1. UNCHANGED <<buffer, stream, loop, request, stale, unconfirmed, killed>>
    BY DEF Press, Unlatch, ReassertKill, Fault, Repair, ReassertFault, Tick, daemon, reporter
  <1>2. pressed \in BOOLEAN /\ pressed' \in BOOLEAN /\ (pressed => pressed')
        /\ (latched => pressed)
    BY DEF Press, Unlatch, ReassertKill, Fault, Repair, ReassertFault, Tick, FirmwareType,
           CausedByPress
  <1>3. FirmwareType'
    <2>1. latched' \in BOOLEAN /\ agree' \in BOOLEAN
      BY DEF Press, Unlatch, ReassertKill, Fault, Repair, ReassertFault, Tick, FirmwareType
    <2>2. lineAge' \in 0 .. Reassert
      BY ButtonBounds
      DEF Press, Unlatch, ReassertKill, Fault, Repair, ReassertFault, Tick, FirmwareType, Older
    <2>3. faultAge' \in 0 .. FaultReassert
      BY ButtonBounds
      DEF Press, Unlatch, ReassertKill, Fault, Repair, ReassertFault, Tick, FirmwareType, Older
    <2> QED BY <1>2, <2>1, <2>2, <2>3 DEF FirmwareType
  <1>4. DaemonType'
    BY DEF Press, Unlatch, ReassertKill, Fault, Repair, ReassertFault, Tick, DaemonType,
           Older, daemon
  <1>5. HostType'
    BY DEF Press, Unlatch, ReassertKill, Fault, Repair, ReassertFault, Tick, HostType,
           Older, reporter
  <1>6. /\ OutboxOK(outbox', pressed')
        /\ outbox /= <<>> => outbox' /= <<>> /\ outbox'[1] = outbox[1]
    <2>1. CASE outbox' = Enqueued(KillLine) /\ pressed'
      <3>1. LineOK(KillLine, pressed')
        BY <1>2, <2>1, LinesAreOK
      <3> QED BY <1>2, <2>1, <3>1, LineEnqueued DEF Enqueued
    <2>2. CASE outbox' = Enqueued(FaultLine)
      <3>1. LineOK(FaultLine, pressed')
        BY <1>2, LinesAreOK
      <3> QED BY <1>2, <2>2, <3>1, LineEnqueued DEF Enqueued
    <2>3. CASE outbox' = outbox
      BY <1>2, <2>3 DEF OutboxOK
    <2> QED
      BY <1>2, <2>1, <2>2, <2>3
      DEF Press, Unlatch, ReassertKill, Fault, Repair, ReassertFault, Tick, KillDue
  <1>7. BufferOK(buffer', pressed')
    BY <1>1, <1>2 DEF BufferOK
  <1>8. RestComes'
    BY <1>1, <1>6 DEF RestComes
  <1>9. CausedByPress'
    <2>1. latched' => pressed'
      BY <1>2 DEF Press, Unlatch, ReassertKill, Fault, Repair, ReassertFault, Tick
    <2> QED BY <1>1, <1>2, <2>1 DEF CausedByPress
  <1>10. PressIsOwned'
    BY DEF Press, Unlatch, ReassertKill, Fault, Repair, ReassertFault, Tick, PressIsOwned, daemon
  <1> QED BY <1>3, <1>4, <1>5, <1>6, <1>7, <1>8, <1>9, <1>10

\* The daemon, its requests, the reporter and the owners leave the wire alone;
\* a shutdown lets go of the line that was half read.
LEMMA DaemonKeeps ==
    ASSUME ButtonIInv,
           KillLands \/ LandsLate \/ Attempts \/ Shutdown \/ Restore \/ Alerting
    PROVE  ButtonIInv'
  <1> USE TimeAssumption, BoundAssumption DEF ButtonIInv, Attempts, Alerting
  <1>1. UNCHANGED <<firmware, outbox>> /\ UNCHANGED pressed
        /\ (UNCHANGED <<buffer, stream>> \/ buffer' = <<>>)
    BY DEF KillLands, LandsLate, Confirmed, AttemptFails, Retry, Shutdown, Restore,
           AlertRecorded, AlertFails, firmware
  <1>2. FirmwareType'
    BY <1>1 DEF FirmwareType, firmware
  <1>3. DaemonType'
    <2>1. stale' \in 0 .. MaxStale
      BY ButtonBounds
      DEF KillLands, LandsLate, Confirmed, AttemptFails, Retry, Shutdown, Restore,
          AlertRecorded, AlertFails, DaemonType, daemon, Left, AtMost
    <2>2. pressAge' \in 0 .. Debounce
      BY ButtonBounds
      DEF KillLands, LandsLate, Confirmed, AttemptFails, Retry, Shutdown, Restore,
          AlertRecorded, AlertFails, DaemonType, daemon
    <2> QED
      BY <2>1, <2>2
      DEF KillLands, LandsLate, Confirmed, AttemptFails, Retry, Shutdown, Restore,
          AlertRecorded, AlertFails, DaemonType, daemon
  <1>4. HostType'
    <2>1. tries' \in 0 .. AlertTries
      BY ButtonBounds
      DEF KillLands, LandsLate, Confirmed, AttemptFails, Retry, Shutdown, Restore,
          AlertRecorded, AlertFails, HostType, reporter
    <2>2. signalAge' \in 0 .. EpisodeGap + 1
      BY ButtonBounds
      DEF KillLands, LandsLate, Confirmed, AttemptFails, Retry, Shutdown, Restore,
          AlertRecorded, AlertFails, HostType, reporter
    <2> QED
      BY <2>1, <2>2
      DEF KillLands, LandsLate, Confirmed, AttemptFails, Retry, Shutdown, Restore,
          AlertRecorded, AlertFails, HostType, reporter
  <1>5. OutboxOK(outbox', pressed') /\ BufferOK(buffer', pressed') /\ RestComes'
    BY <1>1 DEF BufferOK, RestComes
  <1>6. CausedByPress'
    BY <1>1 DEF KillLands, LandsLate, Confirmed, AttemptFails, Retry, Shutdown, Restore,
           AlertRecorded, AlertFails, CausedByPress, DaemonType, daemon, firmware, Left, AtMost
  <1>7. PressIsOwned'
    BY DEF KillLands, LandsLate, Confirmed, AttemptFails, Retry, Shutdown, Restore,
           AlertRecorded, AlertFails, PressIsOwned, daemon
  <1> QED BY <1>2, <1>3, <1>4, <1>5, <1>6, <1>7

\* A new sequence is posting, for a press.
LEMMA PressHandled ==
    ASSUME ButtonIInv, pressed, HandlePress
    PROVE  /\ DaemonType' /\ PressIsOwned'
           /\ active' = active
  <1> USE TimeAssumption, BoundAssumption DEF ButtonIInv, HandlePress
  <1>1. DaemonType'
    <2>1. stale' \in 0 .. MaxStale
      BY ButtonBounds DEF DaemonType, Left, AtMost
    <2>2. pressAge' \in 0 .. Debounce
      BY ButtonBounds DEF DaemonType
    <2> QED BY <2>1, <2>2 DEF DaemonType
  <1>2. PressIsOwned'
    BY DEF PressIsOwned
  <1> QED BY <1>1, <1>2

LEMMA DrainKeeps == ASSUME ButtonIInv, Drain PROVE ButtonIInv'
  <1> USE TimeAssumption, BoundAssumption DEF ButtonIInv
  <1> DEFINE f == Head(outbox)
  <1>1. /\ outbox /= <<>> /\ stream = "open" /\ outbox' = Tail(outbox) /\ Feed(f)
        /\ UNCHANGED <<latched, agree, lineAge, faultAge, pressed, stream, killed, drops>>
        /\ pressed \in BOOLEAN
    BY DEF Drain, firmware, FirmwareType
  <1>2. /\ OutboxOK(outbox', pressed) /\ f = outbox[1] /\ f \in Fragments
        /\ f = "KI" => pressed
        /\ f \in Heads => outbox' /= <<>> /\ outbox'[1] \notin Heads
    BY <1>1, FragmentTaken
  <1> HIDE DEF f
  <1>3. FirmwareType'
    BY <1>1 DEF FirmwareType
  <1>4. CASE f \in Heads
    <2>1. buffer' = Append(buffer, f) /\ UNCHANGED <<daemon, reporter>>
      BY <1>1, <1>4 DEF Feed
    <2>2. buffer = <<>>
      BY <1>1, <1>2, <1>4 DEF RestComes
    <2>3. f \in {"KI", "FAU"} /\ buffer' = <<f>>
      BY <1>4, <2>1, <2>2 DEF Heads
    <2>4. BufferOK(buffer', pressed')
      <3>1. CASE f = "KI"
        BY <1>1, <1>2, <2>3, <3>1 DEF BufferOK
      <3>2. CASE f = "FAU"
        <4>1. <<f>> /= <<"KI">>
          BY <3>2
        <4> QED BY <2>3, <3>2, <4>1 DEF BufferOK
      <3> QED BY <2>3, <3>1, <3>2
    <2>5. RestComes'
      BY <1>2, <1>4 DEF RestComes
    <2>6. DaemonType' /\ HostType' /\ CausedByPress' /\ PressIsOwned'
      BY <1>1, <2>1 DEF DaemonType, HostType, CausedByPress, PressIsOwned, daemon, reporter
    <2> QED BY <1>1, <1>2, <1>3, <2>4, <2>5, <2>6
  <1>5. CASE f \notin Heads
    <2>1. buffer' = <<>>
      BY <1>1, <1>5 DEF Feed
    <2>2. BufferOK(buffer', pressed') /\ RestComes'
      BY <2>1 DEF BufferOK, RestComes
    <2>3. CASE Append(buffer, f) = KillLine
      <3>1. HandlePress /\ UNCHANGED reporter
        BY <1>1, <1>5, <2>3 DEF Feed, LineIs
      <3>2. pressed
        BY <1>1, <1>2, <2>3, LineComplete
      <3>3. DaemonType' /\ PressIsOwned'
        BY <3>1, <3>2, PressHandled
      <3>4. HostType'
        BY <1>1, <3>1 DEF HostType, reporter
      <3>5. CausedByPress'
        BY <1>1, <3>2 DEF CausedByPress
      <3> QED BY <1>1, <1>2, <1>3, <2>2, <3>3, <3>4, <3>5
    <2>4. CASE Append(buffer, f) /= KillLine
      <3>1. UNCHANGED daemon /\ (FaultSignal \/ UNCHANGED reporter)
        BY <1>1, <1>5, <2>4 DEF Feed, LineIs
      <3>2. DaemonType' /\ PressIsOwned' /\ CausedByPress'
        BY <1>1, <3>1 DEF DaemonType, PressIsOwned, CausedByPress, daemon
      <3>3. HostType'
        BY <1>1, <3>1 DEF HostType, reporter, FaultSignal
      <3> QED BY <1>1, <1>2, <1>3, <2>2, <3>2, <3>3
    <2> QED BY <2>3, <2>4
  <1> QED BY <1>4, <1>5

\* A stream that broke may have taken a fragment with it; the next one begins
\* with an empty buffer.
LEMMA CableKeeps == ASSUME ButtonIInv, Gone \/ Connect PROVE ButtonIInv'
  <1> USE TimeAssumption, BoundAssumption DEF ButtonIInv
  <1>1. UNCHANGED <<firmware, daemon, reporter, killed>> /\ UNCHANGED pressed
    BY DEF Gone, Connect, firmware
  <1>2. OutboxOK(outbox', pressed')
    <2>1. pressed \in BOOLEAN
      BY DEF FirmwareType
    <2>2. outbox' = outbox \/ (outbox /= <<>> /\ outbox' = Tail(outbox))
      BY DEF Gone, Connect
    <2>3. CASE outbox' = outbox
      BY <1>1, <2>3
    <2>4. CASE outbox /= <<>> /\ outbox' = Tail(outbox)
      BY <1>1, <2>1, <2>4, FragmentTaken
    <2> QED BY <2>2, <2>3, <2>4
  <1>3. BufferOK(buffer', pressed') /\ RestComes'
    BY <1>1 DEF Gone, Connect, BufferOK, RestComes
  <1>4. FirmwareType' /\ DaemonType' /\ CausedByPress' /\ PressIsOwned'
    BY <1>1 DEF FirmwareType, DaemonType, CausedByPress, PressIsOwned, firmware, daemon
  <1>5. HostType'
    BY <1>1 DEF Gone, Connect, HostType, reporter
  <1> QED BY <1>2, <1>3, <1>4, <1>5

LEMMA ButtonStep == ButtonIInv /\ [ButtonNext]_buttonVars => ButtonIInv'
  <1> SUFFICES ASSUME ButtonIInv, [ButtonNext]_buttonVars PROVE ButtonIInv'
    OBVIOUS
  <1>1. CASE Press \/ Unlatch \/ ReassertKill \/ Fault \/ Repair \/ ReassertFault \/ Tick
    BY <1>1, FirmwareKeeps
  <1>2. CASE KillLands \/ LandsLate \/ Attempts \/ Shutdown \/ Restore \/ Alerting
    BY <1>2, DaemonKeeps
  <1>3. CASE Drain
    BY <1>3, DrainKeeps
  <1>4. CASE Gone \/ Connect
    BY <1>4, CableKeeps
  <1>5. CASE UNCHANGED buttonVars
    BY <1>5 DEF ButtonIInv, FirmwareType, DaemonType, HostType, OutboxOK, BufferOK, RestComes,
                CausedByPress, PressIsOwned, buttonVars, firmware, daemon, reporter
  <1> QED BY <1>1, <1>2, <1>3, <1>4, <1>5 DEF ButtonNext, Firmware

\* A sequence of at most n elements of S, as the runs state it.
LEMMA BoundedSequence ==
    ASSUME NEW S, NEW n \in Nat, NEW s \in Seq(S), Len(s) <= n
    PROVE  s \in BoundedSeq(S, n)
  <1>1. Len(s) \in 0 .. n /\ s \in [1 .. Len(s) -> S]
    BY LenProperties
  <1> QED BY <1>1 DEF BoundedSeq, SeqOf

LEMMA ButtonImplies == ButtonIInv => ButtonInv
  <1> SUFFICES ASSUME ButtonIInv PROVE ButtonInv
    OBVIOUS
  <1>1. outbox \in BoundedSeq({"KI", "LL", "FAU", "LT"}, OutboxCap + 1)
    BY BoundAssumption, BoundedSequence DEF ButtonIInv, OutboxOK, Fragments
  <1>2. buffer \in BoundedSeq(Heads, 1)
    <2>1. buffer \in Seq(Heads) /\ Len(buffer) <= 1
      <3>1. CASE buffer = <<>>
        BY <3>1
      <3>2. CASE buffer = <<"KI">>
        BY <3>2 DEF Heads
      <3>3. CASE buffer = <<"FAU">>
        BY <3>3 DEF Heads
      <3> QED BY <3>1, <3>2, <3>3 DEF ButtonIInv, BufferOK
    <2> QED BY <2>1, BoundedSequence
  <1>3. ButtonTypeOK
    BY <1>1, <1>2 DEF ButtonTypeOK, ButtonIInv, FirmwareType, DaemonType, HostType
  <1>4. PressIsOwned /\ NoForgedKill
    BY DEF ButtonIInv, CausedByPress, NoForgedKill
  <1> QED BY <1>3, <1>4 DEF ButtonInv

\* The shape of the button's state; a press that was accepted is posted or
\* waits to be, until it is confirmed or the daemon is stopped; and neither a
\* fault, nor a broken cable, nor half a line engages the switch (feed,
\* startSequence, runSequence, stop).
THEOREM ButtonSafe == ButtonSpec => []ButtonInv
  <1> QED BY ButtonStarts, ButtonStep, ButtonImplies, PTL DEF ButtonSpec

-----------------------------------------------------------------------------
(* Honeytokens: the inductive invariant.  A file that nobody else touched  *)
(* is the one its baseline tells of; and the trips are on their lanes.     *)

\* Modification times never go below the planted one, so that the primed access
\* time stays in range.
Stamps == [ino : -1 .. 1, atime : -1 .. 1, mtime : 0 .. 1]

WatcherType ==
    /\ file \in [Paths -> Stamps] /\ baseline \in [Paths -> Stamps]
    /\ arm \in [Paths -> {"no", "read", "stat", "primed", "armed"}]
    /\ before \in [Paths -> 0 .. 1]
    /\ tripped \subseteq Paths /\ touched \subseteq Paths /\ caught \subseteq Paths

\* q holds trips of lane t, each once.
LaneOK(q, t) ==
    /\ q \in Seq(Trips) /\ IsInjective(q)
    /\ Range(q) \subseteq {x \in Trips : Tier(x) = t}

LanesType ==
    /\ DOMAIN queue = Tiers /\ \A t \in Tiers : LaneOK(queue[t], t)
    /\ lane \in [Tiers -> {"idle", "post", "wait"}]
    /\ attempts \in [Tiers -> 0 .. FlushAttempts] /\ budget \in [Tiers -> {0, FlushAttempts}]

PhaseType ==
    /\ phase \in {"run", "flush", "exit"} /\ flushing \subseteq Tiers
    /\ recorded \subseteq Trips /\ reported \subseteq Trips

\* A file left alone is there, and is what its watcher remembers of it.
LeftAlone(p) == file[p].ino = 0 /\ (arm[p] = "armed" => baseline[p] = file[p])
UntouchedIsKnown == \A p \in Paths \ touched : LeftAlone(p)

\* Only a flush bounds the attempts.
RunsUnbounded == phase = "run" => \A t \in Tiers : budget[t] = 0

HoneytokenIInv ==
    /\ WatcherType /\ LanesType /\ PhaseType
    /\ UntouchedIsKnown /\ NoFalseTrip /\ NothingIsDropped /\ LaneIsDrained /\ RunsUnbounded

-----------------------------------------------------------------------------
(* Queues.                                                                 *)

LEMMA TierOfTrip == ASSUME NEW x \in Trips PROVE Tier(x) \in Tiers
  BY TierAssumption DEF Tier, Trips

\* A trip that joins a queue it is not in.
LEMMA Queued ==
    ASSUME NEW t, NEW q, LaneOK(q, t), NEW x \in Trips, Tier(x) = t, x \notin Range(q)
    PROVE  /\ LaneOK(Append(q, x), t) /\ Append(q, x) /= <<>>
           /\ Range(Append(q, x)) = Range(q) \union {x}
  <1> DEFINE r == Append(q, x)
  <1>1. q \in Seq(Trips) /\ Len(q) \in Nat /\ DOMAIN q = 1 .. Len(q)
    BY LenProperties DEF LaneOK
  <1>2. /\ r \in Seq(Trips) /\ r /= <<>> /\ Len(r) = Len(q) + 1
        /\ \A i \in 1 .. Len(q) : r[i] = q[i]
        /\ r[Len(q) + 1] = x
    BY <1>1, AppendProperties
  <1> HIDE DEF r
  <1>3. DOMAIN r = 1 .. Len(q) + 1
    BY <1>2, LenProperties
  <1>4. Range(r) = Range(q) \union {x}
    <2>1. ASSUME NEW y \in Range(r) PROVE y \in Range(q) \union {x}
      <3>1. PICK i \in 1 .. Len(q) + 1 : y = r[i]
        BY <1>3 DEF Range
      <3>2. CASE i = Len(q) + 1
        BY <1>2, <3>1, <3>2
      <3>3. CASE i \in 1 .. Len(q)
        BY <1>1, <1>2, <3>1, <3>3 DEF Range
      <3> QED BY <1>1, <3>2, <3>3
    <2>2. ASSUME NEW y \in Range(q) PROVE y \in Range(r)
      <3>1. PICK i \in 1 .. Len(q) : y = q[i]
        BY <1>1 DEF Range
      <3>2. i \in DOMAIN r /\ r[i] = y
        BY <1>1, <1>2, <1>3, <3>1
      <3> QED BY <3>2 DEF Range
    <2>3. x \in Range(r)
      <3>1. Len(q) + 1 \in DOMAIN r
        BY <1>1, <1>3
      <3> QED BY <1>2, <3>1 DEF Range
    <2> QED BY <2>1, <2>2, <2>3
  <1>5. IsInjective(r)
    <2>1. SUFFICES ASSUME NEW i \in 1 .. Len(q) + 1, NEW j \in 1 .. Len(q) + 1, r[i] = r[j]
                   PROVE  i = j
      BY <1>3 DEF IsInjective
    <2>2. \A k \in 1 .. Len(q) : q[k] /= x
      BY <1>1 DEF Range
    <2>3. CASE i \in 1 .. Len(q) /\ j \in 1 .. Len(q)
      BY <1>1, <1>2, <2>1, <2>3 DEF LaneOK, IsInjective
    <2>4. CASE i = Len(q) + 1 /\ j \in 1 .. Len(q)
      BY <1>2, <2>1, <2>2, <2>4
    <2>5. CASE j = Len(q) + 1 /\ i \in 1 .. Len(q)
      BY <1>2, <2>1, <2>2, <2>5
    <2>6. (i = Len(q) + 1 \/ i \in 1 .. Len(q)) /\ (j = Len(q) + 1 \/ j \in 1 .. Len(q))
      BY <1>1
    <2> QED BY <2>3, <2>4, <2>5, <2>6
  <1>6. Range(r) \subseteq {y \in Trips : Tier(y) = t}
    BY <1>4 DEF LaneOK
  <1> QED BY <1>2, <1>4, <1>5, <1>6 DEF LaneOK, r

\* The head of a queue leaves it; the others stay.
LEMMA Dequeued ==
    ASSUME NEW t, NEW q, LaneOK(q, t), q /= <<>>
    PROVE  /\ LaneOK(Tail(q), t)
           /\ Range(q) \subseteq Range(Tail(q)) \union {Head(q)}
           /\ Tail(q) /= <<>> <=> Len(q) > 1
  <1> DEFINE r == Tail(q)
  <1>1. q \in Seq(Trips) /\ Len(q) \in Nat /\ Len(q) >= 1 /\ DOMAIN q = 1 .. Len(q)
    BY LenProperties, EmptySeq DEF LaneOK
  <1>2. /\ r \in Seq(Trips) /\ Len(r) = Len(q) - 1
        /\ \A i \in 1 .. Len(r) : r[i] = q[i + 1]
        /\ Head(q) = q[1]
    BY <1>1, HeadTailProperties
  <1> HIDE DEF r
  <1>3. DOMAIN r = 1 .. Len(q) - 1
    BY <1>2, LenProperties
  <1>4. \A i \in DOMAIN r : i + 1 \in DOMAIN q /\ r[i] = q[i + 1]
    BY <1>1, <1>2, <1>3
  <1>5. Range(r) \subseteq Range(q)
    BY <1>4 DEF Range
  <1>6. Range(q) \subseteq Range(r) \union {Head(q)}
    <2>1. SUFFICES ASSUME NEW y \in Range(q), y /= Head(q) PROVE y \in Range(r)
      OBVIOUS
    <2>2. PICK i \in 1 .. Len(q) : y = q[i]
      BY <1>1 DEF Range
    <2>3. i /= 1
      BY <1>2, <2>1, <2>2
    <2>4. i - 1 \in DOMAIN r /\ i - 1 + 1 = i
      BY <1>1, <1>3, <2>3
    <2>5. r[i - 1] = y
      BY <1>4, <2>2, <2>4
    <2> QED BY <2>4, <2>5 DEF Range
  <1>7. IsInjective(r)
    <2>1. SUFFICES ASSUME NEW i \in DOMAIN r, NEW j \in DOMAIN r, r[i] = r[j]
                   PROVE  i = j
      BY DEF IsInjective
    <2>2. i + 1 \in DOMAIN q /\ j + 1 \in DOMAIN q /\ q[i + 1] = q[j + 1]
      BY <1>4, <2>1
    <2>3. i + 1 = j + 1
      BY <2>2 DEF LaneOK, IsInjective
    <2> QED BY <1>1, <1>3, <2>3
  <1>8. r /= <<>> <=> Len(q) > 1
    BY <1>1, <1>2
  <1> QED BY <1>2, <1>5, <1>6, <1>7, <1>8 DEF LaneOK, r

-----------------------------------------------------------------------------
(* Honeytokens: the inductive invariant holds.                             *)

LEMMA HoneytokenStarts == HoneytokenInit => HoneytokenIInv
  <1> SUFFICES ASSUME HoneytokenInit PROVE HoneytokenIInv
    OBVIOUS
  <1> USE DEF HoneytokenInit
  <1>1. WatcherType
    <2>1. Planted \in Stamps
      BY DEF Planted, Stamps
    <2> QED BY <2>1 DEF WatcherType
  <1>2. LanesType
    <2>1. ASSUME NEW t \in Tiers PROVE LaneOK(<<>>, t)
      BY DEF LaneOK, IsInjective, Range
    <2>2. attempts \in [Tiers -> 0 .. FlushAttempts] /\ budget \in [Tiers -> {0, FlushAttempts}]
      BY FlushAssumption
    <2> QED BY <2>1, <2>2 DEF LanesType
  <1>3. PhaseType
    BY DEF PhaseType
  <1>4. UntouchedIsKnown /\ NoFalseTrip
    BY DEF UntouchedIsKnown, LeftAlone, Planted, NoFalseTrip
  <1>5. NothingIsDropped /\ LaneIsDrained /\ RunsUnbounded
    BY DEF NothingIsDropped, LaneIsDrained, RunsUnbounded
  <1> QED BY <1>1, <1>2, <1>3, <1>4, <1>5 DEF HoneytokenIInv

\* What happens to the files leaves the lanes alone.
LEMMA LanesKept ==
    ASSUME HoneytokenIInv, UNCHANGED <<lanes, phase, flushing, recorded, reported>>
    PROVE  LanesType' /\ PhaseType' /\ NothingIsDropped' /\ LaneIsDrained' /\ RunsUnbounded'
  <1>1. LanesType' /\ PhaseType'
    BY DEF HoneytokenIInv, LanesType, PhaseType, lanes
  <1>2. NothingIsDropped'
    BY DEF HoneytokenIInv, NothingIsDropped, lanes
  <1>3. LaneIsDrained' /\ RunsUnbounded'
    BY DEF HoneytokenIInv, LaneIsDrained, RunsUnbounded, lanes
  <1> QED BY <1>1, <1>2, <1>3

\* What another process does to a file counts as a touch.
LEMMA TouchKeeps ==
    ASSUME HoneytokenIInv, NEW p \in Paths, NEW f \in Stamps,
           file' = [file EXCEPT ![p] = f], touched' = touched \union {p}, caught' \subseteq Paths,
           UNCHANGED <<arm, before, baseline, tripped, lanes, phase, flushing, recorded, reported>>
    PROVE  HoneytokenIInv'
  <1> USE DEF HoneytokenIInv
  <1>1. WatcherType'
    BY DEF WatcherType
  <1>2. UntouchedIsKnown'
    BY DEF WatcherType, UntouchedIsKnown, LeftAlone
  <1>3. NoFalseTrip'
    BY DEF NoFalseTrip
  <1> QED BY <1>1, <1>2, <1>3, LanesKept

LEMMA OthersKeep == ASSUME HoneytokenIInv, Others PROVE HoneytokenIInv'
  <1>1. PICK p \in Paths :
            ReadFile(p) \/ WriteFile(p) \/ ReplaceFile(p) \/ DeleteFile(p) \/ PrimeFile(p)
    BY DEF Others
  <1>2. file[p] \in Stamps /\ caught \subseteq Paths /\ file \in [Paths -> Stamps]
    BY DEF HoneytokenIInv, WatcherType
  <1>3. ASSUME NEW f \in Stamps, Outside(p, f) PROVE HoneytokenIInv'
    BY <1>2, <1>3, TouchKeeps DEF Outside
  <1>4. CASE ReadFile(p)
    <2>1. Stamped(file[p]) \in Stamps
      BY <1>2 DEF Stamped, Stamps
    <2> QED BY <1>3, <1>4, <2>1 DEF ReadFile
  <1>5. CASE WriteFile(p)
    <2>1. [file[p] EXCEPT !.mtime = 1] \in Stamps
      BY <1>2 DEF Stamps
    <2> QED BY <1>3, <1>5, <2>1 DEF WriteFile
  <1>6. CASE ReplaceFile(p)
    <2>1. [ino |-> 1, atime |-> 1, mtime |-> 1] \in Stamps
      BY DEF Stamps
    <2> QED BY <1>3, <1>6, <2>1 DEF ReplaceFile
  <1>7. CASE DeleteFile(p)
    <2>1. NoFile \in Stamps
      BY DEF NoFile, Stamps
    <2> QED BY <1>3, <1>7, <2>1 DEF DeleteFile
  <1>8. CASE PrimeFile(p)
    <2> DEFINE f == [file[p] EXCEPT !.atime = file[p].mtime - 1]
    <2>1. f \in Stamps
      BY <1>2 DEF Stamps
    <2>2. file' = [file EXCEPT ![p] = f]
      BY <1>2, <1>8 DEF PrimeFile
    <2> HIDE DEF f
    <2> QED BY <1>2, <1>8, <2>1, <2>2, TouchKeeps DEF PrimeFile
  <1> QED BY <1>1, <1>4, <1>5, <1>6, <1>7, <1>8

\* arm() keeps the file's inode, and what it remembers last is what is there.
LEMMA ArmKeeps == ASSUME HoneytokenIInv, NEW p \in Paths, Arm(p) PROVE HoneytokenIInv'
  <1> USE DEF HoneytokenIInv
  <1>1. /\ UNCHANGED <<tripped, caught, touched, lanes, phase, flushing, recorded, reported>>
        /\ \A q \in Paths : q /= p => arm'[q] = arm[q] /\ file'[q] = file[q] /\ baseline'[q] = baseline[q]
    BY DEF Arm, ArmRead, ArmStat, ArmPrime, ArmBaseline, Arming, WatcherType
  <1>2. file[p] \in Stamps /\ before[p] \in 0 .. 1 /\ baseline[p] \in Stamps
    BY DEF WatcherType
  <1>3. /\ file' \in [Paths -> Stamps] /\ baseline' \in [Paths -> Stamps] /\ before' \in [Paths -> 0 .. 1]
        /\ arm' \in [Paths -> {"no", "read", "stat", "primed", "armed"}]
        /\ file'[p].ino = file[p].ino
        /\ arm'[p] = "armed" => baseline'[p] = file'[p]
    <2>1. CASE ArmRead(p)
      <3>1. Stamped(file[p]) \in Stamps /\ Stamped(file[p]).ino = file[p].ino
        BY <1>2 DEF Stamped, Stamps
      <3> HIDE DEF Stamps
      <3> QED BY <2>1, <3>1 DEF ArmRead, Arming, WatcherType
    <2>2. CASE ArmStat(p)
      <3>1. file[p].mtime \in 0 .. 1
        BY <1>2 DEF Stamps
      <3> QED BY <2>2, <3>1 DEF ArmStat, Arming, WatcherType
    <2>3. CASE ArmPrime(p)
      <3> DEFINE f == [file[p] EXCEPT !.atime = before[p] - 1, !.mtime = before[p]]
      <3>1. f \in Stamps /\ f.ino = file[p].ino
        <4>1. before[p] - 1 \in -1 .. 1
          BY <1>2
        <4> DEFINE g == [file[p] EXCEPT !.atime = before[p] - 1]
        <4>2. g \in Stamps /\ g.ino = file[p].ino
          BY <1>2, <4>1 DEF Stamps
        <4>3. f = [g EXCEPT !.mtime = before[p]]
          OBVIOUS
        <4> HIDE DEF f, g
        <4> QED BY <1>2, <4>2, <4>3 DEF Stamps
      <3>2. file' = [file EXCEPT ![p] = f]
        BY <2>3 DEF ArmPrime, WatcherType
      <3> HIDE DEF f
      <3> QED BY <2>3, <3>1, <3>2 DEF ArmPrime, Arming, WatcherType
    <2>4. CASE ArmBaseline(p)
      BY <1>2, <2>4 DEF ArmBaseline, Arming, WatcherType
    <2> QED BY <2>1, <2>2, <2>3, <2>4 DEF Arm
  <1>4. WatcherType'
    BY <1>1, <1>3 DEF WatcherType
  <1>5. UntouchedIsKnown'
    <2>1. ASSUME NEW q \in Paths \ touched, q /= p PROVE LeftAlone(q)'
      BY <1>1, <2>1 DEF UntouchedIsKnown, LeftAlone
    <2>2. ASSUME p \notin touched PROVE LeftAlone(p)'
      BY <1>3, <2>2 DEF UntouchedIsKnown, LeftAlone
    <2> QED BY <1>1, <2>1, <2>2 DEF UntouchedIsKnown
  <1>6. NoFalseTrip'
    BY <1>1 DEF NoFalseTrip
  <1> QED BY <1>1, <1>4, <1>5, <1>6, LanesKept

-----------------------------------------------------------------------------
(* The lanes.                                                              *)

\* A trip is queued once, and its lane is being drained.
LEMMA EnqueueKeeps ==
    ASSUME HoneytokenIInv, NEW x \in Trips, Enqueue(x), UNCHANGED <<phase, flushing, recorded>>
    PROVE  LanesType' /\ PhaseType' /\ NothingIsDropped' /\ LaneIsDrained' /\ RunsUnbounded'
  <1> USE DEF HoneytokenIInv
  <1> DEFINE t == Tier(x)
  <1>1. t \in Tiers /\ LaneOK(queue[t], t) /\ DOMAIN queue = Tiers
    BY TierOfTrip DEF LanesType
  <1>2. reported' = reported \union {x}
    BY DEF Enqueue
  <1>3. PhaseType'
    BY <1>2 DEF PhaseType
  <1>4. CASE x \in Range(queue[t])
    <2>1. UNCHANGED <<queue, lane, attempts, budget>>
      BY <1>4 DEF Enqueue, lanes
    <2>2. LanesType' /\ LaneIsDrained' /\ RunsUnbounded'
      BY <2>1 DEF LanesType, LaneIsDrained, RunsUnbounded
    <2>3. NothingIsDropped'
      BY <1>2, <1>4, <2>1 DEF NothingIsDropped
    <2> QED BY <1>3, <2>2, <2>3
  <1>5. CASE x \notin Range(queue[t])
    <2> DEFINE r == Append(queue[t], x)
    <2>1. LaneOK(r, t) /\ r /= <<>> /\ Range(r) = Range(queue[t]) \union {x}
      BY <1>1, <1>5, Queued
    <2>2. queue' = [queue EXCEPT ![t] = r] /\ UNCHANGED budget
      BY <1>5 DEF Enqueue
    <2> HIDE DEF r
    <2>3. queue'[t] = r /\ DOMAIN queue' = Tiers /\ \A s \in Tiers : s /= t => queue'[s] = queue[s]
      BY <1>1, <2>2
    <2>4. lane' \in [Tiers -> {"idle", "post", "wait"}] /\ lane'[t] /= "idle"
          /\ \A s \in Tiers : s /= t => lane'[s] = lane[s]
      BY <1>1, <1>5 DEF Enqueue, LanesType
    <2>5. attempts' \in [Tiers -> 0 .. FlushAttempts]
      BY <1>1, <1>5, FlushAssumption DEF Enqueue, LanesType
    <2> HIDE DEF t
    <2>6. LanesType'
      BY <2>1, <2>2, <2>3, <2>4, <2>5 DEF LanesType
    <2>7. NothingIsDropped'
      <3>1. SUFFICES ASSUME NEW y \in reported' \ recorded' PROVE y \in Range(queue'[Tier(y)])
        BY DEF NothingIsDropped
      <3>2. CASE y = x
        BY <2>1, <2>3, <3>2 DEF t
      <3>3. CASE y /= x
        <4>1. y \in Range(queue[Tier(y)]) /\ Tier(y) \in Tiers
          BY <1>2, <3>1, <3>3, TierOfTrip DEF NothingIsDropped, PhaseType
        <4> QED BY <2>1, <2>3, <4>1
      <3> QED BY <3>2, <3>3
    <2>8. LaneIsDrained'
      BY <2>1, <2>3, <2>4 DEF LaneIsDrained
    <2>9. RunsUnbounded'
      BY <2>2 DEF RunsUnbounded
    <2> QED BY <1>3, <2>6, <2>7, <2>8, <2>9
  <1> QED BY <1>4, <1>5

\* The head of a lane was recorded and leaves it.
LEMMA LandedKeeps ==
    ASSUME HoneytokenIInv, NEW t \in Tiers, NEW x \in Trips, Posting(t, x), Landed(t),
           recorded' = recorded \union {x}, UNCHANGED <<watcher, phase, flushing, reported>>
    PROVE  HoneytokenIInv'
  <1> USE DEF HoneytokenIInv
  <1>1. LaneOK(queue[t], t) /\ DOMAIN queue = Tiers /\ queue[t] /= <<>> /\ x = Head(queue[t])
    BY DEF LanesType, Posting, IsNext
  <1> DEFINE r == Tail(queue[t])
  <1>2. /\ LaneOK(r, t) /\ Range(queue[t]) \subseteq Range(r) \union {x}
        /\ r /= <<>> <=> Len(queue[t]) > 1
    BY <1>1, Dequeued
  <1>3. /\ queue' = [queue EXCEPT ![t] = r] /\ UNCHANGED budget
        /\ lane' = [lane EXCEPT ![t] = IF r /= <<>> THEN "post" ELSE "idle"]
        /\ attempts' = [attempts EXCEPT ![t] = IF r /= <<>> THEN 1 ELSE 0]
    BY <1>2 DEF Landed
  <1> HIDE DEF r
  <1>4. queue'[t] = r /\ DOMAIN queue' = Tiers /\ \A s \in Tiers : s /= t => queue'[s] = queue[s]
    BY <1>1, <1>3
  <1>5. /\ lane' \in [Tiers -> {"idle", "post", "wait"}] /\ (lane'[t] /= "idle" <=> r /= <<>>)
        /\ \A s \in Tiers : s /= t => lane'[s] = lane[s]
    BY <1>3 DEF LanesType
  <1>6. attempts' \in [Tiers -> 0 .. FlushAttempts]
    BY <1>3, FlushAssumption DEF LanesType
  <1>7. LanesType'
    BY <1>2, <1>3, <1>4, <1>5, <1>6 DEF LanesType
  <1>8. NothingIsDropped'
    <2>1. SUFFICES ASSUME NEW y \in reported' \ recorded' PROVE y \in Range(queue'[Tier(y)])
      BY DEF NothingIsDropped
    <2>2. y \in Range(queue[Tier(y)]) /\ Tier(y) \in Tiers /\ y /= x
      BY <2>1, TierOfTrip DEF NothingIsDropped, PhaseType
    <2> QED BY <1>2, <1>4, <2>2
  <1>9. LaneIsDrained'
    BY <1>4, <1>5 DEF LaneIsDrained
  <1>10. RunsUnbounded'
    BY <1>3 DEF RunsUnbounded
  <1>11. PhaseType'
    BY DEF PhaseType
  <1>12. WatcherType' /\ UntouchedIsKnown' /\ NoFalseTrip'
    BY DEF WatcherType, UntouchedIsKnown, LeftAlone, NoFalseTrip, watcher
  <1> QED BY <1>7, <1>8, <1>9, <1>10, <1>11, <1>12

\* A refusal, a timeout, or the end of a backoff: the trip stays on its lane,
\* which is left idle only by a flush.
LEMMA RetryKeeps ==
    ASSUME HoneytokenIInv, NEW t \in Tiers, lane[t] /= "idle", PostFails(t) \/ Wake(t)
    PROVE  HoneytokenIInv'
  <1> USE DEF HoneytokenIInv
  <1>1. UNCHANGED <<watcher, queue, budget, phase, flushing, reported>>
    BY DEF PostFails, Wake, GiveUp
  <1>2. recorded \subseteq recorded' /\ recorded' \subseteq Trips
    BY DEF PostFails, Wake, PhaseType
  <1>3. /\ lane' \in [Tiers -> {"idle", "post", "wait"}]
        /\ \A s \in Tiers : s /= t => lane'[s] = lane[s]
        /\ phase = "run" => lane'[t] /= "idle"
    <2>1. phase = "run" => \A n : ~Exhausted(t, n)
      BY DEF RunsUnbounded, Exhausted
    <2> QED BY <2>1 DEF PostFails, Wake, GiveUp, LanesType
  <1>4. attempts' \in [Tiers -> 0 .. FlushAttempts]
    <2>1. attempts[t] \in 0 .. FlushAttempts /\ FlushAttempts \in Nat
      BY FlushAssumption DEF LanesType
    <2> QED BY <2>1 DEF PostFails, Wake, GiveUp, LanesType
  <1>5. LanesType'
    BY <1>1, <1>3, <1>4 DEF LanesType
  <1>6. PhaseType'
    BY <1>1, <1>2 DEF PhaseType
  <1>7. NothingIsDropped'
    BY <1>1, <1>2 DEF NothingIsDropped
  <1>8. LaneIsDrained' /\ RunsUnbounded'
    BY <1>1, <1>3 DEF LaneIsDrained, RunsUnbounded
  <1>9. WatcherType' /\ UntouchedIsKnown' /\ NoFalseTrip'
    BY <1>1 DEF WatcherType, UntouchedIsKnown, LeftAlone, NoFalseTrip, watcher
  <1> QED BY <1>5, <1>6, <1>7, <1>8, <1>9

\* Shutdown: lanes are drained under a budget, or no longer.
LEMMA ShutdownKeeps ==
    ASSUME HoneytokenIInv, Flush \/ Exit \/ \E t \in Tiers : LaneFlushed(t)
    PROVE  HoneytokenIInv'
  <1> USE DEF HoneytokenIInv
  <1>1. UNCHANGED <<watcher, queue, recorded, reported>>
    BY DEF Flush, Exit, LaneFlushed
  <1>2. lane' \in [Tiers -> {"idle", "post", "wait"}]
    BY DEF Flush, Exit, LaneFlushed, LanesType
  <1>3. attempts' \in [Tiers -> 0 .. FlushAttempts]
    BY FlushAssumption DEF Flush, Exit, LaneFlushed, LanesType
  <1>4. budget' \in [Tiers -> {0, FlushAttempts}]
    BY DEF Flush, Exit, LaneFlushed, LanesType
  <1>5. LanesType'
    BY <1>1, <1>2, <1>3, <1>4 DEF LanesType
  <1>6. PhaseType'
    BY <1>1 DEF Flush, Exit, LaneFlushed, PhaseType
  <1>7. LaneIsDrained' /\ RunsUnbounded'
    BY <1>1 DEF Flush, Exit, LaneFlushed, LaneIsDrained, RunsUnbounded, LanesType
  <1>8. NothingIsDropped'
    BY <1>1 DEF NothingIsDropped
  <1>9. WatcherType' /\ UntouchedIsKnown' /\ NoFalseTrip'
    BY <1>1 DEF WatcherType, UntouchedIsKnown, LeftAlone, NoFalseTrip, watcher
  <1> QED BY <1>5, <1>6, <1>7, <1>8, <1>9

\* A tool call that carries a decoy is reported.
LEMMA ReportKeeps == ASSUME HoneytokenIInv, NEW c \in Calls, ReportCall(c) PROVE HoneytokenIInv'
  <1>1. /\ Enqueue(c) /\ c \in Trips
        /\ UNCHANGED <<watcher, phase, flushing, recorded>>
    BY DEF ReportCall, Trips
  <1>2. LanesType' /\ PhaseType' /\ NothingIsDropped' /\ LaneIsDrained' /\ RunsUnbounded'
    BY <1>1, EnqueueKeeps
  <1>3. WatcherType' /\ UntouchedIsKnown' /\ NoFalseTrip'
    BY <1>1 DEF HoneytokenIInv, WatcherType, UntouchedIsKnown, LeftAlone, NoFalseTrip, watcher
  <1> QED BY <1>2, <1>3 DEF HoneytokenIInv

\* The watcher trips for a file that is not what its baseline tells of, which
\* another process must have touched.
LEMMA InspectKeeps == ASSUME HoneytokenIInv, NEW p \in Paths, Inspect(p) PROVE HoneytokenIInv'
  <1>1. /\ Enqueue(p) /\ p \in Trips /\ tripped' = tripped \union {p}
        /\ UNCHANGED <<file, arm, before, baseline, touched, caught, phase, flushing, recorded>>
    BY DEF Inspect, Trips
  <1>2. LanesType' /\ PhaseType' /\ NothingIsDropped' /\ LaneIsDrained' /\ RunsUnbounded'
    BY <1>1, EnqueueKeeps
  <1>3. p \in touched
    <2>1. SUFFICES ASSUME p \notin touched PROVE FALSE
      OBVIOUS
    <2>2. file[p].ino = 0 /\ baseline[p] = file[p]
      BY <2>1 DEF HoneytokenIInv, UntouchedIsKnown, LeftAlone, Inspect
    <2>3. file[p] /= NoFile
      BY <2>2 DEF NoFile
    <2>4. file[p].mtime \in Int /\ file[p].atime \in Int
      BY DEF HoneytokenIInv, WatcherType, Stamps
    <2>5. ~(file[p].mtime > baseline[p].mtime) /\ ~(file[p].atime > baseline[p].atime)
      BY <2>2, <2>4
    <2> QED BY <2>2, <2>3, <2>5 DEF Inspect, Touched
  <1>4. WatcherType'
    BY <1>1 DEF HoneytokenIInv, WatcherType
  <1>5. UntouchedIsKnown' /\ NoFalseTrip'
    BY <1>1, <1>3 DEF HoneytokenIInv, UntouchedIsKnown, LeftAlone, NoFalseTrip
  <1> QED BY <1>2, <1>4, <1>5 DEF HoneytokenIInv

LEMMA InspectLowerKeeps == ASSUME HoneytokenIInv, NEW p \in Paths, InspectLower(p) PROVE HoneytokenIInv'
  <1> USE DEF HoneytokenIInv
  <1>1. WatcherType'
    BY DEF InspectLower, WatcherType
  <1>2. UntouchedIsKnown'
    BY DEF InspectLower, WatcherType, UntouchedIsKnown, LeftAlone
  <1>3. NoFalseTrip'
    BY DEF InspectLower, NoFalseTrip
  <1>4. UNCHANGED <<lanes, phase, flushing, recorded, reported>>
    BY DEF InspectLower
  <1> QED BY <1>1, <1>2, <1>3, <1>4, LanesKept

LEMMA HoneytokenStep == HoneytokenIInv /\ [HoneytokenNext]_honeytokenVars => HoneytokenIInv'
  <1> SUFFICES ASSUME HoneytokenIInv, [HoneytokenNext]_honeytokenVars PROVE HoneytokenIInv'
    OBVIOUS
  <1>1. CASE Others
    BY <1>1, OthersKeep
  <1>2. ASSUME NEW p \in Paths, Arm(p) \/ Inspect(p) \/ InspectLower(p) PROVE HoneytokenIInv'
    BY <1>2, ArmKeeps, InspectKeeps, InspectLowerKeeps
  <1>3. ASSUME NEW c \in Calls, ReportCall(c) PROVE HoneytokenIInv'
    BY <1>3, ReportKeeps
  <1>4. ASSUME NEW t \in Tiers, PostLands(t) PROVE HoneytokenIInv'
    <2>1. PICK x \in Trips :
            /\ Posting(t, x) /\ recorded' = recorded \union {x} /\ Landed(t)
            /\ UNCHANGED <<watcher, phase, flushing, reported>>
      BY <1>4 DEF PostLands
    <2> QED BY <2>1, LandedKeeps
  <1>5. ASSUME NEW t \in Tiers, PostFails(t) \/ Wake(t) PROVE HoneytokenIInv'
    <2>1. lane[t] /= "idle"
      BY <1>5 DEF PostFails, Posting, Wake
    <2> QED BY <1>5, <2>1, RetryKeeps
  <1>6. CASE Flush \/ Exit \/ \E t \in Tiers : LaneFlushed(t)
    BY <1>6, ShutdownKeeps
  <1>7. CASE UNCHANGED honeytokenVars
    <2>1. WatcherType' /\ UntouchedIsKnown' /\ NoFalseTrip'
      BY <1>7 DEF HoneytokenIInv, WatcherType, UntouchedIsKnown, LeftAlone, NoFalseTrip,
                  honeytokenVars, watcher
    <2>2. UNCHANGED <<lanes, phase, flushing, recorded, reported>>
      BY <1>7 DEF honeytokenVars
    <2> QED BY <2>1, <2>2, LanesKept DEF HoneytokenIInv
  <1> QED BY <1>1, <1>2, <1>3, <1>4, <1>5, <1>6, <1>7 DEF HoneytokenNext

LEMMA HoneytokenImplies == HoneytokenIInv => HoneytokenInv
  <1> SUFFICES ASSUME HoneytokenIInv PROVE HoneytokenInv
    OBVIOUS
  <1>1. Stamps \subseteq Stats
    BY DEF Stamps, Stats
  <1>2. HoneytokenTypeOK
    BY <1>1 DEF HoneytokenIInv, WatcherType, LanesType, LaneOK, PhaseType, HoneytokenTypeOK
  <1> QED BY <1>2 DEF HoneytokenIInv, HoneytokenInv

\* Arming does not trip its own wire: whatever trips was touched by another
\* process; a trip that was reported stays on the lane of its tier, once, until
\* it is recorded; and a lane with something to deliver is being drained (arm,
\* inspect, enqueue, drain, flush).
THEOREM HoneytokenSafe == HoneytokenSpec => []HoneytokenInv
  <1> QED BY HoneytokenStarts, HoneytokenStep, HoneytokenImplies, PTL DEF HoneytokenSpec

-----------------------------------------------------------------------------
(* The escalation service: the inductive invariant.  Polls overlap, so that *)
(* a listing may be older than what is tracked.  A window it leaves out     *)
(* although it is open is misled from then on; what an accepted stop is    *)
(* owed for is tracked or misled, and so is a window that is open but      *)
(* closed in the run.                                                      *)

WindowStates == {"none", "open", "ended"}
Win == [delivered : BOOLEAN, closed : BOOLEAN]

ServiceType ==
    /\ window \in [Windows -> WindowStates]
    /\ clock \in 0 .. MaxTime
    /\ run \in Runs \union {None}
    /\ tracked \subseteq Windows /\ relays \subseteq Windows
    /\ owed \subseteq Windows /\ misled \subseteq Windows

\* A job; only a tick has a listing, or retries.
JobOK(x, j) ==
    /\ x = [at |-> x.at, listing |-> x.listing, relays |-> x.relays]
    /\ x.at \in {"idle", "listed", "retry", "act"}
    /\ x.relays \subseteq Windows /\ (x.listing = None \/ x.listing \subseteq Windows)
    /\ x.at \in {"listed", "retry"} => j \in Ticks
    /\ x.at \in {"idle", "listed"} => x.relays = {}

JobsOK == DOMAIN job = Jobs /\ \A j \in Jobs : JobOK(job[j], j)

\* The windows of a run, open or closed.
Known(r) == IF r = None THEN {} ELSE DOMAIN r.wins

ClosedIsOver == \A w \in Known(run) \ OpenIn(run) : Open(w) => w \in misled

KnownExist == \A w \in tracked \union Known(run) : window[w] /= "none"
ListedExist ==
    \A j \in Ticks : job[j].at = "listed" /\ job[j].listing /= None =>
        \A w \in job[j].listing : window[w] /= "none"

OwedIsOpen == \A w \in owed : Open(w) /\ w \in tracked \union misled

EscalationIInv ==
    /\ ServiceType /\ JobsOK
    /\ ClosedIsOver /\ KnownExist /\ ListedExist /\ OwedIsOpen
    /\ StopCoversTracked /\ StopIsNotForgotten

-----------------------------------------------------------------------------
(* The engine's run.                                                       *)

LEMMA RunShape ==
    ASSUME NEW r \in Runs
    PROVE  /\ r /= None /\ r = [start |-> r.start, fired |-> r.fired, wins |-> r.wins]
           /\ r.start \in -1 .. MaxTime /\ r.fired \subseteq RungIds
           /\ DOMAIN r.wins \in SUBSET Windows /\ r.wins \in [DOMAIN r.wins -> Win]
  <1>1. r.wins \in UNION {[S -> Win] : S \in SUBSET Windows} /\ r.fired \in SUBSET RungIds
    BY DEF Runs, Win
  <1>2. PICK S \in SUBSET Windows : r.wins \in [S -> Win]
    BY <1>1
  <1>3. DOMAIN r.wins = S
    BY <1>2
  <1>4. r /= None
    BY NoneAssumption
  <1>5. r = [start |-> r.start, fired |-> r.fired, wins |-> r.wins] /\ r.start \in -1 .. MaxTime
    BY DEF Runs
  <1> QED BY <1>1, <1>2, <1>3, <1>4, <1>5

LEMMA RunMade ==
    ASSUME NEW a \in -1 .. MaxTime, NEW f \in SUBSET RungIds, NEW S \in SUBSET Windows,
           NEW g \in [S -> Win]
    PROVE  LET r == [start |-> a, fired |-> f, wins |-> g]
           IN r \in Runs /\ r /= None
  <1>1. g \in UNION {[T -> Win] : T \in SUBSET Windows}
    OBVIOUS
  <1>2. [start |-> a, fired |-> f, wins |-> g] \in Runs
    BY <1>1 DEF Runs, Win
  <1> QED BY <1>2, NoneAssumption

LEMMA ClosedWindows ==
    ASSUME NEW r \in Runs \union {None}, NEW S
    PROVE  /\ WindowClosed(r, S) \in Runs \union {None}
           /\ OpenIn(WindowClosed(r, S)) = OpenIn(r) \ S
           /\ Known(WindowClosed(r, S)) = Known(r)
  <1>1. CASE r = None
    BY <1>1 DEF WindowClosed, OpenIn, Known
  <1>2. CASE r \in Runs
    <2> DEFINE g == [w \in DOMAIN r.wins |->
                        IF w \in S THEN [r.wins[w] EXCEPT !.closed = TRUE] ELSE r.wins[w]]
               d == [start |-> r.start, fired |-> r.fired, wins |-> g]
    <2>1. /\ r /= None /\ r = [start |-> r.start, fired |-> r.fired, wins |-> r.wins]
          /\ r.start \in -1 .. MaxTime /\ r.fired \in SUBSET RungIds
          /\ DOMAIN r.wins \in SUBSET Windows /\ r.wins \in [DOMAIN r.wins -> Win]
      BY <1>2, RunShape
    <2>2. /\ g \in [DOMAIN r.wins -> Win]
          /\ \A w \in DOMAIN r.wins : g[w].closed <=> r.wins[w].closed \/ w \in S
      BY <2>1 DEF Win
    <2>3. WindowClosed(r, S) = d
      BY <2>1 DEF WindowClosed
    <2> HIDE DEF g
    <2>4. d \in Runs /\ d /= None
      BY <2>1, <2>2, RunMade
    <2>5. d.wins = g /\ DOMAIN g = DOMAIN r.wins
      BY <2>2
    <2> HIDE DEF d
    <2>6. OpenIn(d) = {w \in DOMAIN g : ~g[w].closed} /\ OpenIn(r) = {w \in DOMAIN g : ~r.wins[w].closed}
      BY <2>1, <2>4, <2>5 DEF OpenIn
    <2>7. OpenIn(d) = OpenIn(r) \ S
      BY <2>2, <2>5, <2>6
    <2> QED BY <2>1, <2>3, <2>4, <2>5, <2>7 DEF Known
  <1> QED BY <1>1, <1>2

LEMMA SeenWindows ==
    ASSUME NEW r \in Runs \union {None}, NEW S
    PROVE  /\ WindowDelivered(r, S) \in Runs \union {None}
           /\ OpenIn(WindowDelivered(r, S)) = OpenIn(r)
           /\ Known(WindowDelivered(r, S)) = Known(r)
  <1>1. CASE r = None
    BY <1>1 DEF WindowDelivered, OpenIn, Known
  <1>2. CASE r \in Runs
    <2> DEFINE g == [w \in DOMAIN r.wins |->
                        IF w \in S THEN [r.wins[w] EXCEPT !.delivered = TRUE] ELSE r.wins[w]]
               d == [start |-> r.start, fired |-> r.fired, wins |-> g]
    <2>1. /\ r /= None /\ r = [start |-> r.start, fired |-> r.fired, wins |-> r.wins]
          /\ r.start \in -1 .. MaxTime /\ r.fired \in SUBSET RungIds
          /\ DOMAIN r.wins \in SUBSET Windows /\ r.wins \in [DOMAIN r.wins -> Win]
      BY <1>2, RunShape
    <2>2. /\ g \in [DOMAIN r.wins -> Win]
          /\ \A w \in DOMAIN r.wins : g[w].closed <=> r.wins[w].closed
      BY <2>1 DEF Win
    <2>3. WindowDelivered(r, S) = d
      BY <2>1 DEF WindowDelivered
    <2> HIDE DEF g
    <2>4. d \in Runs /\ d /= None
      BY <2>1, <2>2, RunMade
    <2>5. d.wins = g /\ DOMAIN g = DOMAIN r.wins
      BY <2>2
    <2> HIDE DEF d
    <2>6. OpenIn(d) = {w \in DOMAIN g : ~g[w].closed} /\ OpenIn(r) = {w \in DOMAIN g : ~r.wins[w].closed}
      BY <2>1, <2>4, <2>5 DEF OpenIn
    <2>7. OpenIn(d) = OpenIn(r)
      BY <2>2, <2>5, <2>6
    <2> QED BY <2>1, <2>3, <2>4, <2>5, <2>7 DEF Known
  <1> QED BY <1>1, <1>2

\* Windows the run does not know join it, open; the others stay as they are.
LEMMA OpenedWindows ==
    ASSUME NEW r \in Runs \union {None}, NEW S \in SUBSET Windows
    PROVE  /\ WindowOpened(r, S) \in Runs \union {None}
           /\ OpenIn(WindowOpened(r, S)) = OpenIn(r) \union (S \ Known(r))
           /\ Known(WindowOpened(r, S)) = Known(r) \union S
  <1>1. CASE S = {}
    BY <1>1 DEF WindowOpened
  <1>2. CASE S /= {} /\ r = None
    <2> DEFINE g == [w \in S |-> Fresh]
               d == [start |-> -1, fired |-> {}, wins |-> g]
    <2>1. g \in [S -> Win] /\ \A w \in S : ~g[w].closed
      BY DEF Fresh, Win
    <2>2. -1 \in -1 .. MaxTime /\ {} \in SUBSET RungIds
      BY LimitAssumption
    <2>3. WindowOpened(r, S) = d
      BY <1>2 DEF WindowOpened
    <2> HIDE DEF g
    <2>4. d \in Runs /\ d /= None
      BY <2>1, <2>2, RunMade
    <2>5. d.wins = g /\ DOMAIN g = S
      BY <2>1
    <2> HIDE DEF d
    <2>6. OpenIn(d) = S /\ OpenIn(r) = {}
      BY <1>2, <2>1, <2>4, <2>5 DEF OpenIn
    <2>7. Known(d) = S /\ Known(r) = {}
      BY <1>2, <2>4, <2>5 DEF Known
    <2> QED BY <2>3, <2>4, <2>6, <2>7
  <1>3. CASE S /= {} /\ r \in Runs
    <2> DEFINE T == DOMAIN r.wins \union S
               g == [w \in T |-> IF w \in DOMAIN r.wins THEN r.wins[w] ELSE Fresh]
               d == [start |-> r.start, fired |-> r.fired, wins |-> g]
    <2>1. /\ r /= None /\ r = [start |-> r.start, fired |-> r.fired, wins |-> r.wins]
          /\ r.start \in -1 .. MaxTime /\ r.fired \in SUBSET RungIds
          /\ DOMAIN r.wins \in SUBSET Windows /\ r.wins \in [DOMAIN r.wins -> Win]
      BY <1>3, RunShape
    <2>2. /\ g \in [T -> Win] /\ T \in SUBSET Windows
          /\ \A w \in DOMAIN r.wins : g[w] = r.wins[w]
          /\ \A w \in S \ DOMAIN r.wins : ~g[w].closed
      BY <2>1 DEF Fresh, Win
    <2>3. WindowOpened(r, S) = d
      BY <1>3, <2>1 DEF WindowOpened
    <2> HIDE DEF g
    <2>4. d \in Runs /\ d /= None
      BY <2>1, <2>2, RunMade
    <2>5. d.wins = g /\ DOMAIN g = T
      BY <2>2
    <2> HIDE DEF d
    <2>6. OpenIn(d) = {w \in T : ~g[w].closed} /\ OpenIn(r) = {w \in DOMAIN r.wins : ~r.wins[w].closed}
      BY <2>1, <2>4, <2>5 DEF OpenIn
    <2>7. Known(d) = T /\ Known(r) = DOMAIN r.wins
      BY <2>1, <2>4, <2>5 DEF Known
    <2>8. OpenIn(d) = OpenIn(r) \union (S \ Known(r))
      BY <2>2, <2>6, <2>7
    <2> QED BY <2>3, <2>4, <2>7, <2>8
  <1> QED BY <1>1, <1>2, <1>3

\* A tick lets go of the closed windows and keeps the open ones.
LEMMA TickedRun ==
    ASSUME clock \in 0 .. MaxTime, NEW r0 \in Runs \union {None}
    PROVE  LET e == EngineTick(r0).run
           IN e \in Runs \union {None} /\ OpenIn(e) = OpenIn(r0) /\ Known(e) = OpenIn(r0)
  <1> DEFINE S == OpenIn(r0)
             r == DropClosed(r0)
             e == EngineTick(r0).run
  <1>1. CASE S = {}
    <2>1. r = None
      BY <1>1 DEF DropClosed
    <2>2. e = None
      BY <2>1 DEF EngineTick
    <2> QED BY <1>1, <2>2 DEF OpenIn, Known
  <1>2. CASE S /= {}
    <2>1. r0 \in Runs
      BY <1>2 DEF OpenIn
    <2>2. /\ r0 /= None
          /\ r0.start \in -1 .. MaxTime /\ r0.fired \in SUBSET RungIds
          /\ DOMAIN r0.wins \in SUBSET Windows /\ r0.wins \in [DOMAIN r0.wins -> Win]
      BY <2>1, RunShape
    <2>3. S = {w \in DOMAIN r0.wins : ~r0.wins[w].closed}
      BY <2>2 DEF OpenIn
    <2> DEFINE a == IF r0.start = -1 THEN clock ELSE r0.start
               g == [w \in S |-> r0.wins[w]]
    <2>4. /\ a \in -1 .. MaxTime /\ S \in SUBSET Windows
          /\ g \in [S -> Win] /\ \A w \in S : ~g[w].closed
      BY <2>2, <2>3, LimitAssumption
    <2>5. r = [start |-> a, fired |-> r0.fired, wins |-> g]
      BY <1>2 DEF DropClosed
    <2> HIDE DEF S, a, g
    <2>6. r \in Runs /\ r /= None
      BY <2>2, <2>4, <2>5, RunMade
    <2> HIDE DEF r
    <2>7. \E f \in SUBSET RungIds : e = [start |-> a, fired |-> f, wins |-> g]
      <3>1. CASE \A w \in DOMAIN r.wins : r.wins[w].delivered
        <4>1. e = [r EXCEPT !.fired = RungIds]
          BY <2>6, <3>1 DEF EngineTick, r
        <4>2. e = [start |-> a, fired |-> RungIds, wins |-> g]
          BY <2>5, <4>1
        <4> QED BY <4>2
      <3>2. CASE ~\A w \in DOMAIN r.wins : r.wins[w].delivered
        <4>1. e = [r EXCEPT !.fired = @ \union Due(r)]
          BY <2>6, <3>2 DEF EngineTick, r
        <4>2. e = [start |-> a, fired |-> r0.fired \union Due(r), wins |-> g]
          BY <2>5, <4>1
        <4>3. r0.fired \union Due(r) \in SUBSET RungIds
          BY <2>2 DEF Due
        <4> QED BY <4>2, <4>3
      <3> QED BY <3>1, <3>2
    <2>8. PICK f \in SUBSET RungIds : e = [start |-> a, fired |-> f, wins |-> g]
      BY <2>7
    <2>9. e \in Runs /\ e /= None
      BY <2>4, <2>8, RunMade
    <2>10. e.wins = g /\ DOMAIN g = S
      BY <2>4, <2>8
    <2> HIDE DEF e
    <2>11. OpenIn(e) = S
      BY <2>4, <2>9, <2>10 DEF OpenIn
    <2>12. Known(e) = S
      BY <2>9, <2>10 DEF Known
    <2> QED BY <2>9, <2>11, <2>12 DEF S, e
  <1> QED BY <1>1, <1>2

\* After a listing the run holds open what was listed, but for the windows it
\* holds closed.
LEMMA ReconciledRun ==
    ASSUME run \in Runs \union {None}, OpenIn(run) \subseteq tracked,
           NEW l \in SUBSET Windows, NEW seen
    PROVE  /\ Reconciled(l, seen) \in Runs \union {None}
           /\ OpenIn(Reconciled(l, seen)) = (OpenIn(run) \intersect l) \union (l \ (tracked \union Known(run)))
           /\ Known(Reconciled(l, seen)) = Known(run) \union (l \ tracked)
  <1> DEFINE r1 == WindowClosed(run, tracked \ l)
             r2 == WindowOpened(r1, l \ tracked)
  <1>1. r1 \in Runs \union {None} /\ OpenIn(r1) = OpenIn(run) \ (tracked \ l) /\ Known(r1) = Known(run)
    BY ClosedWindows
  <1> HIDE DEF r1
  <1>2. /\ r2 \in Runs \union {None} /\ OpenIn(r2) = OpenIn(r1) \union ((l \ tracked) \ Known(r1))
        /\ Known(r2) = Known(r1) \union (l \ tracked)
    BY <1>1, OpenedWindows
  <1> HIDE DEF r2
  <1>3. /\ WindowDelivered(r2, seen) \in Runs \union {None}
        /\ OpenIn(WindowDelivered(r2, seen)) = OpenIn(r2) /\ Known(WindowDelivered(r2, seen)) = Known(r2)
    BY <1>2, SeenWindows
  <1>4. Reconciled(l, seen) = WindowDelivered(r2, seen)
    BY DEF Reconciled, r1, r2
  <1> QED BY <1>1, <1>2, <1>3, <1>4

-----------------------------------------------------------------------------
(* The jobs.                                                               *)

LEMMA IdleIsOK == ASSUME NEW j PROVE JobOK(Idle, j) /\ Idle.at = "idle" /\ Idle.relays = {}
  BY DEF JobOK, Idle

LEMMA AfterJob ==
    ASSUME NEW x, NEW j, JobOK(x, j)
    PROVE  /\ JobOK(After(x), j) /\ After(x).relays = x.relays
           /\ After(x).at = x.at \/ After(x).at = "idle"
  <1>1. CASE After(x) = x
    BY <1>1
  <1>2. CASE After(x) = Idle /\ x.relays = {}
    BY <1>2, IdleIsOK
  <1> QED BY <1>1, <1>2 DEF After

\* Jobs of which some fields are set, field by field.
LEMMA JobListed ==
    ASSUME NEW x, NEW l, x = [at |-> x.at, listing |-> x.listing, relays |-> x.relays]
    PROVE  [x EXCEPT !.at = "listed", !.listing = l]
             = [at |-> "listed", listing |-> l, relays |-> x.relays]
  <1> DEFINE y == [x EXCEPT !.at = "listed"]
  <1>1. y = [at |-> "listed", listing |-> x.listing, relays |-> x.relays]
    OBVIOUS
  <1>2. [x EXCEPT !.at = "listed", !.listing = l] = [y EXCEPT !.listing = l]
    OBVIOUS
  <1> HIDE DEF y
  <1>3. [y EXCEPT !.listing = l] = [at |-> "listed", listing |-> l, relays |-> x.relays]
    BY <1>1
  <1> QED BY <1>2, <1>3

LEMMA JobRetries ==
    ASSUME NEW x, NEW S, x = [at |-> x.at, listing |-> x.listing, relays |-> x.relays]
    PROVE  [x EXCEPT !.at = "retry", !.listing = None, !.relays = S]
             = [at |-> "retry", listing |-> None, relays |-> S]
  <1> DEFINE y == [x EXCEPT !.at = "retry"]
             z == [y EXCEPT !.listing = None]
  <1>1. y = [at |-> "retry", listing |-> x.listing, relays |-> x.relays]
    OBVIOUS
  <1>2. [x EXCEPT !.at = "retry", !.listing = None, !.relays = S] = [z EXCEPT !.relays = S]
    OBVIOUS
  <1> HIDE DEF y
  <1>3. z = [at |-> "retry", listing |-> None, relays |-> x.relays]
    BY <1>1
  <1> HIDE DEF z
  <1>4. [z EXCEPT !.relays = S] = [at |-> "retry", listing |-> None, relays |-> S]
    BY <1>3
  <1> QED BY <1>2, <1>4

\* The engine ticks for a job, which is left with what the tick asked for.
LEMMA TickedJob ==
    ASSUME clock \in 0 .. MaxTime, JobsOK, NEW j \in Jobs, NEW r \in Runs \union {None},
           NEW rel \in SUBSET Windows, Ticked(j, r, rel)
    PROVE  /\ run' \in Runs \union {None} /\ OpenIn(run') = OpenIn(r) /\ Known(run') = OpenIn(r)
           /\ DOMAIN job' = Jobs /\ JobOK(job'[j], j)
           /\ job'[j].relays = rel /\ job'[j].at \in {"idle", "act"}
           /\ \A i \in Jobs : i /= j => job'[i] = job[i]
  <1> DEFINE e == EngineTick(r)
             x == [at |-> "act", listing |-> None, relays |-> rel]
  <1>1. run' = e.run /\ job' = [job EXCEPT ![j] = After(x)]
    BY DEF Ticked
  <1>2. e.run \in Runs \union {None} /\ OpenIn(e.run) = OpenIn(r) /\ Known(e.run) = OpenIn(r)
    BY TickedRun
  <1>3. JobOK(x, j) /\ x.relays = rel /\ x.at = "act"
    <2> HIDE DEF e
    <2> QED BY DEF JobOK
  <1> HIDE DEF e, x
  <1>4. /\ JobOK(After(x), j) /\ After(x).relays = rel
        /\ After(x).at \in {"idle", "act"}
    BY <1>3, AfterJob
  <1>5. job'[j] = After(x) /\ DOMAIN job' = Jobs /\ \A i \in Jobs : i /= j => job'[i] = job[i]
    BY <1>1 DEF JobsOK
  <1> QED BY <1>1, <1>2, <1>4, <1>5

LEMMA JobsKept ==
    ASSUME JobsOK, NEW j \in Jobs, DOMAIN job' = Jobs, JobOK(job'[j], j),
           \A i \in Jobs : i /= j => job'[i] = job[i]
    PROVE  JobsOK'
  BY DEF JobsOK

-----------------------------------------------------------------------------
(* The escalation service: the inductive invariant holds.                  *)

LEMMA EscalationStarts == Init => EscalationIInv
  <1> SUFFICES ASSUME Init PROVE EscalationIInv
    OBVIOUS
  <1> USE DEF Init
  <1>1. ServiceType
    BY LimitAssumption DEF ServiceType, WindowStates
  <1>2. JobsOK
    BY IdleIsOK DEF JobsOK
  <1>3. ClosedIsOver /\ KnownExist /\ OwedIsOpen
    BY DEF ClosedIsOver, Known, KnownExist, OwedIsOpen
  <1>4. ListedExist
    BY DEF ListedExist, Idle, Jobs
  <1>5. StopCoversTracked /\ StopIsNotForgotten
    BY DEF StopCoversTracked, OpenIn, StopIsNotForgotten
  <1> QED BY <1>1, <1>2, <1>3, <1>4, <1>5 DEF EscalationIInv

\* The windows of the control plane move on, and what is owed ends with them.
LEMMA WindowsKeep ==
    ASSUME EscalationIInv,
           Advance \/ \E w \in Windows : PostRegisterVeto(w) \/ Ended(w)
    PROVE  EscalationIInv'
  <1> USE DEF EscalationIInv
  <1>1. UNCHANGED <<run, tracked, relays, job>>
    BY DEF Advance, PostRegisterVeto, Ended, engine
  <1> DEFINE old == tracked \union Known(run)
  <1>2. /\ window' \in [Windows -> WindowStates] /\ owed' \subseteq owed
        /\ \A w \in Windows : window[w] /= "none" => window'[w] /= "none"
        /\ \A w \in Windows : window[w] /= "none" /\ window'[w] = "open" => window[w] = "open"
        /\ \A w \in owed' : window'[w] = window[w]
        /\ misled' \subseteq misled /\ \A w \in misled \ misled' : window'[w] /= "open"
    <2>1. CASE Advance
      BY <2>1 DEF Advance, ServiceType
    <2>2. ASSUME NEW w \in Windows, PostRegisterVeto(w)
          PROVE  /\ window' \in [Windows -> WindowStates] /\ owed' = owed /\ misled' = misled
                 /\ \A v \in Windows : v /= w => window'[v] = window[v]
                 /\ window'[w] = "open" /\ window[w] = "none"
      BY <2>2 DEF PostRegisterVeto, ServiceType, WindowStates
    <2>3. ASSUME NEW w \in Windows, Ended(w)
          PROVE  /\ window' \in [Windows -> WindowStates] /\ owed' = owed \ {w} /\ misled' = misled \ {w}
                 /\ \A v \in Windows : v /= w => window'[v] = window[v]
                 /\ window'[w] = "ended"
      BY <2>3 DEF Ended, ServiceType, WindowStates
    <2>4. \A w \in owed : w \in Windows /\ window[w] /= "none"
      BY DEF ServiceType, OwedIsOpen, Open
    <2> QED BY <2>1, <2>2, <2>3, <2>4
  <1>3. ServiceType'
    <2>1. clock' \in 0 .. MaxTime
      BY LimitAssumption DEF Advance, PostRegisterVeto, Ended, ServiceType
    <2> QED BY <1>1, <1>2, <2>1 DEF ServiceType
  <1>4. JobsOK' /\ Known(run)' = Known(run) /\ OpenIn(run)' = OpenIn(run)
    BY <1>1 DEF JobsOK
  <1>5. old \subseteq Windows /\ \A w \in old : window[w] /= "none"
    <2>1. Known(run) \subseteq Windows
      BY RunShape DEF Known, ServiceType
    <2> QED BY <2>1 DEF ServiceType, KnownExist
  <1>6. ClosedIsOver' /\ KnownExist'
    BY <1>1, <1>2, <1>4, <1>5 DEF ClosedIsOver, KnownExist, Open
  <1>7. ListedExist'
    <2>1. \A j \in Ticks : job[j].listing = None \/ job[j].listing \subseteq Windows
      BY DEF JobsOK, JobOK, Jobs
    <2> QED BY <1>1, <1>2, <2>1 DEF ListedExist
  <1>8. StopCoversTracked'
    BY <1>1, <1>2, <1>4, <1>5 DEF StopCoversTracked, Open
  <1>9. OwedIsOpen'
    BY <1>1, <1>2 DEF OwedIsOpen, Open
  <1>10. StopIsNotForgotten'
    BY <1>1, <1>2, <1>9 DEF StopIsNotForgotten, OwedIsOpen, Open
  <1> QED BY <1>3, <1>4, <1>6, <1>7, <1>8, <1>9, <1>10

\* The answer of the control plane is on its way, or none is.
LEMMA PollKeeps ==
    ASSUME EscalationIInv, NEW j \in Ticks, GetVetoPending(j) \/ ListingFails(j)
    PROVE  EscalationIInv'
  <1> USE DEF EscalationIInv
  <1>1. PICK l : /\ Poll(j, l)
                 /\ l = None \/ (l \in SUBSET Windows /\ l = {w \in Windows : Open(w)})
    BY DEF GetVetoPending, ListingFails
  <1>2. /\ job[j].at = "idle" /\ j \in Jobs
        /\ UNCHANGED <<window, clock, run, tracked, relays, owed, misled>>
    BY <1>1 DEF Poll, Jobs, engine
  <1> DEFINE x == [job[j] EXCEPT !.at = "listed", !.listing = l]
  <1>3. job' = [job EXCEPT ![j] = x]
    BY <1>1 DEF Poll
  <1>4. JobOK(x, j) /\ x.at = "listed" /\ x.listing = l /\ x.relays = {}
    <2>1. JobOK(job[j], j) /\ job[j].relays = {}
      BY <1>2 DEF JobsOK, JobOK
    <2>2. x = [at |-> "listed", listing |-> l, relays |-> job[j].relays]
      BY <2>1, JobListed DEF JobOK
    <2> HIDE DEF x
    <2> QED BY <1>1, <2>1, <2>2 DEF JobOK
  <1> HIDE DEF x
  <1>5. job'[j] = x /\ DOMAIN job' = Jobs /\ \A i \in Jobs : i /= j => job'[i] = job[i]
    BY <1>2, <1>3 DEF JobsOK
  <1>6. ServiceType' /\ StopCoversTracked' /\ ClosedIsOver' /\ KnownExist' /\ OwedIsOpen'
    BY <1>2 DEF ServiceType, StopCoversTracked, ClosedIsOver, KnownExist, OwedIsOpen, Open
  <1>7. JobsOK'
    BY <1>2, <1>4, <1>5, JobsKept
  <1>8. ListedExist'
    <2>1. SUFFICES ASSUME NEW i \in Ticks, job'[i].at = "listed", job'[i].listing /= None,
                          NEW w \in job'[i].listing
                   PROVE  window[w] /= "none"
      BY <1>2 DEF ListedExist
    <2>2. CASE i = j
      BY <1>1, <1>4, <1>5, <2>1, <2>2 DEF Open
    <2>3. CASE i /= j
      BY <1>5, <2>1, <2>3 DEF ListedExist, Jobs
    <2> QED BY <2>2, <2>3
  <1>9. StopIsNotForgotten'
    <2>1. ASSUME NEW i \in Jobs, NEW w \in job[i].relays PROVE w \in job'[i].relays
      BY <1>2, <1>5, <2>1 DEF JobsOK, JobOK
    <2> QED BY <1>2, <2>1 DEF StopIsNotForgotten
  <1> QED BY <1>6, <1>7, <1>8, <1>9

\* What a listing makes of the engine's run and of what is tracked, before the
\* engine ticks.  A window it leaves out although it is open is misled.
LEMMA ListingApplied ==
    ASSUME EscalationIInv, NEW l \in (SUBSET Windows) \union {None}, NEW seen, NEW N, NEW r,
           l /= None => \A w \in l : window[w] /= "none",
           N = NowTracked(l), r = (IF l = None THEN run ELSE Reconciled(l, seen)),
           misled' = misled \union IF l = None THEN {} ELSE {w \in tracked \ l : Open(w)}
    PROVE  /\ N \in SUBSET Windows /\ r \in Runs \union {None}
           /\ misled \subseteq misled' /\ misled' \subseteq Windows
           /\ OpenIn(r) \subseteq N
           /\ \A w \in N \ misled' : Open(w) => w \in OpenIn(r)
           /\ \A w \in Known(r) \ OpenIn(r) : Open(w) => w \in misled'
           /\ \A w \in N \union Known(r) : window[w] /= "none"
           /\ \A w \in owed : w \in N \union misled'
  <1> USE DEF EscalationIInv
  <1>1. CASE l = None
    <2>1. N = tracked /\ r = run /\ misled' = misled
      BY <1>1 DEF NowTracked
    <2> QED BY <2>1 DEF ServiceType, StopCoversTracked, ClosedIsOver, KnownExist, OwedIsOpen
  <1>2. CASE l /= None
    <2>1. /\ N = l /\ l \in SUBSET Windows /\ r = Reconciled(l, seen)
          /\ misled' = misled \union {w \in tracked \ l : Open(w)}
      <3>1. N = l /\ l \in SUBSET Windows
        BY <1>2 DEF NowTracked
      <3>2. r = Reconciled(l, seen)
        BY <1>2
      <3>3. misled' = misled \union {w \in tracked \ l : Open(w)}
        BY <1>2
      <3> QED BY <3>1, <3>2, <3>3
    <2>2. /\ run \in Runs \union {None} /\ OpenIn(run) \subseteq tracked
          /\ tracked \subseteq Windows /\ misled \subseteq Windows
      BY DEF ServiceType, StopCoversTracked
    <2>3. /\ r \in Runs \union {None}
          /\ OpenIn(r) = (OpenIn(run) \intersect l) \union (l \ (tracked \union Known(run)))
          /\ Known(r) = Known(run) \union (l \ tracked)
      BY <2>1, <2>2, ReconciledRun
    <2>4. ASSUME NEW w \in l \ misled', Open(w) PROVE w \in OpenIn(r)
      <3>1. CASE w \in tracked
        BY <2>1, <2>3, <2>4, <3>1 DEF StopCoversTracked
      <3>2. CASE w \notin tracked
        <4>1. w \notin Known(run)
          BY <2>1, <2>2, <2>4, <3>2 DEF ClosedIsOver
        <4> QED BY <2>3, <3>2, <4>1
      <3> QED BY <3>1, <3>2
    <2>5. ASSUME NEW w \in Known(r) \ OpenIn(r), Open(w) PROVE w \in misled'
      <3>1. CASE w \in OpenIn(run)
        BY <2>1, <2>2, <2>3, <2>5, <3>1
      <3>2. CASE w \in Known(run) \ OpenIn(run)
        BY <2>1, <2>5, <3>2 DEF ClosedIsOver
      <3> QED BY <2>3, <2>5, <3>1, <3>2
    <2>6. \A w \in N \union Known(r) : window[w] /= "none"
      BY <1>2, <2>1, <2>3 DEF KnownExist
    <2>7. \A w \in owed : w \in N \union misled'
      BY <2>1 DEF OwedIsOpen
    <2> QED BY <2>1, <2>2, <2>3, <2>4, <2>5, <2>6, <2>7
  <1> QED BY <1>1, <1>2

\* The listing is applied, and a stop whose window is tracked is retried.
LEMMA ReconcileKeeps ==
    ASSUME EscalationIInv, NEW j \in Ticks, Reconcile(j)
    PROVE  EscalationIInv'
  <1> USE DEF EscalationIInv
  <1> DEFINE l == job[j].listing
             N == NowTracked(l)
             retries == relays \intersect N
  <1>1. /\ job[j].at = "listed" /\ j \in Jobs /\ job[j].relays = {} /\ JobOK(job[j], j)
        /\ l \in (SUBSET Windows) \union {None}
        /\ l /= None => \A w \in l : window[w] /= "none"
    <2>1. job[j].at = "listed" /\ j \in Jobs
      BY DEF Reconcile, Jobs
    <2>2. JobOK(job[j], j)
      BY <2>1 DEF JobsOK
    <2>3. job[j].relays = {} /\ l \in (SUBSET Windows) \union {None}
      BY <2>1, <2>2 DEF JobOK
    <2>4. l /= None => \A w \in l : window[w] /= "none"
      BY <2>1 DEF ListedExist
    <2> QED BY <2>1, <2>2, <2>3, <2>4
  <1>2. PICK seen :
          LET r == IF l = None THEN run ELSE Reconciled(l, seen)
          IN /\ tracked' = N /\ relays' = {}
             /\ IF retries = {}
                THEN Ticked(j, r, {})
                ELSE /\ run' = r
                     /\ job' = [job EXCEPT ![j].at = "retry", ![j].listing = None,
                                           ![j].relays = retries]
             /\ misled' = misled \union IF l = None THEN {} ELSE {w \in tracked \ l : Open(w)}
    BY DEF Reconcile
  <1> DEFINE r == IF l = None THEN run ELSE Reconciled(l, seen)
  <1>3. UNCHANGED <<window, clock, owed>>
    BY DEF Reconcile
  <1>4. /\ N \in SUBSET Windows /\ r \in Runs \union {None}
        /\ misled \subseteq misled' /\ misled' \subseteq Windows
        /\ OpenIn(r) \subseteq N
        /\ \A w \in N \ misled' : Open(w) => w \in OpenIn(r)
        /\ \A w \in Known(r) \ OpenIn(r) : Open(w) => w \in misled'
        /\ \A w \in N \union Known(r) : window[w] /= "none"
        /\ \A w \in owed : w \in N \union misled'
    <2>1. misled' = misled \union IF l = None THEN {} ELSE {w \in tracked \ l : Open(w)}
      BY <1>2
    <2>2. N = NowTracked(l) /\ r = (IF l = None THEN run ELSE Reconciled(l, seen))
      OBVIOUS
    <2> HIDE DEF r, N, l
    <2> QED BY <1>1, <2>1, <2>2, ListingApplied
  <1>5. tracked' = N /\ relays' = {}
    BY <1>2
  \* What holds of the run before the tick holds of it after.
  <1>6. ASSUME run' \in Runs \union {None}, OpenIn(run') = OpenIn(r), Known(run') \subseteq Known(r)
        PROVE  /\ ServiceType' /\ StopCoversTracked' /\ ClosedIsOver'
               /\ KnownExist' /\ OwedIsOpen'
    <2> HIDE DEF r, N, l
    <2>1. ServiceType'
      BY <1>3, <1>4, <1>5, <1>6 DEF ServiceType
    <2>2. StopCoversTracked'
      BY <1>3, <1>4, <1>5, <1>6 DEF StopCoversTracked, Open
    <2>3. ClosedIsOver'
      BY <1>3, <1>4, <1>6 DEF ClosedIsOver, Open
    <2>4. KnownExist'
      BY <1>3, <1>4, <1>5, <1>6 DEF KnownExist
    <2>5. OwedIsOpen'
      BY <1>3, <1>4, <1>5 DEF OwedIsOpen, Open
    <2> QED BY <2>1, <2>2, <2>3, <2>4, <2>5
  \* So do the jobs, of which this one has the retries.
  <1>7. ASSUME DOMAIN job' = Jobs, JobOK(job'[j], j), job'[j].relays = retries,
               job'[j].at /= "listed", \A i \in Jobs : i /= j => job'[i] = job[i]
        PROVE  JobsOK' /\ ListedExist' /\ StopIsNotForgotten'
    <2>1. JobsOK'
      BY <1>1, <1>7, JobsKept
    <2>2. ListedExist'
      BY <1>3, <1>7 DEF ListedExist, Jobs
    <2>3. StopIsNotForgotten'
      <3>1. SUFFICES ASSUME NEW w \in owed, w \notin misled'
                     PROVE  \E i \in Jobs : w \in job'[i].relays
        BY <1>3 DEF StopIsNotForgotten
      <3>2. w \in N /\ w \notin misled
        BY <1>4, <3>1
      <3>3. CASE w \in relays
        BY <1>1, <1>7, <3>2, <3>3
      <3>4. CASE w \notin relays
        <4>1. PICK i \in Jobs : w \in job[i].relays
          BY <3>1, <3>2, <3>4 DEF StopIsNotForgotten
        <4>2. i /= j
          BY <1>1, <4>1
        <4> QED BY <1>7, <4>1, <4>2
      <3> QED BY <3>3, <3>4
    <2> QED BY <2>1, <2>2, <2>3
  <1>8. CASE retries = {}
    <2>1. Ticked(j, r, {})
      BY <1>2, <1>8
    <2>2. clock \in 0 .. MaxTime /\ {} \in SUBSET Windows
      BY DEF ServiceType
    <2>3. OpenIn(r) \subseteq Known(r)
      BY DEF OpenIn, Known
    <2> HIDE DEF r, N, l
    <2>4. /\ run' \in Runs \union {None} /\ OpenIn(run') = OpenIn(r) /\ Known(run') = OpenIn(r)
          /\ DOMAIN job' = Jobs /\ JobOK(job'[j], j)
          /\ job'[j].relays = {} /\ job'[j].at \in {"idle", "act"}
          /\ \A i \in Jobs : i /= j => job'[i] = job[i]
      BY <1>1, <1>4, <2>1, <2>2, TickedJob
    <2>5. ServiceType' /\ StopCoversTracked' /\ ClosedIsOver' /\ KnownExist' /\ OwedIsOpen'
      BY <1>6, <2>3, <2>4
    <2>6. JobsOK' /\ ListedExist' /\ StopIsNotForgotten'
      BY <1>7, <1>8, <2>4
    <2> QED BY <2>5, <2>6
  <1>9. CASE retries /= {}
    <2> DEFINE x == [job[j] EXCEPT !.at = "retry", !.listing = None, !.relays = retries]
    <2>1. run' = r
      BY <1>2, <1>9
    <2>2. job' = [job EXCEPT ![j] = x]
      BY <1>1, <1>2, <1>9 DEF JobsOK
    <2> HIDE DEF r, retries, N, l
    <2>3. JobOK(x, j) /\ x.at = "retry" /\ x.relays = retries
      <3>1. x = [at |-> "retry", listing |-> None, relays |-> retries]
        BY <1>1, JobRetries DEF JobOK
      <3>2. retries \subseteq Windows
        BY <1>4 DEF retries
      <3> HIDE DEF x
      <3> QED BY <1>1, <3>1, <3>2 DEF JobOK
    <2> HIDE DEF x
    <2>4. job'[j] = x /\ DOMAIN job' = Jobs /\ \A i \in Jobs : i /= j => job'[i] = job[i]
      BY <1>1, <2>2 DEF JobsOK
    <2>5. ServiceType' /\ StopCoversTracked' /\ ClosedIsOver' /\ KnownExist' /\ OwedIsOpen'
      BY <1>4, <1>6, <2>1
    <2>6. JobsOK' /\ ListedExist' /\ StopIsNotForgotten'
      BY <1>7, <2>3, <2>4
    <2> QED BY <2>5, <2>6
  <1> QED BY <1>8, <1>9

\* A relay of a job is dealt with; after the last retry the engine ticks.
LEMMA RelayedJob ==
    ASSUME EscalationIInv, NEW j \in Jobs, NEW w \in Windows, Relayed(j, w)
    PROVE  /\ run' \in Runs \union {None} /\ OpenIn(run') = OpenIn(run)
           /\ Known(run') \subseteq Known(run)
           /\ DOMAIN job' = Jobs /\ JobOK(job'[j], j)
           /\ job'[j].relays = job[j].relays \ {w} /\ job'[j].at /= "listed"
           /\ \A i \in Jobs : i /= j => job'[i] = job[i]
  <1> USE DEF EscalationIInv
  <1>1. /\ job[j].at \in {"retry", "act"} /\ w \in job[j].relays /\ JobOK(job[j], j)
        /\ clock \in 0 .. MaxTime /\ run \in Runs \union {None} /\ DOMAIN job = Jobs
    BY DEF Relayed, JobsOK, ServiceType
  <1>2. CASE job[j].at = "retry" /\ job[j].relays = {w}
    <2>1. Ticked(j, run, {})
      BY <1>2 DEF Relayed
    <2>2. {} \in SUBSET Windows /\ OpenIn(run) \subseteq Known(run)
      BY DEF OpenIn, Known
    <2>3. /\ run' \in Runs \union {None} /\ OpenIn(run') = OpenIn(run) /\ Known(run') = OpenIn(run)
          /\ DOMAIN job' = Jobs /\ JobOK(job'[j], j)
          /\ job'[j].relays = {} /\ job'[j].at \in {"idle", "act"}
          /\ \A i \in Jobs : i /= j => job'[i] = job[i]
      BY <1>1, <2>1, <2>2, TickedJob
    <2> QED BY <1>2, <2>2, <2>3
  <1>3. CASE ~(job[j].at = "retry" /\ job[j].relays = {w})
    <2> DEFINE x == [job[j] EXCEPT !.relays = job[j].relays \ {w}]
    <2>1. job' = [job EXCEPT ![j] = After(x)] /\ run' = run
      <3>1. run' = run
        BY <1>1, <1>3 DEF Relayed, engine
      <3>2. job' = [job EXCEPT ![j] = After([job[j] EXCEPT !.relays = job[j].relays \ {w}])]
        BY <1>1, <1>3 DEF Relayed
      <3> QED BY <3>1, <3>2
    <2>2. x = [at |-> job[j].at, listing |-> job[j].listing,
               relays |-> job[j].relays \ {w}]
      BY <1>1 DEF JobOK
    <2> HIDE DEF x
    <2>3. x.relays = job[j].relays \ {w} /\ x.at = job[j].at
      BY <2>2
    <2>4. JobOK(x, j)
      <3>1. /\ job[j].relays \subseteq Windows
            /\ job[j].listing = None \/ job[j].listing \subseteq Windows
            /\ job[j].at = "retry" => j \in Ticks
        BY <1>1 DEF JobOK
      <3> QED BY <1>1, <2>2, <3>1 DEF JobOK
    <2>5. /\ JobOK(After(x), j) /\ After(x).relays = x.relays
          /\ After(x).at = x.at \/ After(x).at = "idle"
      BY <2>4, AfterJob
    <2>6. job'[j] = After(x) /\ DOMAIN job' = Jobs /\ \A i \in Jobs : i /= j => job'[i] = job[i]
      BY <1>1, <2>1
    <2>7. job'[j].at /= "listed"
      BY <1>1, <2>3, <2>5, <2>6
    <2> QED BY <1>1, <2>1, <2>3, <2>5, <2>6, <2>7
  <1> QED BY <1>2, <1>3

\* A stop that a relay was to carry is carried, dropped because it was refused,
\* or queued to be relayed again.
LEMMA RelayKeeps == ASSUME EscalationIInv, NEW j \in Jobs, Relaying(j) PROVE EscalationIInv'
  <1> USE DEF EscalationIInv
  <1>1. PICK w \in Windows : RelayAnswered(j, w) \/ RelayThrows(j, w) \/ RelayRefused(j, w)
    BY DEF Relaying
  <1>2. Relayed(j, w) /\ UNCHANGED <<clock, tracked>>
    BY <1>1 DEF RelayAnswered, RelayThrows, RelayRefused, Relayed
  <1>3. /\ run' \in Runs \union {None} /\ OpenIn(run') = OpenIn(run)
        /\ Known(run') \subseteq Known(run)
        /\ DOMAIN job' = Jobs /\ JobOK(job'[j], j)
        /\ job'[j].relays = job[j].relays \ {w} /\ job'[j].at /= "listed"
        /\ \A i \in Jobs : i /= j => job'[i] = job[i]
    BY <1>2, RelayedJob
  <1>4. /\ owed' \subseteq owed /\ relays \subseteq relays' /\ relays' \subseteq Windows
        /\ w \in owed' => w \in relays'
    BY <1>1 DEF RelayAnswered, RelayThrows, RelayRefused, Lands, ServiceType
  <1>5. /\ window' \in [Windows -> WindowStates]
        /\ \A v \in Windows : window[v] /= "none" => window'[v] /= "none"
        /\ \A v \in Windows : window'[v] = "open" => window[v] = "open"
        /\ \A v \in owed' : window'[v] = window[v]
        /\ misled' \subseteq misled /\ \A v \in misled \ misled' : window'[v] /= "open"
    <2>1. window \in [Windows -> WindowStates] /\ owed \subseteq Windows
      BY DEF ServiceType
    <2>2. CASE Lands(w)
      BY <2>1, <2>2 DEF Lands, WindowStates, Open
    <2>3. CASE window' = window /\ misled' = misled
      BY <2>1, <2>3
    <2> QED BY <1>1, <2>2, <2>3 DEF RelayAnswered, RelayThrows, RelayRefused
  <1>6. ServiceType'
    BY <1>2, <1>3, <1>4, <1>5 DEF ServiceType
  <1>7. JobsOK'
    BY <1>3, JobsKept
  <1>8. tracked \subseteq Windows /\ Known(run) \subseteq Windows
    BY RunShape DEF ServiceType, Known
  <1>9. StopCoversTracked'
    BY <1>2, <1>3, <1>5, <1>8 DEF StopCoversTracked, Open
  <1>10. ClosedIsOver' /\ KnownExist'
    BY <1>2, <1>3, <1>5, <1>8 DEF ClosedIsOver, KnownExist, Open
  <1>11. ListedExist'
    <2>1. SUFFICES ASSUME NEW i \in Ticks, job'[i].at = "listed", job'[i].listing /= None,
                          NEW v \in job'[i].listing
                   PROVE  window'[v] /= "none"
      BY DEF ListedExist
    <2>2. i \in Jobs /\ job'[i] = job[i]
      BY <1>3, <2>1 DEF Jobs
    <2>3. window[v] /= "none" /\ v \in Windows
      BY <2>1, <2>2 DEF ListedExist, JobsOK, JobOK
    <2> QED BY <1>5, <2>3
  <1>12. OwedIsOpen'
    BY <1>2, <1>4, <1>5 DEF OwedIsOpen, Open
  <1>13. StopIsNotForgotten'
    <2>1. SUFFICES ASSUME NEW v \in owed', v \notin misled'
                   PROVE  v \in relays' \/ \E i \in Jobs : v \in job'[i].relays
      BY DEF StopIsNotForgotten
    <2>2. v \in owed /\ v \notin misled
      BY <1>4, <1>5, <1>12, <2>1 DEF OwedIsOpen, Open
    <2>3. CASE v = w
      BY <1>4, <2>1, <2>3
    <2>4. CASE v /= w /\ v \notin relays
      <3>1. PICK i \in Jobs : v \in job[i].relays
        BY <2>4, <2>2 DEF StopIsNotForgotten
      <3>2. v \in job'[i].relays
        BY <1>3, <2>4, <3>1
      <3> QED BY <3>2
    <2>5. CASE v \in relays
      BY <1>4, <2>5
    <2> QED BY <2>3, <2>4, <2>5
  <1> QED BY <1>6, <1>7, <1>9, <1>10, <1>11, <1>12, <1>13

\* A callback: a stop is to be relayed for every window the run holds open,
\* which are tracked.
LEMMA CallbackKeeps ==
    ASSUME EscalationIInv, NEW j \in Hooks, Stop(j) \/ Receipt(j)
    PROVE  EscalationIInv'
  <1> USE DEF EscalationIInv
  <1>1. /\ j \in Jobs /\ job[j].at = "idle" /\ job[j].relays = {}
        /\ clock \in 0 .. MaxTime /\ run \in Runs \union {None}
        /\ UNCHANGED <<window, clock, tracked, relays, misled>>
    BY DEF Stop, Receipt, Jobs, JobsOK, JobOK, ServiceType
  <1>2. PICK rel \in SUBSET Windows :
            /\ Ticked(j, run, rel)
            /\ \A w \in owed' : w \in owed \/ (w \in rel /\ Open(w) /\ w \in tracked)
    <2>1. CASE Stop(j)
      <3>1. Covered(run, {}) = OpenIn(run) /\ OpenIn(run) \subseteq tracked /\ tracked \in SUBSET Windows
        BY DEF Covered, StopCoversTracked, ServiceType
      <3>2. /\ Ticked(j, run, Covered(run, {}))
            /\ owed' = owed \union {w \in OpenIn(run) : Open(w)}
        BY <2>1 DEF Stop
      <3> QED BY <3>1, <3>2
    <2>2. CASE Receipt(j)
      <3>1. Ticked(j, run, {}) /\ owed' = owed /\ {} \in SUBSET Windows
        BY <2>2 DEF Receipt
      <3> QED BY <3>1
    <2> QED BY <2>1, <2>2
  <1>3. /\ run' \in Runs \union {None} /\ OpenIn(run') = OpenIn(run) /\ Known(run') = OpenIn(run)
        /\ DOMAIN job' = Jobs /\ JobOK(job'[j], j)
        /\ job'[j].relays = rel /\ job'[j].at \in {"idle", "act"}
        /\ \A i \in Jobs : i /= j => job'[i] = job[i]
    BY <1>1, <1>2, TickedJob
  <1>4. ServiceType'
    BY <1>1, <1>2, <1>3 DEF ServiceType
  <1>5. StopCoversTracked' /\ ClosedIsOver'
    BY <1>1, <1>3 DEF StopCoversTracked, ClosedIsOver, Open
  <1>6. KnownExist'
    BY <1>1, <1>3 DEF KnownExist, StopCoversTracked
  <1>7. OwedIsOpen'
    BY <1>1, <1>2 DEF OwedIsOpen, Open
  <1>8. JobsOK'
    BY <1>1, <1>3, JobsKept
  <1>9. ListedExist'
    BY <1>1, <1>3 DEF ListedExist, Jobs
  <1>10. StopIsNotForgotten'
    <2>1. SUFFICES ASSUME NEW w \in owed', w \notin misled
                   PROVE  w \in relays' \/ \E i \in Jobs : w \in job'[i].relays
      BY <1>1 DEF StopIsNotForgotten
    <2>2. CASE w \in rel
      BY <1>1, <1>3, <2>2
    <2>3. CASE w \in owed
      <3>1. CASE w \in relays
        BY <1>1, <3>1
      <3>2. CASE w \notin relays
        <4>1. PICK i \in Jobs : w \in job[i].relays
          BY <2>1, <2>3, <3>2 DEF StopIsNotForgotten
        <4>2. i /= j
          BY <1>1, <4>1
        <4> QED BY <1>3, <4>1, <4>2
      <3> QED BY <3>1, <3>2
    <2> QED BY <1>2, <2>1, <2>2, <2>3
  <1> QED BY <1>4, <1>5, <1>6, <1>7, <1>8, <1>9, <1>10

LEMMA RestartKeeps == ASSUME EscalationIInv, Restart PROVE EscalationIInv'
  <1> USE DEF EscalationIInv, Restart
  <1>1. ServiceType'
    BY DEF ServiceType
  <1>2. JobsOK'
    BY IdleIsOK DEF JobsOK
  <1>3. ClosedIsOver' /\ KnownExist' /\ OwedIsOpen'
    BY DEF ClosedIsOver, Known, KnownExist, OwedIsOpen
  <1>4. ListedExist'
    BY IdleIsOK DEF ListedExist, Jobs
  <1>5. StopCoversTracked' /\ StopIsNotForgotten'
    BY DEF StopCoversTracked, OpenIn, StopIsNotForgotten
  <1> QED BY <1>1, <1>2, <1>3, <1>4, <1>5

LEMMA EscalationStep == EscalationIInv /\ [Next]_vars => EscalationIInv'
  <1> SUFFICES ASSUME EscalationIInv, [Next]_vars PROVE EscalationIInv'
    OBVIOUS
  <1>1. CASE Advance \/ \E w \in Windows : PostRegisterVeto(w) \/ Ended(w)
    BY <1>1, WindowsKeep
  <1>2. ASSUME NEW j \in Ticks, GetVetoPending(j) \/ ListingFails(j) PROVE EscalationIInv'
    BY <1>2, PollKeeps
  <1>3. ASSUME NEW j \in Ticks, Reconcile(j) PROVE EscalationIInv'
    BY <1>3, ReconcileKeeps
  <1>4. ASSUME NEW j \in Hooks, Stop(j) \/ Receipt(j) PROVE EscalationIInv'
    BY <1>4, CallbackKeeps
  <1>5. ASSUME NEW j \in Jobs, Relaying(j) PROVE EscalationIInv'
    BY <1>5, RelayKeeps
  <1>6. CASE Restart
    BY <1>6, RestartKeeps
  <1>7. CASE UNCHANGED vars
    BY <1>7 DEF EscalationIInv, ServiceType, JobsOK, ClosedIsOver, KnownExist,
                ListedExist, Open, OwedIsOpen, StopCoversTracked, StopIsNotForgotten,
                vars, engine
  <1> QED BY <1>1, <1>2, <1>3, <1>4, <1>5, <1>6, <1>7 DEF Next

LEMMA EscalationImplies == EscalationIInv => Inv
  BY DEF EscalationIInv, ServiceType, JobsOK, JobOK, WindowStates, Inv, TypeOK

\* However many polls and callbacks overlap: the shape of the state; a stop
\* reaches every open window the service tracks; and a stop that was accepted is
\* being relayed, or is queued to be, until its window has ended.  Only a window
\* that an older listing left out is excepted (tickOnce, channelEvent, relayVeto).
THEOREM EscalationSafe == Spec => []Inv
  <1>1. EscalationIInv /\ [Next]_vars => EscalationIInv'
    BY EscalationStep
  <1> QED BY <1>1, EscalationStarts, EscalationImplies, PTL DEF Spec

-----------------------------------------------------------------------------
(* The escalation service: the ceilings.  What the ledger remembers is     *)
(* every send that is still within its horizon; the day's spend is the     *)
(* log's; and no later day has any.  Nothing of it depends on what the     *)
(* windows, the relays or the polls do.                                    *)

SendType == [channel : Channels, at : Nat]

\* A log of sends, none later than c.
LogOK(g, c) == g \in Seq(SendType) /\ \A i \in 1 .. Len(g) : g[i].at <= c

\* S are sends over ch, and every one that is younger than the horizon.
Remembers(S, g, c, ch, horizon) ==
    /\ \A i \in S : i \in 1 .. Len(g) /\ g[i].channel = ch
    /\ \A i \in 1 .. Len(g) : g[i].channel = ch /\ c - g[i].at < horizon => i \in S

CeilingOK(S, g, c, ch, horizon, max) ==
    /\ Remembers(S, g, c, ch, horizon) /\ Cardinality(S) <= max
    /\ \A t \in Nat : Cardinality(Until(g, ch, horizon, t)) <= max

\* The day's spend is that of the log; no later day has any.
DayOK(l, g, c) ==
    /\ l.day \in -1 .. (c \div Day)
    /\ \A i \in 1 .. Len(g) : g[i].at \div Day <= l.day
    /\ l.usd = SpentOn(g, l.day) /\ l.usd <= MaxSpend
    /\ \A d \in Nat : SpentOn(g, d) <= MaxSpend

LedgerInv(l, g, c) ==
    /\ LogOK(g, c)
    /\ CeilingOK(l.voice, g, c, "voice", VoiceHorizon, MaxVoice)
    /\ CeilingOK(l.sms, g, c, "sms", SmsHorizon, MaxSms)
    /\ DayOK(l, g, c)

CeilingInv == clock \in 0 .. MaxTime /\ LedgerInv(ledger, log, clock)

\* What a tick hands from rung to rung.
ClimbOK(m, c) == LedgerInv(m.ledger, m.log, c)

-----------------------------------------------------------------------------
(* Induction, counting and days.                                           *)

\* Induction over the naturals, for a set.
LEMMA SetInduction ==
    ASSUME NEW S, 0 \in S, \A n \in Nat : n \in S => n + 1 \in S
    PROVE  Nat \subseteq S
  <1> DEFINE T == Nat \ S
             R == OpToRel(<, Nat)
  <1>1. SUFFICES ASSUME T /= {} PROVE FALSE
    OBVIOUS
  <1>2. IsWellFoundedOn(R, Nat)
    BY NatLessThanWellFounded
  <1>3. PICK x \in T : \A y \in T : ~(<<y, x>> \in R)
    <2>1. T \subseteq Nat
      OBVIOUS
    <2> HIDE DEF T, R
    <2> QED BY <1>1, <1>2, <2>1, WFMin
  <1>4. x \in Nat /\ x /= 0
    OBVIOUS
  <1>5. x - 1 \in Nat /\ x - 1 < x /\ x - 1 + 1 = x
    BY <1>4
  <1>6. <<x - 1, x>> \in R
    BY <1>4, <1>5 DEF OpToRel
  <1>7. x - 1 \in T
    BY <1>4, <1>5
  <1> QED BY <1>3, <1>6, <1>7

\* A set of positions is finite.
LEMMA PositionsFinite ==
    ASSUME NEW n \in Nat, NEW S, \A i \in S : i \in 1 .. n
    PROVE  IsFiniteSet(S) /\ Cardinality(S) \in Nat
  <1>1. S \in SUBSET (1 .. n)
    OBVIOUS
  <1>2. IsFiniteSet(1 .. n)
    BY FS_Interval
  <1> QED BY <1>1, <1>2, FS_Subset, FS_CardinalityType

LEMMA Fewer ==
    ASSUME NEW n \in Nat, NEW S, \A i \in S : i \in 1 .. n, NEW T, \A i \in T : i \in S
    PROVE  Cardinality(T) <= Cardinality(S) /\ Cardinality(T) \in Nat
  <1>1. IsFiniteSet(S) /\ T \in SUBSET S
    BY PositionsFinite
  <1> QED BY <1>1, FS_Subset, FS_CardinalityType

LEMMA OneMore ==
    ASSUME NEW n \in Nat, NEW S, \A i \in S : i \in 1 .. n
    PROVE  /\ Cardinality(S \union {n + 1}) = Cardinality(S) + 1
           /\ \A i \in S \union {n + 1} : i \in 1 .. n + 1
  <1>1. IsFiniteSet(S) /\ n + 1 \notin S
    BY PositionsFinite
  <1> QED BY <1>1, FS_AddElement

-----------------------------------------------------------------------------
(* The log grows by a send.                                                *)

\* The log with one more send in it.
Longer(g, ch, c) == Append(g, [channel |-> ch, at |-> c])

Grown(g, h, ch, c) ==
    /\ LogOK(h, c) /\ Len(h) = Len(g) + 1
    /\ \A i \in 1 .. Len(g) : h[i] = g[i]
    /\ h[Len(g) + 1].channel = ch /\ h[Len(g) + 1].at = c

LEMMA LogShape ==
    ASSUME NEW c \in Nat, NEW g, LogOK(g, c)
    PROVE  /\ Len(g) \in Nat /\ DOMAIN g = 1 .. Len(g)
           /\ \A i \in 1 .. Len(g) : g[i].channel \in Channels /\ g[i].at \in Nat /\ g[i].at <= c
  <1>1. g \in Seq(SendType)
    BY DEF LogOK
  <1>2. Len(g) \in Nat /\ DOMAIN g = 1 .. Len(g)
    BY <1>1
  <1>3. \A i \in 1 .. Len(g) : g[i] \in SendType
    BY <1>1
  <1> QED BY <1>2, <1>3 DEF LogOK, SendType

LEMMA LogGrows ==
    ASSUME NEW c \in Nat, NEW g, LogOK(g, c), NEW ch \in Channels
    PROVE  Grown(g, Longer(g, ch, c), ch, c)
  <1> DEFINE h == Longer(g, ch, c)
  <1> DEFINE x == [channel |-> ch, at |-> c]
  <1>1. g \in Seq(SendType) /\ x \in SendType
    BY DEF LogOK, SendType
  <1>2. x.channel = ch /\ x.at = c
    OBVIOUS
  <1> HIDE DEF x
  <1>3. h = Append(g, x)
    BY DEF x, Longer
  <1> HIDE DEF h
  <1>4. /\ h \in Seq(SendType) /\ Len(h) = Len(g) + 1
        /\ \A i \in 1 .. Len(g) : h[i] = g[i]
        /\ h[Len(g) + 1] = x
    BY <1>1, <1>3, AppendProperties
  <1>5. Len(g) \in Nat
    BY LogShape
  <1>6. ASSUME NEW i \in 1 .. Len(h) PROVE h[i].at <= c
    <2>1. CASE i = Len(g) + 1
      BY <2>1, <1>4, <1>2
    <2>2. CASE i \in 1 .. Len(g)
      BY <2>2, <1>4 DEF LogOK
    <2> QED BY <2>1, <2>2, <1>4, <1>5
  <1>7. Grown(g, h, ch, c)
    BY <1>2, <1>4, <1>6 DEF LogOK, Grown
  <1> QED BY <1>7 DEF h

\* A send over another channel changes nothing that is counted for this one.
LEMMA OtherChannelKeeps ==
    ASSUME NEW c \in Nat, NEW g, LogOK(g, c), NEW ch \in Channels, NEW other \in Channels,
           ch /= other, NEW h, h = Longer(g, other, c),
           NEW S, NEW horizon, NEW max, CeilingOK(S, g, c, ch, horizon, max)
    PROVE  CeilingOK(S, h, c, ch, horizon, max)
  <1> DEFINE n == Len(g)
  <1>1. /\ LogOK(h, c) /\ Len(h) = n + 1
        /\ \A i \in 1 .. n : h[i] = g[i]
        /\ h[n + 1].channel = other /\ h[n + 1].at = c
    <2>1. Grown(g, h, other, c)
      BY LogGrows
    <2> QED BY <2>1 DEF Grown
  <1>2. n \in Nat /\ DOMAIN g = 1 .. n /\ DOMAIN h = 1 .. n + 1
    BY <1>1, LogShape
  <1>3. Remembers(S, h, c, ch, horizon)
    BY <1>1, <1>2 DEF Remembers, CeilingOK
  <1>4. ASSUME NEW t \in Nat PROVE Until(h, ch, horizon, t) = Until(g, ch, horizon, t)
    BY <1>1, <1>2 DEF Until
  <1> QED BY <1>3, <1>4 DEF CeilingOK

\* A send that admit() lets through is counted, and is one of few enough.
LEMMA AdmittedKeeps ==
    ASSUME NEW c \in Nat, c = clock, NEW g, LogOK(g, c), NEW ch \in Channels,
           NEW h, h = Longer(g, ch, c),
           NEW S, NEW horizon \in Nat, NEW max \in Nat, CeilingOK(S, g, c, ch, horizon, max),
           NEW a, a = Admission(S, g, horizon, max)
    PROVE  /\ a.ok => CeilingOK(a.sends, h, c, ch, horizon, max)
           /\ ~a.ok => CeilingOK(a.sends, g, c, ch, horizon, max)
  <1> DEFINE n == Len(g)
             R == Recent(S, g, horizon)
  <1>1. /\ LogOK(h, c) /\ Len(h) = n + 1
        /\ \A i \in 1 .. n : h[i] = g[i]
        /\ h[n + 1].channel = ch /\ h[n + 1].at = c
    <2>1. Grown(g, h, ch, c)
      BY LogGrows
    <2> QED BY <2>1 DEF Grown
  <1>2. /\ n \in Nat /\ DOMAIN g = 1 .. n /\ DOMAIN h = 1 .. n + 1
        /\ \A i \in 1 .. n : g[i].at \in Nat /\ g[i].at <= c
    BY <1>1, LogShape
  <1>3. Remembers(S, g, c, ch, horizon) /\ \A i \in S : i \in 1 .. n
    BY DEF CeilingOK, Remembers
  <1>4. R = {i \in S : c - g[i].at < horizon}
    BY DEF Recent
  <1>5. Remembers(R, g, c, ch, horizon)
    BY <1>3, <1>4 DEF Remembers
  <1>6. a.ok = (Cardinality(R) < max) /\ a.sends = IF a.ok THEN R \union {n + 1} ELSE R
    BY DEF Admission
  <1>7. Cardinality(R) <= Cardinality(S) /\ Cardinality(R) \in Nat
    BY <1>2, <1>3, <1>4, Fewer
  <1>8. ASSUME ~a.ok PROVE CeilingOK(a.sends, g, c, ch, horizon, max)
    <2>1. Cardinality(S) <= max /\ Cardinality(S) \in Nat
      BY <1>2, <1>3, PositionsFinite DEF CeilingOK
    <2>2. Cardinality(R) <= max
      BY <1>7, <2>1
    <2> QED BY <1>5, <1>6, <1>8, <2>2 DEF CeilingOK
  <1>9. ASSUME a.ok PROVE CeilingOK(a.sends, h, c, ch, horizon, max)
    <2> DEFINE T == R \union {n + 1}
    <2>1. a.sends = T /\ Cardinality(R) < max
      BY <1>6, <1>9
    <2>2. \A i \in R : i \in 1 .. n
      BY <1>3, <1>4
    <2>3. Cardinality(T) = Cardinality(R) + 1 /\ \A i \in T : i \in 1 .. n + 1
      BY <1>2, <2>2, OneMore
    <2>4. Cardinality(T) <= max
      BY <1>7, <2>1, <2>3
    <2>5. Remembers(T, h, c, ch, horizon)
      <3>1. ASSUME NEW i \in T PROVE i \in 1 .. Len(h) /\ h[i].channel = ch
        BY <1>1, <1>2, <1>5, <2>2 DEF Remembers
      <3>2. ASSUME NEW i \in 1 .. Len(h), h[i].channel = ch, c - h[i].at < horizon
            PROVE  i \in T
        <4>1. CASE i = n + 1
          BY <4>1
        <4>2. CASE i \in 1 .. n
          BY <4>2, <3>2, <1>1, <1>5 DEF Remembers
        <4> QED BY <4>1, <4>2, <1>1, <1>2
      <3> HIDE DEF T
      <3> QED BY <3>1, <3>2 DEF Remembers
    <2>6. ASSUME NEW t \in Nat PROVE Cardinality(Until(h, ch, horizon, t)) <= max
      <3>1. CASE t < c
        <4>1. Until(h, ch, horizon, t) = Until(g, ch, horizon, t)
          BY <1>1, <1>2, <3>1 DEF Until
        <4> QED BY <4>1 DEF CeilingOK
      <3>2. CASE c <= t
        <4> DEFINE U == Until(h, ch, horizon, t)
        <4>1. ASSUME NEW i \in U PROVE i \in T
          <5>1. i \in 1 .. n + 1 /\ h[i].channel = ch /\ t - horizon < h[i].at
            BY <1>2 DEF Until
          <5>2. CASE i = n + 1
            BY <5>2
          <5>3. CASE i \in 1 .. n
            <6>1. g[i].channel = ch /\ c - g[i].at < horizon
              BY <5>1, <5>3, <1>1, <1>2, <3>2
            <6>2. i \in R
              BY <5>3, <6>1, <1>3, <1>4 DEF Remembers
            <6> QED BY <6>2
          <5> QED BY <5>1, <5>2, <5>3
        <4> HIDE DEF T, U
        <4>2. Cardinality(U) <= Cardinality(T) /\ Cardinality(U) \in Nat
          BY <1>2, <2>3, <4>1, Fewer
        <4>3. Cardinality(T) \in Nat
          BY <1>7, <2>3
        <4> QED BY <2>4, <4>2, <4>3 DEF U
      <3> QED BY <3>1, <3>2
    <2> HIDE DEF T
    <2> QED BY <2>1, <2>4, <2>5, <2>6 DEF CeilingOK
  <1> QED BY <1>8, <1>9

-----------------------------------------------------------------------------
(* The day's spend.                                                        *)

\* Days do not go back.
LEMMA Days ==
    ASSUME NEW a \in Nat, NEW b \in Nat, a <= b
    PROVE  a \div Day \in Nat /\ b \div Day \in Nat /\ a \div Day <= b \div Day
  <1>1. Day \in Nat /\ Day > 0
    BY LimitAssumption
  <1>2. a \div Day \in Int /\ b \div Day \in Int
    BY <1>1
  <1>3. /\ Day * (a \div Day) <= a /\ a < Day * (a \div Day) + Day
        /\ Day * (b \div Day) <= b /\ b < Day * (b \div Day) + Day
    BY <1>1
  <1> QED BY <1>1, <1>2, <1>3

LEMMA Cheapest ==
    ASSUME NEW ch \in Channels
    PROVE  Cost[ch] \in Nat /\ Channels = {"push", "email", "sms", "voice"}
  BY LimitAssumption DEF Channels

\* Only the sends over ch of day d count.
LEMMA CountedOn ==
    ASSUME NEW c \in Nat, NEW g, LogOK(g, c), NEW ch \in Channels, NEW d
    PROVE  /\ \A i \in OnDay(g, ch, d) : i \in 1 .. Len(g)
           /\ Cardinality(OnDay(g, ch, d)) \in Nat /\ CostOn(g, ch, d) \in Nat
  <1>1. Len(g) \in Nat /\ \A i \in OnDay(g, ch, d) : i \in 1 .. Len(g)
    BY LogShape DEF OnDay
  <1>2. Cardinality(OnDay(g, ch, d)) \in Nat
    BY <1>1, PositionsFinite
  <1>3. \A m \in Nat, k \in Nat : m * k \in Nat
    OBVIOUS
  <1>4. Cost[ch] \in Nat
    BY Cheapest
  <1> QED BY <1>1, <1>2, <1>3, <1>4 DEF CostOn

LEMMA SpendGrows ==
    ASSUME NEW c \in Nat, NEW g, LogOK(g, c), NEW ch \in Channels,
           NEW h, h = Longer(g, ch, c), NEW other \in Channels, NEW d
    PROVE  CostOn(h, other, d)
             = CostOn(g, other, d) + IF other = ch /\ d = c \div Day THEN Cost[ch] ELSE 0
  <1> DEFINE n == Len(g)
  <1>1. /\ LogOK(h, c) /\ Len(h) = n + 1
        /\ \A i \in 1 .. n : h[i] = g[i]
        /\ h[n + 1].channel = ch /\ h[n + 1].at = c
    <2>1. Grown(g, h, ch, c)
      BY LogGrows
    <2> QED BY <2>1 DEF Grown
  <1>2. n \in Nat /\ DOMAIN g = 1 .. n /\ DOMAIN h = 1 .. n + 1
    BY <1>1, LogShape
  <1>3. CostOn(g, other, d) \in Nat
    BY CountedOn
  <1>4. CASE other = ch /\ d = c \div Day
    <2> DEFINE S == OnDay(g, ch, d)
    <2>1. OnDay(h, ch, d) = S \union {n + 1}
      <3>1. ASSUME NEW i \in OnDay(h, ch, d) PROVE i \in S \union {n + 1}
        BY <1>1, <1>2 DEF OnDay
      <3>2. ASSUME NEW i \in S PROVE i \in OnDay(h, ch, d)
        BY <1>1, <1>2 DEF OnDay
      <3>3. n + 1 \in OnDay(h, ch, d)
        BY <1>1, <1>2, <1>4 DEF OnDay
      <3> HIDE DEF S
      <3> QED BY <3>1, <3>2, <3>3
    <2>2. Cardinality(S \union {n + 1}) = Cardinality(S) + 1 /\ Cardinality(S) \in Nat
      BY <1>2, CountedOn, OneMore
    <2>3. Cost[ch] \in Nat
      BY Cheapest
    <2>4. \A m \in Nat, k \in Nat : m * (k + 1) = m * k + m
      OBVIOUS
    <2>5. CostOn(h, ch, d) = Cost[ch] * (Cardinality(S) + 1)
      BY <2>1, <2>2 DEF CostOn
    <2>6. CostOn(g, ch, d) = Cost[ch] * Cardinality(S)
      BY DEF CostOn
    <2> HIDE DEF S
    <2>7. CostOn(h, ch, d) = CostOn(g, ch, d) + Cost[ch]
      BY <2>2, <2>3, <2>4, <2>5, <2>6
    <2> QED BY <1>4, <2>7
  <1>5. CASE ~(other = ch /\ d = c \div Day)
    <2>1. OnDay(h, other, d) = OnDay(g, other, d)
      BY <1>1, <1>2, <1>5 DEF OnDay
    <2> QED BY <1>3, <1>5, <2>1 DEF CostOn
  <1> QED BY <1>4, <1>5

LEMMA DayGrows ==
    ASSUME NEW c \in Nat, NEW g, LogOK(g, c), NEW ch \in Channels,
           NEW h, h = Longer(g, ch, c), NEW d
    PROVE  /\ SpentOn(g, d) \in Nat
           /\ SpentOn(h, d) = SpentOn(g, d) + IF d = c \div Day THEN Cost[ch] ELSE 0
  <1>1. /\ "push" \in Channels /\ "email" \in Channels /\ "sms" \in Channels /\ "voice" \in Channels
        /\ ch \in {"push", "email", "sms", "voice"} /\ Cost[ch] \in Nat
    BY Cheapest
  <1> DEFINE more(o) == IF o = ch /\ d = c \div Day THEN Cost[ch] ELSE 0
  <1>2. \A o \in Channels : CostOn(h, o, d) = CostOn(g, o, d) + more(o) /\ CostOn(g, o, d) \in Nat
    BY SpendGrows, CountedOn
  <1>3. more("push") + more("email") + more("sms") + more("voice")
        = IF d = c \div Day THEN Cost[ch] ELSE 0
    BY <1>1
  <1>4. \A o \in Channels : more(o) \in Nat
    BY <1>1
  <1> HIDE DEF more
  <1> QED BY <1>1, <1>2, <1>3, <1>4 DEF SpentOn

\* What admit() takes for today's spend is what the log says of today.
LEMMA SpentIsToday ==
    ASSUME NEW c \in Nat, c = clock, NEW g, LogOK(g, c), NEW l, DayOK(l, g, c)
    PROVE  Spent(l) = SpentOn(g, c \div Day) /\ Spent(l) \in Nat /\ Spent(l) <= MaxSpend
  <1>1. c \div Day \in Nat
    BY Days
  <1>2. SpentOn(g, c \div Day) \in Nat
    BY <1>1, DayGrows, Cheapest DEF Channels
  <1>3. CASE l.day = c \div Day
    BY <1>2, <1>3 DEF DayOK, Spent
  <1>4. CASE l.day /= c \div Day
    <2>1. l.day \in Int /\ l.day < c \div Day
      BY <1>1, <1>4 DEF DayOK
    <2>2. ASSUME NEW ch \in Channels PROVE CostOn(g, ch, c \div Day) = 0
      <3>1. /\ Len(g) \in Nat /\ DOMAIN g = 1 .. Len(g)
            /\ \A i \in 1 .. Len(g) : g[i].at \div Day \in Nat
        BY LogShape, Days
      <3>2. OnDay(g, ch, c \div Day) = {}
        BY <2>1, <3>1 DEF OnDay, DayOK
      <3>3. Cardinality(OnDay(g, ch, c \div Day)) = 0
        BY <3>2, FS_EmptySet
      <3> QED BY <3>3, Cheapest DEF CostOn
    <2>3. SpentOn(g, c \div Day) = 0
      BY <2>2 DEF SpentOn, Channels
    <2> QED BY <1>4, <2>3, LimitAssumption DEF Spent
  <1> QED BY <1>3, <1>4

\* Today's ledger after a send that was paid for, or after none.
LEMMA DayKept ==
    ASSUME NEW c \in Nat, c = clock, NEW g, LogOK(g, c), NEW l, DayOK(l, g, c),
           NEW ch \in Channels, NEW h, h = Longer(g, ch, c), NEW v, NEW s
    PROVE  /\ DayOK(Ledger(v, s, Spent(l)), g, c)
           /\ Spent(l) + Cost[ch] <= MaxSpend => DayOK(Ledger(v, s, Spent(l) + Cost[ch]), h, c)
  <1> DEFINE today == c \div Day
  <1>1. today \in Nat /\ Len(g) \in Nat /\ \A i \in 1 .. Len(g) : g[i].at \div Day <= today
    <2>1. /\ Len(g) \in Nat /\ \A i \in 1 .. Len(g) : g[i].at \in Nat /\ g[i].at <= c
      BY LogShape
    <2>2. today \in Nat
      BY Days
    <2>3. \A i \in 1 .. Len(g) : g[i].at \div Day <= today
      BY <2>1, Days
    <2> QED BY <2>1, <2>2, <2>3
  <1>2. Spent(l) = SpentOn(g, today) /\ Spent(l) \in Nat /\ Spent(l) <= MaxSpend
    BY SpentIsToday
  <1>3. \A d \in Nat : SpentOn(g, d) <= MaxSpend
    BY DEF DayOK
  <1>4. ASSUME NEW u PROVE Ledger(v, s, u).day = today /\ Ledger(v, s, u).usd = u
    BY DEF Ledger
  <1>5. DayOK(Ledger(v, s, Spent(l)), g, c)
    <2> DEFINE m == Ledger(v, s, Spent(l))
    <2>1. m.day = today /\ m.usd = Spent(l)
      BY <1>4
    <2> HIDE DEF m, today
    <2>2. m.day \in -1 .. today
      BY <1>1, <2>1
    <2>3. DayOK(m, g, c)
      BY <1>1, <1>2, <1>3, <2>1, <2>2 DEF DayOK, today
    <2> QED BY <2>3 DEF m
  <1>6. ASSUME Spent(l) + Cost[ch] <= MaxSpend
        PROVE  DayOK(Ledger(v, s, Spent(l) + Cost[ch]), h, c)
    <2> DEFINE m == Ledger(v, s, Spent(l) + Cost[ch])
    <2>1. m.day = today /\ m.usd = Spent(l) + Cost[ch]
      BY <1>4
    <2>2. /\ Len(h) = Len(g) + 1 /\ \A i \in 1 .. Len(g) : h[i] = g[i]
          /\ h[Len(g) + 1].at = c
      <3>1. Grown(g, h, ch, c)
        BY LogGrows
      <3> QED BY <3>1 DEF Grown
    <2>3. \A d : SpentOn(g, d) \in Nat
                 /\ SpentOn(h, d) = SpentOn(g, d) + IF d = today THEN Cost[ch] ELSE 0
      BY DayGrows
    <2> HIDE DEF m, today
    <2>4. m.day \in -1 .. today
      BY <1>1, <2>1
    <2>5. \A i \in 1 .. Len(h) : h[i].at \div Day <= m.day
      <3>1. c \div Day = today
        BY DEF today
      <3>2. ASSUME NEW i \in 1 .. Len(h) PROVE h[i].at \div Day <= m.day
        <4>1. CASE i = Len(g) + 1
          BY <1>1, <2>1, <2>2, <3>1, <4>1
        <4>2. CASE i \in 1 .. Len(g)
          BY <1>1, <2>1, <2>2, <4>2
        <4> QED BY <1>1, <2>2, <4>1, <4>2
      <3> QED BY <3>2
    <2>6. SpentOn(h, today) = Spent(l) + Cost[ch]
      BY <1>2, <2>3
    <2>7. ASSUME NEW d \in Nat PROVE SpentOn(h, d) <= MaxSpend
      BY <1>3, <1>6, <2>3, <2>6, LimitAssumption
    <2>8. DayOK(m, h, c)
      BY <1>6, <2>1, <2>4, <2>5, <2>6, <2>7 DEF DayOK, today
    <2> QED BY <2>8 DEF m
  <1> QED BY <1>5, <1>6

-----------------------------------------------------------------------------
(* A rung, and the ladder.                                                 *)

\* One rung.
LEMMA FireKeeps ==
    ASSUME NEW c \in Nat, c = clock, NEW l, NEW g, LedgerInv(l, g, c), NEW ch \in Channels,
           NEW a, a = Admit(l, g, ch),
           NEW h, h = IF a.ok THEN Longer(g, ch, c) ELSE g
    PROVE  LedgerInv(a.ledger, h, c)
  <1> DEFINE more == Longer(g, ch, c)
             voice == Admission(l.voice, g, VoiceHorizon, MaxVoice)
             sms == Admission(l.sms, g, SmsHorizon, MaxSms)
             paid == Spent(l) + Cost[ch]
  <1>1. LogOK(g, c) /\ LogOK(more, c)
    BY LogGrows DEF LedgerInv, Grown
  <1>2. /\ CeilingOK(l.voice, g, c, "voice", VoiceHorizon, MaxVoice)
        /\ CeilingOK(l.sms, g, c, "sms", SmsHorizon, MaxSms)
        /\ DayOK(l, g, c)
    BY DEF LedgerInv
  <1>3. /\ \A v, s : DayOK(Ledger(v, s, Spent(l)), g, c)
        /\ \A v, s : paid <= MaxSpend => DayOK(Ledger(v, s, paid), more, c)
    BY <1>1, <1>2, DayKept
  <1>4. \A v, s, u : Ledger(v, s, u).voice = v /\ Ledger(v, s, u).sms = s
    BY DEF Ledger
  <1>5. VoiceHorizon \in Nat /\ SmsHorizon \in Nat /\ MaxVoice \in Nat /\ MaxSms \in Nat
    BY LimitAssumption
  <1>6. "voice" \in Channels /\ "sms" \in Channels
    BY DEF Channels
  <1>7. Spent(l) \in Nat /\ paid \in Nat /\ MaxSpend \in Nat
    BY <1>1, <1>2, SpentIsToday, Cheapest, LimitAssumption
  <1>8. CASE paid > MaxSpend
    <2>1. a = [ok |-> FALSE, ledger |-> Ledger(l.voice, l.sms, Spent(l))]
      BY <1>7, <1>8 DEF Admit
    <2>2. ~a.ok /\ a.ledger = Ledger(l.voice, l.sms, Spent(l))
      BY <2>1
    <2> QED BY <1>1, <1>2, <1>3, <1>4, <2>2 DEF LedgerInv
  <1>9. CASE paid <= MaxSpend /\ ch = "voice"
    <2>1. a = [ok |-> voice.ok,
               ledger |-> Ledger(voice.sends, l.sms, IF voice.ok THEN paid ELSE Spent(l))]
      BY <1>7, <1>9 DEF Admit
    <2>2. a.ok = voice.ok /\ a.ledger = Ledger(voice.sends, l.sms, IF voice.ok THEN paid ELSE Spent(l))
      BY <2>1
    <2>3. /\ voice.ok => CeilingOK(voice.sends, more, c, "voice", VoiceHorizon, MaxVoice)
          /\ ~voice.ok => CeilingOK(voice.sends, g, c, "voice", VoiceHorizon, MaxVoice)
      BY <1>1, <1>2, <1>5, <1>6, <1>9, AdmittedKeeps
    <2>4. CeilingOK(l.sms, more, c, "sms", SmsHorizon, MaxSms)
      BY <1>1, <1>2, <1>6, <1>9, OtherChannelKeeps
    <2> HIDE DEF voice, more, paid
    <2>5. CASE voice.ok
      <3>1. a.ledger = Ledger(voice.sends, l.sms, paid) /\ h = more
        BY <2>2, <2>5 DEF more
      <3> QED BY <1>1, <1>3, <1>4, <1>9, <2>3, <2>4, <2>5, <3>1 DEF LedgerInv
    <2>6. CASE ~voice.ok
      <3>1. a.ledger = Ledger(voice.sends, l.sms, Spent(l)) /\ h = g
        BY <2>2, <2>6
      <3> QED BY <1>1, <1>2, <1>3, <1>4, <2>3, <2>6, <3>1 DEF LedgerInv
    <2> QED BY <2>5, <2>6
  <1>10. CASE paid <= MaxSpend /\ ch = "sms"
    <2>1. a = [ok |-> sms.ok,
               ledger |-> Ledger(l.voice, sms.sends, IF sms.ok THEN paid ELSE Spent(l))]
      BY <1>7, <1>10 DEF Admit
    <2>2. a.ok = sms.ok /\ a.ledger = Ledger(l.voice, sms.sends, IF sms.ok THEN paid ELSE Spent(l))
      BY <2>1
    <2>3. /\ sms.ok => CeilingOK(sms.sends, more, c, "sms", SmsHorizon, MaxSms)
          /\ ~sms.ok => CeilingOK(sms.sends, g, c, "sms", SmsHorizon, MaxSms)
      BY <1>1, <1>2, <1>5, <1>6, <1>10, AdmittedKeeps
    <2>4. CeilingOK(l.voice, more, c, "voice", VoiceHorizon, MaxVoice)
      BY <1>1, <1>2, <1>6, <1>10, OtherChannelKeeps
    <2> HIDE DEF sms, more, paid
    <2>5. CASE sms.ok
      <3>1. a.ledger = Ledger(l.voice, sms.sends, paid) /\ h = more
        BY <2>2, <2>5 DEF more
      <3> QED BY <1>1, <1>3, <1>4, <1>10, <2>3, <2>4, <2>5, <3>1 DEF LedgerInv
    <2>6. CASE ~sms.ok
      <3>1. a.ledger = Ledger(l.voice, sms.sends, Spent(l)) /\ h = g
        BY <2>2, <2>6
      <3> QED BY <1>1, <1>2, <1>3, <1>4, <2>3, <2>6, <3>1 DEF LedgerInv
    <2> QED BY <2>5, <2>6
  <1>11. CASE paid <= MaxSpend /\ ch \notin {"voice", "sms"}
    <2>1. a = [ok |-> TRUE, ledger |-> Ledger(l.voice, l.sms, paid)]
      BY <1>7, <1>11 DEF Admit
    <2>2. a.ok /\ a.ledger = Ledger(l.voice, l.sms, paid)
      BY <2>1
    <2>3. /\ CeilingOK(l.voice, more, c, "voice", VoiceHorizon, MaxVoice)
          /\ CeilingOK(l.sms, more, c, "sms", SmsHorizon, MaxSms)
      BY <1>1, <1>2, <1>6, <1>11, OtherChannelKeeps
    <2> QED BY <1>1, <1>3, <1>4, <1>11, <2>2, <2>3 DEF LedgerInv
  <1> QED BY <1>7, <1>8, <1>9, <1>10, <1>11

\* The rungs are over channels.
Ladderlike == Len(Ladder) \in Nat /\ \A n \in 1 .. Len(Ladder) : Ladder[n].channel \in Channels

LEMMA LadderShape == Ladderlike
  <1> DEFINE Rung == [after : Nat, channel : Channels]
  <1>1. Ladder \in Seq(Rung)
    BY RungAssumption
  <1>2. \A x \in Rung : x.channel \in Channels
    OBVIOUS
  <1> HIDE DEF Rung
  <1>3. Len(Ladder) \in Nat /\ \A n \in 1 .. Len(Ladder) : Ladder[n] \in Rung
    BY <1>1
  <1> QED BY <1>2, <1>3 DEF Ladderlike

LEMMA FiredOK ==
    ASSUME NEW c \in Nat, c = clock, NEW m, ClimbOK(m, c), NEW ch \in Channels
    PROVE  ClimbOK(Fire(m, ch), c)
  <1> DEFINE a == Admit(m.ledger, m.log, ch)
             h == IF a.ok THEN Longer(m.log, ch, c) ELSE m.log
             f == Fire(m, ch)
  <1>1. LedgerInv(a.ledger, h, c)
    BY FireKeeps DEF ClimbOK
  <1>2. f = [ledger |-> a.ledger, log |-> h]
    BY DEF Fire, Longer
  <1> HIDE DEF a, h, f
  <1>3. f.ledger = a.ledger /\ f.log = h
    BY <1>2
  <1>4. ClimbOK(f, c)
    BY <1>1, <1>3 DEF ClimbOK
  <1> QED BY <1>4 DEF f

\* The whole ladder: rung after rung.
LEMMA ClimbKeeps ==
    ASSUME NEW c \in Nat, c = clock, NEW r, NEW m, ClimbOK(m, c)
    PROVE  ClimbOK(Climb(r, m), c)
  <1> DEFINE L == Len(Ladder)
             next(x, n) == IF n \in Due(r) THEN Fire(x, Ladder[n].channel) ELSE x
             Whole(f) == f = [n \in 0 .. L |-> IF n = 0 THEN m ELSE next(f[n - 1], n)]
             Part(f, k) == DOMAIN f = 0 .. k /\ f[0] = m /\ \A n \in 1 .. k : f[n] = next(f[n - 1], n)
             S == {k \in Nat : \E f : Part(f, k)}
             after == CHOOSE f : Whole(f)
             T == {k \in Nat : k <= L => ClimbOK(after[k], c)}
  <1>1. L \in Nat /\ \A n \in 1 .. L : Ladder[n].channel \in Channels
    BY LadderShape DEF Ladderlike
  <1>2. ASSUME NEW x, ClimbOK(x, c), NEW n \in 1 .. L PROVE ClimbOK(next(x, n), c)
    BY <1>1, <1>2, FiredOK
  <1>3. Climb(r, m) = after[L]
    BY DEF Climb
  <1> HIDE DEF next, L
  <1>4. L \in S
    <2>1. 0 \in S
      <3>1. Part([n \in 0 .. 0 |-> m], 0)
        OBVIOUS
      <3> QED BY <3>1
    <2>2. ASSUME NEW k \in Nat, k \in S PROVE k + 1 \in S
      <3>1. PICK f : Part(f, k)
        BY <2>2
      <3> DEFINE g == [n \in 0 .. k + 1 |-> IF n <= k THEN f[n] ELSE next(f[k], k + 1)]
      <3>2. Part(g, k + 1)
        <4>1. DOMAIN g = 0 .. k + 1 /\ g[0] = m
          BY <3>1
        <4>2. ASSUME NEW n \in 1 .. k + 1 PROVE g[n] = next(g[n - 1], n)
          <5>1. CASE n = k + 1
            BY <5>1
          <5>2. CASE n \in 1 .. k
            <6>1. g[n] = f[n] /\ g[n - 1] = f[n - 1]
              BY <5>2
            <6> QED BY <3>1, <5>2, <6>1
          <5> QED BY <5>1, <5>2
        <4> HIDE DEF g
        <4> QED BY <4>1, <4>2
      <3> HIDE DEF g, Part
      <3> QED BY <3>2
    <2> HIDE DEF S
    <2> QED BY <1>1, <2>1, <2>2, SetInduction
  <1>5. Whole(after)
    <2>1. PICK f : Part(f, L)
      BY <1>4
    <2> DEFINE g == [n \in 0 .. L |-> f[n]]
    <2>2. Whole(g)
      <3>1. ASSUME NEW n \in 0 .. L
            PROVE  g[n] = IF n = 0 THEN m ELSE next(g[n - 1], n)
        <4>1. CASE n = 0
          BY <2>1, <4>1
        <4>2. CASE n /= 0
          <5>1. n \in 1 .. L /\ n - 1 \in 0 .. L
            BY <1>1, <4>2
          <5> QED BY <2>1, <4>2, <5>1
        <4> QED BY <4>1, <4>2
      <3> QED BY <3>1
    <2> HIDE DEF Whole, g
    <2> QED BY <2>2
  <1>6. after[0] = m /\ \A n \in 1 .. L : after[n] = next(after[n - 1], n)
    <2> HIDE DEF after
    <2>1. \A n \in 0 .. L : after[n] = IF n = 0 THEN m ELSE next(after[n - 1], n)
      BY <1>5
    <2> QED BY <1>1, <2>1
  <1> HIDE DEF after
  <1>7. 0 \in T
    BY <1>1, <1>6
  <1>8. ASSUME NEW k \in Nat, k \in T PROVE k + 1 \in T
    <2>1. SUFFICES ASSUME k + 1 <= L PROVE ClimbOK(after[k + 1], c)
      OBVIOUS
    <2>2. k <= L /\ k + 1 \in 1 .. L /\ k + 1 - 1 = k
      BY <1>1, <2>1
    <2>3. ClimbOK(after[k], c)
      BY <1>8, <2>2
    <2>4. after[k + 1] = next(after[k], k + 1)
      BY <1>6, <2>2
    <2> QED BY <1>2, <2>2, <2>3, <2>4
  <1>9. L \in T
    <2> HIDE DEF T
    <2> QED BY <1>1, <1>7, <1>8, SetInduction
  <1> QED BY <1>1, <1>3, <1>9

-----------------------------------------------------------------------------
(* The ceilings hold.                                                      *)

\* After a start, and after a restart, nothing is remembered.
LEMMA NothingSent ==
    ASSUME NEW c \in 0 .. MaxTime
    PROVE  LedgerInv(NoSends, <<>>, c)
  <1> DEFINE none == <<>>
  <1>1. c \in Nat /\ c \div Day \in Nat
    BY LimitAssumption, Days
  <1>2. none \in Seq(SendType) /\ Len(none) = 0 /\ 1 .. Len(none) = {} /\ DOMAIN none = {}
    OBVIOUS
  <1> HIDE DEF none
  <1>3. LogOK(none, c)
    BY <1>2 DEF LogOK
  <1>4. ASSUME NEW ch, NEW horizon, NEW t PROVE Until(none, ch, horizon, t) = {}
    BY <1>2 DEF Until
  <1>5. ASSUME NEW d PROVE SpentOn(none, d) = 0
    <2>1. ASSUME NEW ch \in Channels PROVE CostOn(none, ch, d) = 0
      <3>1. OnDay(none, ch, d) = {}
        BY <1>2 DEF OnDay
      <3>2. Cardinality(OnDay(none, ch, d)) = 0
        BY <3>1, FS_EmptySet
      <3>3. \A m \in Nat : m * 0 = 0
        OBVIOUS
      <3> QED BY <3>2, <3>3, Cheapest DEF CostOn
    <2> QED BY <2>1 DEF SpentOn, Channels
  <1>6. ASSUME NEW ch, NEW horizon, NEW max \in Nat PROVE CeilingOK({}, none, c, ch, horizon, max)
    BY <1>2, <1>4, FS_EmptySet DEF CeilingOK, Remembers
  <1>7. /\ NoSends.voice = {} /\ NoSends.sms = {}
        /\ NoSends.day = -1 /\ NoSends.usd = 0
    BY DEF NoSends
  <1>8. DayOK(NoSends, none, c)
    BY <1>1, <1>2, <1>5, <1>7, LimitAssumption DEF DayOK
  <1>9. LedgerInv(NoSends, none, c)
    BY <1>3, <1>6, <1>7, <1>8, LimitAssumption DEF LedgerInv
  <1> QED BY <1>9 DEF none

LEMMA CeilingStarts == Init => CeilingInv
  <1> SUFFICES ASSUME Init PROVE CeilingInv
    OBVIOUS
  <1>1. clock = 0 /\ ledger = NoSends /\ log = <<>>
    BY DEF Init
  <1>2. 0 \in 0 .. MaxTime
    BY LimitAssumption
  <1>3. LedgerInv(ledger, log, clock)
    BY <1>1, <1>2, NothingSent
  <1> QED BY <1>1, <1>2, <1>3 DEF CeilingInv

\* Time passes: less is recent, and the day does not go back.
LEMMA TimePasses ==
    ASSUME NEW c \in Nat, NEW l, NEW g, LedgerInv(l, g, c)
    PROVE  LedgerInv(l, g, c + 1)
  <1>1. /\ Len(g) \in Nat
        /\ \A i \in 1 .. Len(g) : g[i].channel \in Channels /\ g[i].at \in Nat /\ g[i].at <= c
    BY LogShape DEF LedgerInv
  <1>2. LogOK(g, c + 1)
    BY <1>1 DEF LedgerInv, LogOK
  <1>3. ASSUME NEW S, NEW ch, NEW horizon \in Nat, NEW max, CeilingOK(S, g, c, ch, horizon, max)
        PROVE  CeilingOK(S, g, c + 1, ch, horizon, max)
    BY <1>1, <1>3 DEF CeilingOK, Remembers
  <1>4. DayOK(l, g, c + 1)
    <2>1. /\ c \div Day \in Nat /\ (c + 1) \div Day \in Nat
          /\ c \div Day <= (c + 1) \div Day
      BY Days
    <2>2. l.day \in -1 .. (c \div Day)
      BY DEF LedgerInv, DayOK
    <2>3. l.day \in -1 .. ((c + 1) \div Day)
      BY <2>1, <2>2
    <2> QED BY <2>3 DEF LedgerInv, DayOK
  <1> QED BY <1>2, <1>3, <1>4, LimitAssumption DEF LedgerInv

\* The engine ticks for job j.
LEMMA TickWithinCeilings ==
    ASSUME CeilingInv, NEW j \in Jobs, NEW r, NEW rel, Ticked(j, r, rel),
           UNCHANGED clock
    PROVE  CeilingInv'
  <1> DEFINE quiet == [ledger |-> ledger, log |-> log]
             e == EngineTick(r)
  <1>1. clock \in Nat
    BY DEF CeilingInv
  <1>2. ClimbOK(quiet, clock)
    <2>1. quiet.ledger = ledger /\ quiet.log = log
      OBVIOUS
    <2> HIDE DEF quiet
    <2> QED BY <2>1 DEF ClimbOK, CeilingInv
  <1>3. ClimbOK(e.did, clock)
    <2>1. e.did = quiet \/ \E s : e.did = Climb(s, quiet)
      BY DEF EngineTick
    <2> HIDE DEF e, quiet
    <2> QED BY <1>1, <1>2, <2>1, ClimbKeeps
  <1>4. ledger' = e.did.ledger /\ log' = e.did.log
    BY DEF Ticked
  <1> HIDE DEF e
  <1>5. LedgerInv(ledger', log', clock')
    BY <1>3, <1>4 DEF ClimbOK
  <1> QED BY <1>5 DEF CeilingInv

LEMMA CeilingStep == CeilingInv /\ [Next]_vars => CeilingInv'
  <1> SUFFICES ASSUME CeilingInv, [Next]_vars PROVE CeilingInv'
    OBVIOUS
  <1> USE DEF Jobs
  <1>1. ASSUME UNCHANGED <<ledger, log, clock>> PROVE CeilingInv'
    BY <1>1 DEF CeilingInv
  <1>2. ASSUME NEW w \in Windows, PostRegisterVeto(w) \/ Ended(w)
        PROVE  CeilingInv'
    BY <1>1, <1>2 DEF PostRegisterVeto, Ended, engine
  <1>3. CASE Advance
    <2>1. clock \in Nat /\ clock' = clock + 1 /\ clock' \in 0 .. MaxTime
      BY <1>3, LimitAssumption DEF Advance, CeilingInv
    <2>2. LedgerInv(ledger, log, clock')
      BY <2>1, TimePasses DEF CeilingInv
    <2> QED BY <1>3, <2>1, <2>2 DEF Advance, engine, CeilingInv
  <1>4. ASSUME NEW j \in Ticks, GetVetoPending(j) \/ ListingFails(j) PROVE CeilingInv'
    BY <1>1, <1>4 DEF GetVetoPending, ListingFails, Poll, engine
  <1>5. ASSUME NEW j \in Ticks, Reconcile(j) PROVE CeilingInv'
    <2>1. CASE \E r : Ticked(j, r, {})
      BY <1>5, <2>1, TickWithinCeilings DEF Reconcile
    <2>2. CASE ~\E r : Ticked(j, r, {})
      BY <1>1, <1>5, <2>2 DEF Reconcile
    <2> QED BY <2>1, <2>2
  <1>6. ASSUME NEW j \in Hooks, Stop(j) \/ Receipt(j) PROVE CeilingInv'
    BY <1>6, TickWithinCeilings DEF Stop, Receipt
  <1>7. ASSUME NEW j \in Jobs, Relaying(j) PROVE CeilingInv'
    <2>1. PICK w : Relayed(j, w)
      BY <1>7 DEF Relaying, RelayAnswered, RelayThrows, RelayRefused
    <2>2. UNCHANGED clock
      BY <2>1 DEF Relayed
    <2>3. CASE Ticked(j, run, {})
      BY <2>2, <2>3, TickWithinCeilings
    <2>4. CASE ~Ticked(j, run, {})
      BY <1>1, <2>1, <2>2, <2>4 DEF Relayed, engine
    <2> QED BY <2>3, <2>4
  <1>8. CASE Restart
    <2>1. ledger' = NoSends /\ log' = <<>> /\ clock' = clock
      BY <1>8 DEF Restart
    <2>2. LedgerInv(ledger', log', clock')
      BY <2>1, NothingSent DEF CeilingInv
    <2> QED BY <2>1, <2>2 DEF CeilingInv
  <1>9. CASE UNCHANGED vars
    BY <1>1, <1>9 DEF vars, engine
  <1> QED BY <1>2, <1>3, <1>4, <1>5, <1>6, <1>7, <1>8, <1>9 DEF Next

LEMMA CeilingImplies == CeilingInv => CeilingsHold
  <1> SUFFICES ASSUME CeilingInv PROVE CeilingsHold
    OBVIOUS
  <1>1. /\ clock \in Nat /\ clock <= MaxTime
        /\ LogOK(log, clock) /\ DayOK(ledger, log, clock)
        /\ CeilingOK(ledger.voice, log, clock, "voice", VoiceHorizon, MaxVoice)
        /\ CeilingOK(ledger.sms, log, clock, "sms", SmsHorizon, MaxSms)
    BY LimitAssumption DEF CeilingInv, LedgerInv
  <1>2. Len(log) \in Nat /\ DOMAIN log = 1 .. Len(log)
    BY <1>1, LogShape
  <1>3. ledger.voice \union ledger.sms \subseteq DOMAIN log
    BY <1>1, <1>2 DEF CeilingOK, Remembers
  <1>4. Cardinality(ledger.voice) <= MaxVoice /\ Cardinality(ledger.sms) <= MaxSms
    BY <1>1 DEF CeilingOK
  <1>5. ledger.day \in -1 .. MaxTime
    <2>1. Day \in Nat /\ Day >= 1
      BY LimitAssumption
    <2>2. clock \div Day \in Nat /\ Day * (clock \div Day) <= clock
      BY <1>1, <2>1, Days
    <2>3. clock \div Day <= Day * (clock \div Day)
      BY <2>1, <2>2
    <2>4. clock \div Day <= MaxTime
      BY <1>1, <2>1, <2>2, <2>3, LimitAssumption
    <2>5. ledger.day \in -1 .. (clock \div Day)
      BY <1>1 DEF DayOK
    <2> QED BY <2>2, <2>4, <2>5, LimitAssumption
  <1>6. ledger.usd \in 0 .. MaxSpend
    <2>1. ledger.usd = SpentOn(log, ledger.day) /\ ledger.usd <= MaxSpend
      BY <1>1 DEF DayOK
    <2>2. SpentOn(log, ledger.day) \in Nat
      BY <1>1, DayGrows, Cheapest DEF Channels
    <2> QED BY <2>1, <2>2, LimitAssumption
  <1>7. ASSUME NEW t \in 0 .. MaxTime
        PROVE  /\ Cardinality(Until(log, "voice", VoiceHorizon, t)) <= MaxVoice
               /\ Cardinality(Until(log, "sms", SmsHorizon, t)) <= MaxSms
               /\ SpentOn(log, t \div Day) <= MaxSpend
    <2>1. t \in Nat /\ t \div Day \in Nat
      BY LimitAssumption, Days
    <2> QED BY <1>1, <2>1 DEF CeilingOK, DayOK
  <1>8. LedgerOK
    BY <1>3, <1>4, <1>5, <1>6 DEF LedgerOK
  <1> QED BY <1>7, <1>8 DEF CeilingsHold

\* However many runs of the ladder, ticks and callbacks fall into them, no ten
\* minutes see more calls, no hour more messages and no day more spending than
\* the limits allow (admit).
THEOREM CeilingsSafe == Spec => []CeilingsHold
  <1> QED BY CeilingStarts, CeilingStep, CeilingImplies, PTL DEF Spec
=============================================================================
