------------------------- MODULE H264SidecarProofs -------------------------
(***************************************************************************)
(* Proofs about H264Sidecar for any finite set of viewers, any number of   *)
(* encoder processes and any ring length: the reference count, the process *)
(* on record and the order of what a viewer is sent.                       *)
(***************************************************************************)
EXTENDS H264Sidecar, TLAPS, FiniteSetTheorems, SequenceTheorems

\* Appending to the ring keeps it within its length.
LEMMA PushedFits ==
    ASSUME NEW S, NEW r \in Seq(S), Len(r) <= RingLen, NEW x \in S
    PROVE  Pushed(r, x) \in Seq(S) /\ Len(Pushed(r, x)) <= RingLen
<1> USE SidecarAssumption
<1>1. CASE Len(r) >= RingLen
  <2>1. r # <<>>
    BY <1>1
  <2>2. Tail(r) \in Seq(S) /\ Len(Tail(r)) = Len(r) - 1
    BY <2>1, HeadTailProperties
  <2>3. /\ Append(Tail(r), x) \in Seq(S)
        /\ Len(Append(Tail(r), x)) = Len(Tail(r)) + 1
    BY <2>2, AppendProperties
  <2> QED BY <1>1, <2>2, <2>3 DEF Pushed
<1>2. CASE ~(Len(r) >= RingLen)
  <2>1. Append(r, x) \in Seq(S) /\ Len(Append(r, x)) = Len(r) + 1
    BY AppendProperties
  <2> QED BY <1>2, <2>1 DEF Pushed
<1> QED BY <1>1, <1>2

\* What a viewer is given is in the ring.
LEMMA AuAfterInRing ==
    ASSUME NEW since, NEW entry \in AuAfter(since)
    PROVE  \E i \in DOMAIN ring : entry = ring[i]
BY DEF AuAfter, Newest, Oldest, Newer, Keyframes

\* The sidecar's own state keeps its type in the three ways it changes under the
\* lock on behalf of a connection.
SidecarType == ProcessType /\ RingType /\ PipeType

LEMMA SidecarTypeKept ==
    ASSUME SidecarType, Spawn \/ Kill \/ SidecarUnchanged
    PROVE  SidecarType'
<1> USE DEF SidecarType
<1>1. CASE Spawn /\ proc' # NoEncoder
  <2>1. ProcessType'
    BY <1>1, SidecarAssumption DEF ProcessType, Spawn, procVars
  <2>2. RingType'
    <3>1. ring' = <<>> /\ seq' = seq
      BY <1>1 DEF Spawn
    <3> QED BY <3>1, SidecarAssumption DEF RingType
  <2>3. PipeType'
    BY <1>1 DEF PipeType, Spawn, ReaderStates
  <2> QED BY <2>1, <2>2, <2>3
<1>2. CASE Spawn /\ proc' = NoEncoder
  <2>1. /\ UNCHANGED <<running, spawns, alive, ring, seq, fed, wrote, made, reader>>
    BY <1>2, SidecarAssumption DEF Spawn, NoEncoder, ringVars, pipeVars, ProcessType
  <2> QED BY <1>2, <2>1 DEF ProcessType, RingType, PipeType
<1>3. CASE Kill
  BY <1>3 DEF Kill, ringVars, pipeVars, ProcessType, RingType, PipeType
<1>4. CASE SidecarUnchanged
  BY <1>4 DEF SidecarUnchanged, procVars, ringVars, pipeVars, ProcessType, RingType, PipeType
<1> QED BY <1>1, <1>2, <1>3, <1>4

LEMMA TypeInit == Init => TypeOK
<1> SUFFICES ASSUME Init PROVE TypeOK
  OBVIOUS
<1>1. LeaseType /\ ProcessType
  BY DEF Init, LeaseType, ProcessType
<1>2. RingType
  BY SidecarAssumption DEF Init, RingType
<1>3. PipeType /\ PumpType
  BY DEF Init, PipeType, ReaderStates, PumpType
<1> QED BY <1>1, <1>2, <1>3 DEF TypeOK

\* One step of a thread that belongs to one process.
LEMMA ThreadTypeKept ==
    ASSUME TypeOK, NEW e \in Encoders,
           FeedFrame(e) \/ FeedStops(e) \/ ReaderStep(e)
    PROVE  TypeOK'
<1> USE DEF ThreadFrame, leaseVars, ringVars, pumpVars
<1>1. CASE FeedFrame(e) \/ FeedStops(e)
  <2>1. UNCHANGED <<leaseVars, pumpVars, proc, spawns, alive, running, ringVars>>
    BY <1>1 DEF FeedFrame, FeedStops
  <2>2. PipeType'
    BY <1>1 DEF FeedFrame, FeedStops, TypeOK, PipeType
  <2> QED BY <2>1, <2>2 DEF TypeOK, LeaseType, ProcessType, RingType, PumpType
<1>2. CASE ReaderTests(e) \/ ReaderReads(e) \/ ReaderEnds(e)
  <2>1. UNCHANGED <<leaseVars, pumpVars, proc, spawns, alive, ringVars>>
    BY <1>2 DEF ReaderTests, ReaderReads, ReaderEnds
  <2>2. running' \in BOOLEAN
    BY <1>2 DEF ReaderTests, ReaderReads, ReaderEnds, TypeOK, ProcessType
  <2>3. PipeType'
    BY <1>2 DEF ReaderTests, ReaderReads, ReaderEnds, TypeOK, PipeType, ReaderStates
  <2> QED BY <2>1, <2>2, <2>3 DEF TypeOK, LeaseType, ProcessType, RingType, PumpType
<1>3. CASE ReaderPushes(e)
  <2> DEFINE entry == [seq |-> seq', au |-> [enc |-> e, n |-> made[e]]]
  <2>1. UNCHANGED <<leaseVars, pumpVars, proc, spawns, alive, running>>
    BY <1>3 DEF ReaderPushes
  <2>2. PipeType'
    BY <1>3 DEF ReaderPushes, TypeOK, PipeType, ReaderStates
  <2>3. seq' \in Nat /\ ring' = Pushed(ring, entry)
    BY <1>3 DEF ReaderPushes, TypeOK, RingType
  <2>4. entry \in Entries
    BY <2>3 DEF TypeOK, PipeType, Entries, AUs
  <2> HIDE DEF entry
  <2>5. ring' \in Seq(Entries) /\ Len(ring') <= RingLen
    BY <2>3, <2>4, PushedFits DEF TypeOK, RingType
  <2> QED BY <2>1, <2>2, <2>3, <2>5 DEF TypeOK, LeaseType, ProcessType, RingType, PumpType
<1> QED BY <1>1, <1>2, <1>3 DEF ReaderStep

\* Every variable keeps its type, whatever the viewers, the processes and the
\* temperature do.
THEOREM TypeCorrect == Spec => []TypeOK
<1>1. ASSUME TypeOK, [Next]_vars PROVE TypeOK'
  <2> USE <1>1
  <2>1. ASSUME NEW v \in Viewers, ViewerConnects(v) PROVE TypeOK'
    <3>1. LeaseType'
      BY <2>1 DEF ViewerConnects, Acquire, TypeOK, LeaseType
    <3>2. PumpType'
      BY <2>1 DEF ViewerConnects, TypeOK, PumpType
    <3>3. SidecarUnchanged \/ Spawn
      BY <2>1 DEF ViewerConnects, Acquire
    <3>4. SidecarType'
      BY <3>3, SidecarTypeKept DEF TypeOK, SidecarType
    <3> QED BY <3>1, <3>2, <3>4 DEF TypeOK, SidecarType
  <2>2. ASSUME NEW v \in Viewers, ViewerLeaves(v) PROVE TypeOK'
    <3>1. LeaseType'
      BY <2>2 DEF ViewerLeaves, Release, TypeOK, LeaseType
    <3>2. PumpType'
      BY <2>2 DEF ViewerLeaves, TypeOK, PumpType, pumpVars
    <3>3. Kill \/ SidecarUnchanged
      BY <2>2 DEF ViewerLeaves, Release
    <3>4. SidecarType'
      BY <3>3, SidecarTypeKept DEF TypeOK, SidecarType
    <3> QED BY <3>1, <3>2, <3>4 DEF TypeOK, SidecarType
  <2>3. ASSUME NEW v \in Viewers, PumpSends(v) PROVE TypeOK'
    <3>1. PICK entry \in AuAfter(last[v]) :
             /\ last' = [last EXCEPT ![v] = entry.seq]
             /\ shown' = [shown EXCEPT ![v] = entry.au]
      BY <2>3 DEF PumpSends
    <3>2. PICK i \in DOMAIN ring : entry = ring[i]
      BY <3>1, AuAfterInRing
    <3>3. entry \in Entries
      BY <3>2 DEF TypeOK, RingType
    <3>4. PumpType'
      BY <3>1, <3>3 DEF TypeOK, PumpType, Entries
    <3>5. LeaseType'
      BY <2>3 DEF PumpSends, TypeOK, LeaseType, leaseVars
    <3>6. SidecarType'
      BY <2>3, SidecarTypeKept DEF PumpSends, TypeOK, SidecarType
    <3> QED BY <3>4, <3>5, <3>6 DEF TypeOK, SidecarType
  <2>4. CASE WatchdogKills \/ Shutdown
    <3>1. ASSUME WatchdogKills PROVE LeaseType'
      BY <3>1 DEF WatchdogKills, leaseVars, TypeOK, LeaseType
    <3>2. ASSUME Shutdown PROVE LeaseType'
      BY <3>2 DEF Shutdown, TypeOK, LeaseType
    <3>3. LeaseType'
      BY <2>4, <3>1, <3>2
    <3>4. PumpType'
      BY <2>4 DEF WatchdogKills, Shutdown, pumpVars, TypeOK, PumpType
    <3>5. SidecarType'
      BY <2>4, SidecarTypeKept DEF WatchdogKills, Shutdown, TypeOK, SidecarType
    <3> QED BY <3>3, <3>4, <3>5 DEF TypeOK, SidecarType
  <2>5. ASSUME NEW e \in Encoders, EncoderDies(e) PROVE TypeOK'
    <3>1. LeaseType' /\ PumpType' /\ RingType' /\ PipeType'
      BY <2>5 DEF EncoderDies, leaseVars, pumpVars, ringVars, pipeVars, TypeOK,
                  LeaseType, PumpType, RingType, PipeType
    <3>2. ProcessType'
      BY <2>5 DEF EncoderDies, TypeOK, ProcessType
    <3> QED BY <3>1, <3>2 DEF TypeOK
  <2>6. CASE UNCHANGED vars
    BY <2>6 DEF vars, TypeOK, LeaseType, ProcessType, RingType, PipeType, PumpType
  <2> QED BY <2>1, <2>2, <2>3, <2>4, <2>5, <2>6, ThreadTypeKept DEF Next
<1> QED BY <1>1, TypeInit, PTL DEF Spec

-----------------------------------------------------------------------------
(* The count.  A refused viewer takes nothing and still gives one back, so the *)
(* count may fall short of the connections; it is never above them, and it     *)
(* reaches zero, which ends the encoder, no later than the last of them leaves. *)

LEMMA ConnsFinite ==
    ASSUME TypeOK
    PROVE  IsFiniteSet(conns) /\ Cardinality(conns) \in Nat
BY SidecarAssumption, FS_Subset, FS_CardinalityType DEF TypeOK, LeaseType

LEMMA CountedStep ==
    ASSUME TypeOK, Counted, [Next]_vars
    PROVE  Counted'
<1> USE ConnsFinite
<1>1. ASSUME NEW v \in Viewers, ViewerConnects(v) PROVE Counted'
  <2>1. v \notin conns /\ conns' = conns \cup {v}
    BY <1>1 DEF ViewerConnects
  <2>2. Cardinality(conns') = Cardinality(conns) + 1
    BY <2>1, FS_AddElement
  <2>3. CASE viewers' = viewers /\ SidecarUnchanged
    BY <2>2, <2>3 DEF Counted, SidecarUnchanged, procVars, TypeOK, LeaseType
  <2>4. CASE viewers' = viewers + 1 /\ running /\ SidecarUnchanged
    BY <2>2, <2>4 DEF Counted, SidecarUnchanged, procVars, TypeOK, LeaseType
  <2>5. CASE viewers' = viewers + 1 /\ ~running /\ Spawn
    <3>1. proc' = NoEncoder => ~running'
      BY <2>5, SidecarAssumption DEF Spawn, NoEncoder
    <3> QED BY <2>2, <2>5, <3>1 DEF Counted, TypeOK, LeaseType
  <2> QED BY <1>1, <2>3, <2>4, <2>5 DEF ViewerConnects, Acquire
<1>2. ASSUME NEW v \in Viewers, ViewerLeaves(v) PROVE Counted'
  <2>1. v \in conns /\ conns' = conns \ {v}
    BY <1>2 DEF ViewerLeaves
  <2>2. Cardinality(conns') = Cardinality(conns) - 1
    BY <2>1, FS_RemoveElement
  <2>3. Cardinality(conns) >= 1
    BY <2>1, FS_EmptySet
  <2> QED BY <1>2, <2>2, <2>3 DEF ViewerLeaves, Release, Kill, SidecarUnchanged, procVars,
                                 Counted, TypeOK, LeaseType
<1>3. CASE WatchdogKills
  BY <1>3 DEF WatchdogKills, Kill, leaseVars, Counted
<1>4. CASE Shutdown
  BY <1>4 DEF Shutdown, Kill, Counted
<1>5. ASSUME NEW v \in Viewers, PumpSends(v) PROVE Counted'
  BY <1>5 DEF PumpSends, SidecarUnchanged, procVars, leaseVars, Counted
<1>6. ASSUME NEW e \in Encoders, EncoderDies(e) PROVE Counted'
  BY <1>6 DEF EncoderDies, leaseVars, Counted
<1>7. ASSUME NEW e \in Encoders, FeedFrame(e) \/ FeedStops(e) \/ ReaderStep(e)
      PROVE Counted'
  BY <1>7 DEF FeedFrame, FeedStops, ReaderStep, ReaderTests, ReaderReads, ReaderPushes,
              ReaderEnds, ThreadFrame, leaseVars, Counted
<1>8. CASE UNCHANGED vars
  BY <1>8 DEF vars, Counted
<1> QED BY <1>1, <1>2, <1>3, <1>4, <1>5, <1>6, <1>7, <1>8 DEF Next

\* When the last connection has gone no encoder is left on record, with viewers
\* refused, encoders that die and a watchdog that kills them in between.
THEOREM IdleEncoderIsStopped == Spec => []IdleMeansStopped
<1>1. Init => Counted
  BY FS_EmptySet DEF Init, Counted
<1>2. TypeOK /\ Counted => IdleMeansStopped
  BY FS_EmptySet DEF Counted, IdleMeansStopped, TypeOK, LeaseType
<1> QED BY <1>1, <1>2, CountedStep, TypeCorrect, PTL DEF Spec

-----------------------------------------------------------------------------
LEMMA LeasedFinite ==
    ASSUME TypeOK
    PROVE  IsFiniteSet(leased) /\ Cardinality(leased) \in Nat
BY SidecarAssumption, FS_Subset, FS_CardinalityType DEF TypeOK, LeaseType

\* The count is exact until a viewer that was refused leaves or the capability
\* is stopped: every other departure gives back what its arrival took.
THEOREM CountIsExact == Spec => []LeaseCounted
<1>1. Init => LeaseCounted
  BY FS_EmptySet DEF Init, LeaseCounted
<1>2. ASSUME TypeOK, LeaseCounted, [Next]_vars PROVE LeaseCounted'
  <2> USE <1>2, LeasedFinite
  <2>1. ASSUME NEW v \in Viewers, ViewerConnects(v) PROVE LeaseCounted'
    <3>1. v \notin leased
      BY <2>1 DEF ViewerConnects, TypeOK, LeaseType
    <3>2. Cardinality(leased \cup {v}) = Cardinality(leased) + 1
      BY <3>1, FS_AddElement
    <3> QED BY <2>1, <3>2 DEF ViewerConnects, Acquire, LeaseCounted
  <2>2. ASSUME NEW v \in Viewers, ViewerLeaves(v), v \in leased PROVE LeaseCounted'
    <3>1. leased' = leased \ {v} /\ exact' = exact
      BY <2>2 DEF ViewerLeaves, TypeOK, LeaseType
    <3>2. Cardinality(leased') = Cardinality(leased) - 1 /\ Cardinality(leased) >= 1
      BY <2>2, <3>1, FS_RemoveElement, FS_EmptySet
    <3>3. viewers' = IF viewers = 0 THEN 0 ELSE viewers - 1
      BY <2>2 DEF ViewerLeaves, Release
    <3> QED BY <3>1, <3>2, <3>3 DEF LeaseCounted
  <2>3. ASSUME NEW v \in Viewers, ViewerLeaves(v), v \notin leased PROVE LeaseCounted'
    BY <2>3 DEF ViewerLeaves, LeaseCounted
  <2>4. CASE WatchdogKills
    BY <2>4 DEF WatchdogKills, leaseVars, LeaseCounted
  <2>5. CASE Shutdown
    BY <2>5 DEF Shutdown, LeaseCounted
  <2>6. ASSUME NEW v \in Viewers, PumpSends(v) PROVE LeaseCounted'
    BY <2>6 DEF PumpSends, leaseVars, LeaseCounted
  <2>7. ASSUME NEW e \in Encoders, EncoderDies(e) PROVE LeaseCounted'
    BY <2>7 DEF EncoderDies, leaseVars, LeaseCounted
  <2>8. ASSUME NEW e \in Encoders, FeedFrame(e) \/ FeedStops(e) \/ ReaderStep(e)
        PROVE LeaseCounted'
    BY <2>8 DEF FeedFrame, FeedStops, ReaderStep, ReaderTests, ReaderReads, ReaderPushes,
                ReaderEnds, ThreadFrame, leaseVars, LeaseCounted
  <2>9. CASE UNCHANGED vars
    BY <2>9 DEF vars, LeaseCounted
  <2> QED BY <2>1, <2>2, <2>3, <2>4, <2>5, <2>6, <2>7, <2>8, <2>9 DEF Next
<1> QED BY <1>1, <1>2, TypeCorrect, PTL DEF Spec

-----------------------------------------------------------------------------
LEMMA PumpStep ==
    ASSUME TypeOK, NEW v \in Viewers, PumpSends(v)
    PROVE  \E i \in DOMAIN ring :
              /\ ring[i] \in Entries
              /\ last[v] = 0 => IsKeyframe(ring[i].au)
              /\ last' = [last EXCEPT ![v] = ring[i].seq]
              /\ shown' = [shown EXCEPT ![v] = ring[i].au]
              /\ ring[i].au # NoAU
<1>1. PICK entry \in AuAfter(last[v]) :
         /\ last' = [last EXCEPT ![v] = entry.seq]
         /\ shown' = [shown EXCEPT ![v] = entry.au]
  BY DEF PumpSends
<1>2. PICK i \in DOMAIN ring :
         entry = ring[i] /\ (last[v] = 0 => IsKeyframe(ring[i].au))
  BY <1>1 DEF AuAfter, Newest, Oldest, Newer, Keyframes
<1>3. ring[i] \in Entries
  BY <1>2 DEF TypeOK, RingType
<1>4. ring[i].au # NoAU
  BY <1>3, SidecarAssumption DEF Entries, AUs, NoAU, NoEncoder
<1> QED BY <1>1, <1>2, <1>3, <1>4

\* A decoder is never started in the middle of a group of pictures, however the
\* ring was cleared and refilled before the viewer got its first access unit.
THEOREM DecoderStartsOnKeyframe == Spec => StartsOnKeyframe
<1> DEFINE Starts == \A v \in Viewers :
                        shown[v] = NoAU /\ shown'[v] # NoAU => IsKeyframe(shown'[v])
<1>1. Init => NothingYet
  BY DEF Init, NothingYet
<1>2. ASSUME TypeOK, NothingYet, [Next]_vars PROVE NothingYet' /\ Starts
  <2> USE <1>2
  <2>1. ASSUME NEW v \in Viewers, ViewerConnects(v) PROVE NothingYet' /\ Starts
    BY <2>1 DEF ViewerConnects, NothingYet, TypeOK, PumpType
  <2>2. ASSUME NEW v \in Viewers, PumpSends(v) PROVE NothingYet' /\ Starts
    <3>1. PICK i \in DOMAIN ring :
             /\ ring[i] \in Entries
             /\ last[v] = 0 => IsKeyframe(ring[i].au)
             /\ last' = [last EXCEPT ![v] = ring[i].seq]
             /\ shown' = [shown EXCEPT ![v] = ring[i].au]
             /\ ring[i].au # NoAU
      BY <2>2, PumpStep
    <3> QED BY <3>1 DEF NothingYet, TypeOK, PumpType
  <2>3. CASE UNCHANGED pumpVars
    BY <2>3 DEF pumpVars, NothingYet
  <2>4. ASSUME NEW v \in Viewers, ViewerLeaves(v) PROVE UNCHANGED pumpVars
    BY <2>4 DEF ViewerLeaves
  <2>5. WatchdogKills \/ Shutdown => UNCHANGED pumpVars
    BY DEF WatchdogKills, Shutdown
  <2>6. ASSUME NEW e \in Encoders,
               EncoderDies(e) \/ FeedFrame(e) \/ FeedStops(e) \/ ReaderStep(e)
        PROVE  UNCHANGED pumpVars
    BY <2>6 DEF EncoderDies, FeedFrame, FeedStops, ReaderStep, ReaderTests, ReaderReads,
                ReaderPushes, ReaderEnds, ThreadFrame
  <2>7. UNCHANGED vars => UNCHANGED pumpVars
    BY DEF vars, pumpVars
  <2> QED BY <2>1, <2>2, <2>3, <2>4, <2>5, <2>6, <2>7 DEF Next
<1>3. ASSUME TypeOK, NothingYet, [Next]_vars
      PROVE  [\A v \in Viewers :
                shown[v] = NoAU /\ shown'[v] # NoAU => IsKeyframe(shown'[v])]_vars
  BY <1>2, <1>3
<1> QED BY <1>1, <1>2, <1>3, TypeCorrect, PTL DEF Spec, StartsOnKeyframe

-----------------------------------------------------------------------------
(* The order of the access units. *)

Held == {ring[i] : i \in DOMAIN ring}

\* An access unit that was pushed: its process's reader is past it.
Past(au) ==
    /\ au.n <= made[au.enc]
    /\ reader[au.enc] = "pushing" => au.n < made[au.enc]

\* Of one process, what was pushed later comes later, in the ring and after what
\* a viewer was sent.
RingInOrder ==
    /\ \A x \in Held : x.seq \in 1 .. seq /\ Past(x.au)
    /\ \A x, y \in Held : x.seq < y.seq /\ x.au.enc = y.au.enc => x.au.n < y.au.n
SentInOrder ==
    \A v \in Viewers : shown[v] # NoAU =>
       /\ last[v] \in 1 .. seq /\ Past(shown[v])
       /\ \A x \in Held : x.seq > last[v] /\ x.au.enc = shown[v].enc => x.au.n > shown[v].n
InOrder == RingInOrder /\ SentInOrder

\* Pushing adds one entry to the ring, and may take one away.
LEMMA PushedHolds ==
    ASSUME NEW S, NEW r \in Seq(S), NEW x \in S, NEW i \in DOMAIN Pushed(r, x)
    PROVE  Pushed(r, x)[i] = x \/ \E j \in DOMAIN r : Pushed(r, x)[i] = r[j]
<1>1. ASSUME NEW q \in Seq(S), NEW k \in DOMAIN Append(q, x)
      PROVE  Append(q, x)[k] = x \/ (k \in DOMAIN q /\ Append(q, x)[k] = q[k])
  BY <1>1, AppendProperties
<1>2. CASE Len(r) >= RingLen
  <2>1. r # <<>>
    BY <1>2, SidecarAssumption
  <2>2. /\ Tail(r) \in Seq(S) /\ Len(Tail(r)) = Len(r) - 1
        /\ \A k \in 1 .. Len(Tail(r)) : Tail(r)[k] = r[k + 1]
    BY <2>1, HeadTailProperties
  <2>3. \A k \in DOMAIN Tail(r) : k + 1 \in DOMAIN r /\ Tail(r)[k] = r[k + 1]
    BY <2>2
  <2>4. Pushed(r, x) = Append(Tail(r), x)
    BY <1>2 DEF Pushed
  <2> QED BY <1>1, <2>2, <2>3, <2>4
<1>3. CASE ~(Len(r) >= RingLen)
  BY <1>1, <1>3 DEF Pushed
<1> QED BY <1>2, <1>3

LEMMA HeldTyped == TypeOK => \A x \in Held : x \in Entries
BY DEF TypeOK, RingType, Held

LEMMA KeptInOrder ==
    ASSUME TypeOK, InOrder, UNCHANGED <<seq, made, last, shown>>,
           Held' \subseteq Held,
           \A e \in Encoders : reader'[e] = "pushing" => reader[e] = "pushing"
    PROVE  InOrder'
<1>1. \A x \in Held : x.au \in AUs
  BY HeldTyped DEF Entries
<1>2. \A v \in Viewers : shown[v] # NoAU => shown[v] \in AUs
  BY DEF TypeOK, PumpType
<1>3. \A au \in AUs : Past(au) => Past(au)'
  BY DEF Past, AUs
<1> QED BY <1>1, <1>2, <1>3 DEF InOrder, RingInOrder, SentInOrder

LEMMA SidecarInOrder ==
    ASSUME TypeOK, InOrder, Spawn \/ Kill \/ SidecarUnchanged, UNCHANGED pumpVars
    PROVE  InOrder'
<1>1. UNCHANGED <<seq, made, last, shown>>
  BY DEF Spawn, Kill, SidecarUnchanged, ringVars, pipeVars, pumpVars
<1>2. Held' \subseteq Held
  <2>1. ring' = ring \/ ring' = <<>>
    BY DEF Spawn, Kill, SidecarUnchanged, ringVars
  <2> QED BY <2>1 DEF Held
<1>3. \A e \in Encoders : reader'[e] = "pushing" => reader[e] = "pushing"
  BY DEF Spawn, Kill, SidecarUnchanged, pipeVars, TypeOK, PipeType
<1> QED BY <1>1, <1>2, <1>3, KeptInOrder

LEMMA ReadInOrder ==
    ASSUME TypeOK, InOrder, NEW e \in Encoders, ReaderReads(e), made' # made
    PROVE  InOrder'
<1>1. /\ made' = [made EXCEPT ![e] = @ + 1] /\ UNCHANGED <<ring, seq, last, shown>>
      /\ made \in [Encoders -> Nat] /\ reader' = [reader EXCEPT ![e] = "pushing"]
      /\ reader[e] = "reading" /\ reader \in [Encoders -> ReaderStates]
  BY DEF ReaderReads, ThreadFrame, ringVars, pumpVars, TypeOK, PipeType
<1>2. ASSUME NEW au \in AUs, Past(au) PROVE Past(au)'
  <2>1. CASE au.enc = e
    BY <1>1, <1>2, <2>1 DEF Past, AUs
  <2>2. CASE au.enc # e
    BY <1>1, <1>2, <2>2 DEF Past, AUs
  <2> QED BY <2>1, <2>2
<1>3. \A x \in Held : x.au \in AUs
  BY HeldTyped DEF Entries
<1>4. \A v \in Viewers : shown[v] # NoAU => shown[v] \in AUs
  BY DEF TypeOK, PumpType
<1>5. Held' = Held
  BY <1>1 DEF Held
<1> QED BY <1>1, <1>2, <1>3, <1>4, <1>5 DEF InOrder, RingInOrder, SentInOrder

LEMMA PushInOrder ==
    ASSUME TypeOK, InOrder, NEW e \in Encoders, ReaderPushes(e)
    PROVE  InOrder'
<1>0. PICK new : new = [seq |-> seq + 1, au |-> [enc |-> e, n |-> made[e]]]
  OBVIOUS
<1>1. /\ ring' = Pushed(ring, new) /\ seq' = seq + 1 /\ UNCHANGED <<made, last, shown>>
      /\ reader[e] = "pushing" /\ reader' = [reader EXCEPT ![e] = "testing"]
      /\ ring \in Seq(Entries) /\ seq \in Nat /\ made \in [Encoders -> Nat]
      /\ reader \in [Encoders -> ReaderStates]
  BY <1>0 DEF ReaderPushes, ThreadFrame, pumpVars, TypeOK, RingType, PipeType
<1>2. new \in Entries /\ new.seq = seq + 1 /\ new.au.enc = e /\ new.au.n = made[e]
  BY <1>0, <1>1 DEF Entries, AUs
<1>3. \A x \in Held' : x = new \/ x \in Held
  BY <1>1, <1>2, PushedHolds DEF Held
<1>4. \A x \in Held : x \in Entries /\ x.au \in AUs /\ x.seq \in Nat
  BY HeldTyped DEF Entries
<1>5. \A v \in Viewers : shown[v] # NoAU => shown[v] \in AUs
  BY DEF TypeOK, PumpType
<1>6. ASSUME NEW au \in AUs, Past(au) PROVE Past(au)' /\ (au.enc = e => au.n < made[e])
  <2>1. au.enc = e => au.n < made[e]
    BY <1>1, <1>6 DEF Past
  <2>2. Past(au)'
    BY <1>1, <1>6 DEF Past, AUs
  <2> QED BY <2>1, <2>2
<1>7. Past(new.au)'
  BY <1>1, <1>2 DEF Past
<1>8. RingInOrder'
  <2>1. ASSUME NEW x \in Held' PROVE x.seq \in 1 .. seq' /\ Past(x.au)'
    BY <1>1, <1>2, <1>3, <1>4, <1>6, <1>7 DEF InOrder, RingInOrder
  <2>2. ASSUME NEW x \in Held', NEW y \in Held', x.seq < y.seq, x.au.enc = y.au.enc
        PROVE  x.au.n < y.au.n
    <3>1. x \in Held /\ x.seq \in 1 .. seq /\ Past(x.au)
      BY <1>1, <1>2, <1>3, <1>4, <2>2 DEF InOrder, RingInOrder
    <3>2. CASE y = new
      BY <1>2, <1>4, <1>6, <2>2, <3>1, <3>2
    <3>3. CASE y \in Held
      BY <2>2, <3>1, <3>3 DEF InOrder, RingInOrder
    <3> QED BY <1>3, <3>2, <3>3
  <2> QED BY <2>1, <2>2 DEF RingInOrder
<1>9. SentInOrder'
  <2> SUFFICES ASSUME NEW v \in Viewers, shown[v] # NoAU
               PROVE  /\ last[v] \in 1 .. seq' /\ Past(shown[v])'
                      /\ \A x \in Held' : x.seq > last[v] /\ x.au.enc = shown[v].enc
                                             => x.au.n > shown[v].n
    BY <1>1 DEF SentInOrder
  <2>1. shown[v] \in AUs /\ Past(shown[v]) /\ last[v] \in 1 .. seq
    BY <1>5 DEF InOrder, SentInOrder
  <2>2. Past(shown[v])' /\ last[v] \in 1 .. seq'
    BY <1>1, <1>6, <2>1
  <2>3. ASSUME NEW x \in Held', x.seq > last[v], x.au.enc = shown[v].enc
        PROVE  x.au.n > shown[v].n
    <3>1. CASE x = new
      BY <1>1, <1>2, <1>6, <2>1, <2>3, <3>1 DEF AUs
    <3>2. CASE x \in Held
      BY <2>3, <3>2 DEF InOrder, SentInOrder
    <3> QED BY <1>3, <3>1, <3>2
  <2> QED BY <2>2, <2>3
<1> QED BY <1>8, <1>9 DEF InOrder

\* A viewer is sent the oldest entry that is newer than its last, or its first.
LEMMA SendInOrder ==
    ASSUME TypeOK, InOrder, NEW v \in Viewers, PumpSends(v)
    PROVE  /\ InOrder'
           /\ \A w \in Viewers : shown'[w] # shown[w] /\ shown'[w].enc = shown[w].enc =>
                                    shown'[w].n > shown[w].n
<1>1. PICK x \in AuAfter(last[v]) :
         last' = [last EXCEPT ![v] = x.seq] /\ shown' = [shown EXCEPT ![v] = x.au]
  BY DEF PumpSends
<1>2. x \in Held /\ (last[v] # 0 => x.seq > last[v])
  BY <1>1 DEF AuAfter, Newest, Oldest, Newer, Keyframes, Held
<1>3. x \in Entries /\ x.au \in AUs /\ x.seq \in 1 .. seq /\ Past(x.au)
  BY <1>2, HeldTyped DEF Entries, InOrder, RingInOrder
<1>4. UNCHANGED <<ring, seq, made, reader>>
  BY DEF PumpSends, SidecarUnchanged, ringVars, pipeVars
<1>5. Held' = Held /\ \A au : Past(au)' = Past(au)
  BY <1>4 DEF Held, Past
<1>6. last \in [Viewers -> Nat] /\ shown \in [Viewers -> AUs \cup {NoAU}]
  BY DEF TypeOK, PumpType
<1>7. RingInOrder'
  BY <1>4, <1>5 DEF InOrder, RingInOrder
<1>8. SentInOrder'
  <2>1. ASSUME NEW w \in Viewers, w # v
        PROVE  last'[w] = last[w] /\ shown'[w] = shown[w]
    BY <1>1, <1>6, <2>1
  <2>2. last'[v] = x.seq /\ shown'[v] = x.au
    BY <1>1, <1>6
  <2>3. \A y \in Held : y.seq > x.seq /\ y.au.enc = x.au.enc => y.au.n > x.au.n
    <3>1. \A y \in Held : x.seq < y.seq /\ x.au.enc = y.au.enc => x.au.n < y.au.n
      BY <1>2 DEF InOrder, RingInOrder
    <3>2. \A y \in Held : y.seq \in Nat /\ y.au.n \in Nat
      BY HeldTyped DEF Entries, AUs
    <3> QED BY <1>3, <3>1, <3>2 DEF AUs
  <2> QED BY <1>3, <1>4, <1>5, <2>1, <2>2, <2>3 DEF InOrder, SentInOrder
<1>9. ASSUME NEW w \in Viewers, shown'[w] # shown[w], shown'[w].enc = shown[w].enc
      PROVE  shown'[w].n > shown[w].n
  <2>1. w = v /\ shown'[w] = x.au
    BY <1>1, <1>6, <1>9
  <2>2. shown[v] # NoAU
    BY <1>3, <1>9, <2>1, SidecarAssumption DEF AUs, NoAU, NoEncoder
  <2>3. last[v] # 0
    BY <2>2 DEF InOrder, SentInOrder
  <2> QED BY <1>2, <1>9, <2>1, <2>2, <2>3 DEF InOrder, SentInOrder
<1> QED BY <1>7, <1>8, <1>9 DEF InOrder

LEMMA StepInOrder ==
    ASSUME TypeOK, InOrder, [Next]_vars
    PROVE  /\ InOrder'
           /\ \A v \in conns \cap conns' :
                 shown'[v] # shown[v] /\ shown'[v].enc = shown[v].enc =>
                    shown'[v].n > shown[v].n
<1>0. conns \subseteq Viewers
  BY DEF TypeOK, LeaseType
<1> DEFINE Onward == \A v \in conns \cap conns' :
                        shown'[v] # shown[v] /\ shown'[v].enc = shown[v].enc =>
                           shown'[v].n > shown[v].n
<1>1. ASSUME NEW v \in Viewers, ViewerConnects(v) PROVE InOrder' /\ Onward
  <2>1. /\ v \notin conns /\ (Spawn \/ SidecarUnchanged)
        /\ last' = [last EXCEPT ![v] = 0] /\ shown' = [shown EXCEPT ![v] = NoAU]
        /\ last \in [Viewers -> Nat] /\ shown \in [Viewers -> AUs \cup {NoAU}]
    BY <1>1 DEF ViewerConnects, Acquire, TypeOK, PumpType
  <2>2. \A w \in Viewers \ {v} : last'[w] = last[w] /\ shown'[w] = shown[w]
    BY <2>1
  <2>3. /\ UNCHANGED <<seq, made>> /\ (ring' = ring \/ ring' = <<>>)
        /\ \A e \in Encoders : reader'[e] = "pushing" => reader[e] = "pushing"
    BY <2>1 DEF Spawn, SidecarUnchanged, ringVars, pipeVars, TypeOK, PipeType
  <2>4. Held' \subseteq Held
    BY <2>3 DEF Held
  <2>5. \A au \in AUs : Past(au) => Past(au)'
    BY <2>3 DEF Past, AUs
  <2>6. \A x \in Held : x.au \in AUs
    BY HeldTyped DEF Entries
  <2>7. RingInOrder'
    BY <2>3, <2>4, <2>5, <2>6 DEF InOrder, RingInOrder
  <2>8. SentInOrder'
    BY <2>1, <2>2, <2>3, <2>4, <2>5 DEF InOrder, SentInOrder
  <2> QED BY <1>0, <2>1, <2>2, <2>7, <2>8 DEF InOrder
<1>2. ASSUME NEW v \in Viewers, ViewerLeaves(v) PROVE InOrder' /\ Onward
  <2>1. UNCHANGED pumpVars /\ (Kill \/ SidecarUnchanged)
    BY <1>2 DEF ViewerLeaves, Release
  <2> QED BY <2>1, SidecarInOrder DEF pumpVars
<1>3. ASSUME NEW v \in Viewers, PumpSends(v) PROVE InOrder' /\ Onward
  BY <1>0, <1>3, SendInOrder
<1>4. CASE WatchdogKills \/ Shutdown
  <2>1. UNCHANGED pumpVars /\ Kill
    BY <1>4 DEF WatchdogKills, Shutdown
  <2> QED BY <2>1, SidecarInOrder DEF pumpVars
<1>5. ASSUME NEW e \in Encoders, EncoderDies(e) PROVE InOrder' /\ Onward
  <2>1. UNCHANGED <<ring, seq, made, reader, last, shown>>
    BY <1>5 DEF EncoderDies, ringVars, pipeVars, pumpVars
  <2> QED BY <2>1, KeptInOrder DEF Held
<1>6. ASSUME NEW e \in Encoders,
             FeedFrame(e) \/ FeedStops(e) \/ ReaderTests(e) \/ ReaderEnds(e)
                \/ (ReaderReads(e) /\ made' = made)
      PROVE  InOrder' /\ Onward
  <2>1. UNCHANGED <<ring, seq, made, last, shown>>
    BY <1>6 DEF FeedFrame, FeedStops, ReaderTests, ReaderEnds, ReaderReads, ThreadFrame,
                ringVars, pumpVars
  <2>2. \A d \in Encoders : reader'[d] = "pushing" => reader[d] = "pushing"
    BY <1>6, <2>1 DEF FeedFrame, FeedStops, ReaderTests, ReaderEnds, ReaderReads, TypeOK, PipeType
  <2> QED BY <2>1, <2>2, KeptInOrder DEF Held
<1>7. ASSUME NEW e \in Encoders, ReaderReads(e), made' # made PROVE InOrder' /\ Onward
  BY <1>7, ReadInOrder DEF ReaderReads, ThreadFrame, pumpVars
<1>8. ASSUME NEW e \in Encoders, ReaderPushes(e) PROVE InOrder' /\ Onward
  BY <1>8, PushInOrder DEF ReaderPushes, ThreadFrame, pumpVars
<1>9. CASE UNCHANGED vars
  <2>1. UNCHANGED <<ring, seq, made, reader, last, shown>>
    BY <1>9 DEF vars
  <2> QED BY <2>1, KeptInOrder DEF Held
<1> QED BY <1>1, <1>2, <1>3, <1>4, <1>5, <1>6, <1>7, <1>8, <1>9 DEF Next, ReaderStep

\* Of what one process encoded, a viewer is sent each access unit after those it
\* was sent before: readers of older processes push between, the ring is cleared
\* and runs over, and no unit comes twice or late.
THEOREM NothingReplayed == Spec => NoReplay
<1>1. Init => InOrder
  <2>1. Init => Held = {}
    BY DEF Init, Held
  <2> QED BY <2>1 DEF Init, InOrder, RingInOrder, SentInOrder
<1>2. ASSUME TypeOK, InOrder, [Next]_vars
      PROVE  [\A v \in conns \cap conns' :
                shown'[v] # shown[v] /\ shown'[v].enc = shown[v].enc =>
                    shown'[v].n > shown[v].n]_vars
  BY <1>2, StepInOrder
<1> QED BY <1>1, <1>2, StepInOrder, TypeCorrect, PTL DEF Spec, NoReplay
=============================================================================
