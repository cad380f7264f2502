-------------------------- MODULE InputCoreProofs --------------------------
(***************************************************************************)
(* Proofs about InputCore, for every set of clients, viewers, keys and     *)
(* requests: its type invariant, LockHonoured, ExplainedDown and the       *)
(* refinement of KeySessions, SweptIsUp, ClosedViewerHoldsNothing and      *)
(* StrokesWhole.  A theorem that needs more than the assumptions of        *)
(* InputCore states it: HostStays, NoForeignLock, KeysFit, RemapApart,     *)
(* NoRepeats.                                                              *)
(***************************************************************************)
EXTENDS InputCore, SequenceTheorems, FunctionTheorems, FiniteSetTheorems, TLAPS

-----------------------------------------------------------------------------
(* The reports. *)

\* Taking a key out of a report leaves the other keys, in their order.
LEMMA WithoutFacts ==
    ASSUME NEW S, NEW ks \in Seq(S), Distinct(ks), NEW c
    PROVE  /\ Without(ks, c) \in Seq(S)
           /\ Distinct(Without(ks, c))
           /\ SeqRange(Without(ks, c)) = SeqRange(ks) \ {c}
<1>1. CASE c \notin SeqRange(ks)
  BY <1>1 DEF Without, SeqRange
<1>2. CASE c \in SeqRange(ks)
  <2> DEFINE i == CHOOSE j \in DOMAIN ks : ks[j] = c
             rest == [j \in 1 .. Len(ks) - 1 |-> IF j < i THEN ks[j] ELSE ks[j + 1]]
  <2>1. i \in 1 .. Len(ks) /\ ks[i] = c
    BY <1>2 DEF SeqRange
  <2>2. Without(ks, c) = rest
    BY <1>2 DEF Without
  <2> HIDE DEF i
  <2>3. /\ rest \in Seq(S)
        /\ DOMAIN rest = 1 .. Len(ks) - 1
        /\ \A j \in 1 .. Len(ks) - 1 : rest[j] = IF j < i THEN ks[j] ELSE ks[j + 1]
    <3>1. Len(ks) \in Nat /\ Len(ks) - 1 \in Nat
      BY <2>1
    <3>2. \A j \in 1 .. Len(ks) - 1 : (IF j < i THEN ks[j] ELSE ks[j + 1]) \in S
      BY <2>1, <3>1
    <3>3. rest \in [1 .. Len(ks) - 1 -> S]
      BY <3>2
    <3>4. rest \in Seq(S)
      BY <3>1, <3>3, SeqDef
    <3> QED BY <3>4
  <2> HIDE DEF rest
  <2>4. Distinct(rest)
    <3> DEFINE at(j) == IF j < i THEN j ELSE j + 1
    <3>1. \A j \in DOMAIN rest : at(j) \in DOMAIN ks /\ rest[j] = ks[at(j)]
      <4> SUFFICES ASSUME NEW j \in DOMAIN rest
                   PROVE  at(j) \in DOMAIN ks /\ rest[j] = ks[at(j)]
        OBVIOUS
      <4>1. j \in 1 .. Len(ks) - 1 /\ rest[j] = IF j < i THEN ks[j] ELSE ks[j + 1]
        BY <2>3 DEF rest
      <4>2. CASE j < i
        BY <2>1, <4>1, <4>2
      <4>3. CASE ~(j < i)
        BY <2>1, <4>1, <4>3
      <4> QED BY <4>2, <4>3
    <3>2. SUFFICES ASSUME NEW j \in DOMAIN rest, NEW k \in DOMAIN rest, rest[j] = rest[k]
                   PROVE  j = k
      BY DEF Distinct
    <3>3. at(j) = at(k)
      BY <3>1, <3>2 DEF Distinct
    <3> QED BY <3>3, <2>1, <2>3
  <2>5. SeqRange(rest) \subseteq SeqRange(ks) \ {c}
    BY <2>1, <2>3 DEF SeqRange, Distinct
  <2>6. ASSUME NEW j \in DOMAIN ks, ks[j] # c
        PROVE  ks[j] \in SeqRange(rest)
    <3>1. CASE j < i
      BY <3>1, <2>1, <2>3 DEF SeqRange
    <3>2. CASE j > i
      <4>1. (j - 1) \in DOMAIN rest /\ rest[j - 1] = ks[j]
        BY <3>2, <2>1, <2>3
      <4> QED BY <4>1 DEF SeqRange
    <3> QED BY <3>1, <3>2, <2>6, <2>1
  <2> QED BY <2>2, <2>3, <2>4, <2>5, <2>6 DEF SeqRange
<1> QED BY <1>1, <1>2

LEMMA RangeConcat ==
    ASSUME NEW S, NEW s \in Seq(S), NEW e \in S
    PROVE  SeqRange(<<e>> \o s) = SeqRange(s) \cup {e}
<1> DEFINE c == <<e>> \o s
<1>1. <<e>> \in Seq(S) /\ Len(<<e>>) = 1 /\ <<e>>[1] = e
  OBVIOUS
<1>2. /\ c \in Seq(S) /\ Len(c) = 1 + Len(s)
      /\ \A i \in 1 .. 1 + Len(s) : c[i] = IF i <= 1 THEN <<e>>[i] ELSE s[i - 1]
  BY <1>1, ConcatProperties
<1>3. Len(s) \in Nat /\ DOMAIN s = 1 .. Len(s) /\ DOMAIN c = 1 .. 1 + Len(s)
  BY <1>2
<1> HIDE DEF c
<1>4. SeqRange(c) \subseteq SeqRange(s) \cup {e}
  <2>1. ASSUME NEW i \in DOMAIN c PROVE c[i] \in SeqRange(s) \cup {e}
    <3>1. CASE i = 1
      BY <3>1, <1>1, <1>2, <1>3
    <3>2. CASE i # 1
      <4>1. (i - 1) \in DOMAIN s /\ c[i] = s[i - 1]
        BY <3>2, <1>2, <1>3
      <4> QED BY <4>1 DEF SeqRange
    <3> QED BY <3>1, <3>2
  <2> QED BY <2>1 DEF SeqRange
<1>5. e \in SeqRange(c)
  BY <1>1, <1>2, <1>3 DEF SeqRange
<1>6. ASSUME NEW i \in DOMAIN s PROVE s[i] \in SeqRange(c)
  <2>1. (i + 1) \in DOMAIN c /\ c[i + 1] = s[i]
    BY <1>2, <1>3
  <2> QED BY <2>1 DEF SeqRange
<1>7. SeqRange(s) \subseteq SeqRange(c)
  BY <1>6 DEF SeqRange
<1> QED BY <1>4, <1>5, <1>7 DEF c

LEMMA RangeTail ==
    ASSUME NEW S, NEW s \in Seq(S), s # <<>>
    PROVE  SeqRange(s) \subseteq SeqRange(Tail(s)) \cup {Head(s)}
<1>1. /\ Tail(s) \in Seq(S) /\ Len(Tail(s)) = Len(s) - 1
      /\ \A i \in 1 .. Len(Tail(s)) : Tail(s)[i] = s[i + 1]
  BY HeadTailProperties
<1>2. Len(s) \in Nat /\ DOMAIN s = 1 .. Len(s) /\ DOMAIN Tail(s) = 1 .. Len(s) - 1
  BY <1>1
<1>3. ASSUME NEW i \in DOMAIN s PROVE s[i] \in SeqRange(Tail(s)) \cup {Head(s)}
  <2>1. CASE i = 1
    BY <2>1
  <2>2. CASE i # 1
    <3>1. (i - 1) \in DOMAIN Tail(s) /\ Tail(s)[i - 1] = s[i]
      BY <2>2, <1>1, <1>2
    <3> QED BY <3>1 DEF SeqRange
  <2> QED BY <2>1, <2>2
<1> QED BY <1>3 DEF SeqRange

GoodReport(ks, bs) == ks \in Seq(Keys) /\ Distinct(ks) /\ bs \subseteq Mods \cup Buttons

\* A pressed code is in the report, and nothing else has joined it.
LEMMA PressedFacts ==
    ASSUME NEW ks, NEW bs, GoodReport(ks, bs), NEW c \in Codes
    PROVE  LET rep == Pressed(c, ks, bs)
           IN  /\ GoodReport(rep.keys, rep.bits)
               /\ ReportSet(rep) \subseteq SeqRange(ks) \cup bs \cup {c}
<1> DEFINE room == IF Len(ks) >= Rollover THEN Tail(ks) ELSE ks
<1>1. Len(ks) \in Nat /\ Rollover \in Nat \ {0} /\ DOMAIN ks = 1 .. Len(ks)
  BY BackendAssumption DEF GoodReport
<1>2. /\ room \in Seq(Keys) /\ Distinct(room)
      /\ SeqRange(room) \subseteq SeqRange(ks)
  <2>1. CASE Len(ks) >= Rollover
    <3>1. ks # <<>>
      BY <2>1, <1>1
    <3>2. /\ room \in Seq(Keys) /\ Len(room) = Len(ks) - 1
          /\ \A j \in 1 .. Len(room) : room[j] = ks[j + 1]
      BY <2>1, <3>1, HeadTailProperties DEF GoodReport
    <3>3. DOMAIN room = 1 .. Len(ks) - 1
      BY <3>2
    <3> HIDE DEF room
    <3>4. Distinct(room)
      <4>1. SUFFICES ASSUME NEW i \in DOMAIN room, NEW j \in DOMAIN room, room[i] = room[j]
                     PROVE  i = j
        BY DEF Distinct
      <4>2. room[i] = ks[i + 1] /\ room[j] = ks[j + 1]
        BY <1>1, <3>2, <3>3
      <4>3. i \in Int /\ j \in Int /\ i + 1 \in DOMAIN ks /\ j + 1 \in DOMAIN ks
        BY <1>1, <3>3
      <4>4. i + 1 = j + 1
        BY <4>1, <4>2, <4>3 DEF GoodReport, Distinct
      <4> QED BY <4>3, <4>4
    <3>5. SeqRange(room) \subseteq SeqRange(ks)
      BY <1>1, <3>2, <3>3 DEF SeqRange
    <3> QED BY <3>2, <3>4, <3>5
  <2>2. CASE ~(Len(ks) >= Rollover)
    BY <2>2 DEF GoodReport
  <2> QED BY <2>1, <2>2
<1>3. CASE c \in Keys /\ c \notin SeqRange(ks)
  <2> DEFINE longer == Append(room, c)
  <2>1. c \notin SeqRange(room)
    BY <1>2, <1>3
  <2>2. Pressed(c, ks, bs) = [keys |-> longer, bits |-> bs]
    BY <1>3 DEF Pressed
  <2> HIDE DEF room
  <2>3. /\ longer \in Seq(Keys) /\ Len(longer) = Len(room) + 1
        /\ \A j \in 1 .. Len(room) : longer[j] = room[j]
        /\ longer[Len(room) + 1] = c
    BY <1>2, <1>3, AppendProperties
  <2>4. Len(room) \in Nat /\ DOMAIN room = 1 .. Len(room) /\ DOMAIN longer = 1 .. Len(room) + 1
    BY <1>2, <2>3
  <2> HIDE DEF longer
  <2>5. \A j \in 1 .. Len(room) : longer[j] # c
    BY <2>1, <2>3, <2>4 DEF SeqRange
  <2>7. Distinct(longer)
    <3>1. SUFFICES ASSUME NEW j \in DOMAIN longer, NEW k \in DOMAIN longer,
                          longer[j] = longer[k]
                   PROVE  j = k
      BY DEF Distinct
    <3>2. CASE j \in 1 .. Len(room) /\ k \in 1 .. Len(room)
      BY <3>1, <3>2, <1>2, <2>3, <2>4 DEF Distinct
    <3>3. CASE ~(j \in 1 .. Len(room) /\ k \in 1 .. Len(room))
      BY <3>1, <3>3, <2>3, <2>4, <2>5
    <3> QED BY <3>2, <3>3
  <2>6. SeqRange(longer) \subseteq SeqRange(ks) \cup {c}
    <3>1. ASSUME NEW j \in DOMAIN longer
          PROVE  longer[j] \in SeqRange(room) \cup {c}
      <4>1. CASE j \in 1 .. Len(room)
        BY <4>1, <2>3, <2>4 DEF SeqRange
      <4>2. CASE j = Len(room) + 1
        BY <4>2, <2>3
      <4> QED BY <3>1, <4>1, <4>2, <2>4
    <3>2. SeqRange(longer) \subseteq SeqRange(room) \cup {c}
      BY <3>1 DEF SeqRange
    <3> QED BY <3>2, <1>2
  <2> QED BY <2>2, <2>3, <2>6, <2>7 DEF GoodReport, ReportSet
<1>4. CASE ~(c \in Keys /\ c \notin SeqRange(ks))
  BY <1>4 DEF Pressed, GoodReport, ReportSet, Codes, KbdCodes
<1> QED BY <1>3, <1>4

\* A lifted code is out of the report, and nothing has joined it.
LEMMA LiftedFacts ==
    ASSUME NEW ks, NEW bs, GoodReport(ks, bs), NEW c \in Codes
    PROVE  LET rep == Lifted(c, ks, bs)
           IN  /\ GoodReport(rep.keys, rep.bits)
               /\ ReportSet(rep) = (SeqRange(ks) \cup bs) \ {c}
BY WithoutFacts DEF Lifted, GoodReport, ReportSet

\* The reports stay well formed whatever is emitted.
LEMMA EmitType ==
    ASSUME TypeOK, Distinct(hidKeys), NEW c \in Codes, NEW val \in {0, 1}, Emit(c, val)
    PROVE  /\ hidKeys' \in Seq(Keys) /\ Distinct(hidKeys)'
           /\ hidBits' \subseteq Mods \cup Buttons
           /\ plugged' = plugged
           /\ down' \subseteq Codes
<1>1. GoodReport(hidKeys, hidBits)
  BY DEF TypeOK, GoodReport
<1> DEFINE rep == IF val = 1 THEN Pressed(c, hidKeys, hidBits) ELSE Lifted(c, hidKeys, hidBits)
<1>2. GoodReport(rep.keys, rep.bits)
  BY <1>1, PressedFacts, LiftedFacts
<1>3. ReportSet(rep) \subseteq Codes
  BY <1>2 DEF GoodReport, ReportSet, SeqRange, Codes, KbdCodes
<1> HIDE DEF rep
<1>4. CASE Hid
  <2>1. WriteReport(rep, Device(c)) /\ plugged' = plugged
    BY <1>4 DEF Emit, rep
  <2>2. hidKeys' = rep.keys /\ hidBits' = rep.bits
    BY <2>1 DEF WriteReport
  <2>3. down' \subseteq Codes
    BY <2>1, <1>3 DEF WriteReport, TypeOK
  <2> QED BY <1>2, <2>1, <2>2, <2>3 DEF GoodReport, Distinct
<1>5. CASE ~Hid
  BY <1>5, <1>1 DEF Emit, TypeOK, GoodReport, Distinct
<1> QED BY <1>4, <1>5

-----------------------------------------------------------------------------
(* The invariant of the locks and the requests. *)

\* A command's strokes are sequences of codes.
LEMMA StrokesType ==
    ASSUME NEW r \in Request, WellTyped(r), r.cmd \in GatedCommands
    PROVE  /\ StrokesOf(r) \in Seq(Seq(Codes))
           /\ r.cmd \notin ChordCommands => StrokesOf(r) = <<>>
           /\ r.cmd = "combo" => \A p \in ChordOrders(r.args) :
                 <<[i \in DOMAIN r.args |-> r.args[p[i]]]>> \in Seq(Seq(Codes))
<1>1. CASE r.cmd = "key"
  <2>1. r.args \in Seq(KbdCodes)
    BY <1>1 DEF WellTyped
  <2> DEFINE s == [i \in DOMAIN r.args |-> <<r.args[i]>>]
  <2>2. \A i \in DOMAIN r.args : r.args[i] \in Codes
    BY <2>1 DEF Codes
  <2>3. \A i \in DOMAIN r.args : <<r.args[i]>> \in Seq(Codes)
    BY <2>2
  <2>4. DOMAIN r.args = 1 .. Len(r.args) /\ Len(r.args) \in Nat
    BY <2>1
  <2>5. s \in [1 .. Len(r.args) -> Seq(Codes)]
    BY <2>3, <2>4
  <2>6. s \in Seq(Seq(Codes))
    BY <2>4, <2>5, SeqDef
  <2> QED BY <1>1, <2>6 DEF StrokesOf, ChordCommands
<1>2. CASE r.cmd = "type"
  <2>1. r.args \in Seq(Chars)
    BY <1>2 DEF WellTyped
  <2> DEFINE stroke(i) == LET ent == CharMap[r.args[i]]
                          IN  IF ent.shift THEN <<Shift, ent.code>> ELSE <<ent.code>>
             s == [i \in DOMAIN r.args |-> stroke(i)]
  <2>2. \A i \in DOMAIN r.args : CharMap[r.args[i]] \in [code : Keys, shift : BOOLEAN]
    BY <2>1, CodeAssumption
  <2>3. \A i \in DOMAIN r.args : stroke(i) \in Seq(Codes)
    <3>1. Shift \in Codes /\ \A k \in Keys : k \in Codes
      BY CodeAssumption DEF Codes, KbdCodes
    <3>2. ASSUME NEW i \in DOMAIN r.args
          PROVE  stroke(i) \in Seq(Codes)
      <4>1. CharMap[r.args[i]].code \in Codes
        BY <2>2, <3>1
      <4> QED BY <3>1, <4>1
    <3> QED BY <3>2
  <2>4. DOMAIN r.args = 1 .. Len(r.args) /\ Len(r.args) \in Nat
    BY <2>1
  <2>5. s \in [1 .. Len(r.args) -> Seq(Codes)]
    BY <2>3, <2>4
  <2>6. s \in Seq(Seq(Codes))
    BY <2>4, <2>5, SeqDef
  <2> QED BY <1>2, <2>6 DEF StrokesOf, ChordCommands
<1>3. CASE r.cmd = "combo"
  <2>1. r.args \in Seq(KbdCodes)
    BY <1>3 DEF WellTyped
  <2>2. DOMAIN r.args = 1 .. Len(r.args) /\ Len(r.args) \in Nat
    BY <2>1
  <2>3. \A i \in DOMAIN r.args : r.args[i] \in Codes
    BY <2>1 DEF Codes
  <2>4. ASSUME NEW p \in ChordOrders(r.args)
        PROVE  <<[i \in DOMAIN r.args |-> r.args[p[i]]]>> \in Seq(Seq(Codes))
    <3> DEFINE s == [i \in DOMAIN r.args |-> r.args[p[i]]]
    <3>1. p \in [DOMAIN r.args -> DOMAIN r.args]
      BY <2>4 DEF ChordOrders
    <3>2. s \in [1 .. Len(r.args) -> Codes]
      BY <3>1, <2>2, <2>3
    <3>3. s \in Seq(Codes)
      BY <3>2, <2>2, SeqDef
    <3>4. \A e \in Seq(Codes) : <<e>> \in Seq(Seq(Codes))
      OBVIOUS
    <3> QED BY <3>3, <3>4
  <2>5. StrokesOf(r) = <<>>
    BY <1>3 DEF StrokesOf
  <2> QED BY <1>3, <2>4, <2>5 DEF ChordCommands
<1>4. CASE r.cmd \in {"hold", "mouse_click"}
  <2>1. r.args \in Seq(Codes)
    BY <1>4 DEF WellTyped, Codes
  <2>2. StrokesOf(r) = <<r.args>>
    BY <1>4 DEF StrokesOf
  <2>3. r.cmd # "combo" /\ r.cmd \in ChordCommands
    BY <1>4 DEF ChordCommands
  <2> QED BY <2>1, <2>2, <2>3
<1>5. CASE r.cmd \notin ChordCommands
  BY <1>5 DEF StrokesOf, ChordCommands
<1> QED BY <1>1, <1>2, <1>3, <1>4, <1>5 DEF ChordCommands

LEMMA InitInd == Init => IndInv
<1> SUFFICES ASSUME Init PROVE IndInv
  OBVIOUS
<1> USE DEF Init
<1>1. plugged \in BOOLEAN
  BY BackendAssumption
<1>2. TypeOK
  BY <1>1 DEF TypeOK
<1>3. LockUse /\ RequestsOK /\ LockHonoured
  BY ThreadAssumption DEF LockUse, RequestsOK, LockHonoured
<1>4. KeysOnce /\ NoLeftovers
  BY DEF KeysOnce, NoLeftovers
<1> QED BY <1>2, <1>3, <1>4 DEF IndInv

\* Giving Devices.lock back leaves nothing behind.
LEMMA LeaveFacts ==
    ASSUME IndInv, NEW t \in Threads, busy = t, Leave(t), UNCHANGED <<owner, overtaken>>
    PROVE  /\ busy' \in Threads \cup {Nobody} /\ pc' \in [Threads -> {"idle", "waiting", "working"}]
           /\ req' \in [Threads -> Request \cup {NoRequest}]
           /\ strokes' \in Seq(Seq(Codes)) /\ toPress' \in Seq(Codes)
           /\ pressed' \in Seq(Codes) /\ sweep' \subseteq Codes
           /\ LockUse' /\ RequestsOK' /\ NoLeftovers' /\ LockHonoured'
<1>1. /\ busy' = Nobody /\ strokes' = <<>> /\ toPress' = <<>> /\ pressed' = <<>>
      /\ sweep' = {} /\ pc' = [pc EXCEPT ![t] = "idle"] /\ req' = [req EXCEPT ![t] = NoRequest]
  BY DEF Leave
<1>2. \A u \in Threads : u # t => pc'[u] = pc[u] /\ req'[u] = req[u]
  BY <1>1 DEF IndInv, TypeOK
<1>3. pc'[t] = "idle"
  BY <1>1 DEF IndInv, TypeOK
<1>4. LockUse'
  BY <1>1, <1>2, <1>3, ThreadAssumption DEF IndInv, LockUse
<1>5. RequestsOK' /\ LockHonoured'
  BY <1>2, <1>3 DEF IndInv, RequestsOK, LockHonoured, MayDrive
<1>6. NoLeftovers'
  BY <1>1 DEF NoLeftovers
<1> QED BY <1>1, <1>4, <1>5, <1>6 DEF IndInv, TypeOK

\* What a dispatch does to the request table.
LEMMA DispatchFacts ==
    ASSUME IndInv, NEW t \in Threads, pc[t] = "idle", NEW r \in Request, WellTyped(r),
           r.cmd \in GatedCommands, Dispatch(t, r), UNCHANGED <<owner, workVars>>
    PROVE  /\ pc' \in [Threads -> {"idle", "waiting", "working"}]
           /\ req' \in [Threads -> Request \cup {NoRequest}]
           /\ overtaken' \subseteq Threads
           /\ LockUse' /\ RequestsOK' /\ NoLeftovers' /\ LockHonoured'
<1> USE DEF workVars
<1>1. CASE ~MayDrive(t)
  BY <1>1 DEF Dispatch, IndInv, TypeOK, LockUse, RequestsOK, NoLeftovers, LockHonoured, MayDrive
<1>2. CASE MayDrive(t)
  <2>1. /\ pc' = [pc EXCEPT ![t] = "waiting"] /\ req' = [req EXCEPT ![t] = r]
        /\ overtaken' = overtaken \ {t}
    BY <1>2 DEF Dispatch
  <2>2. pc'[t] = "waiting" /\ req'[t] = r
    BY <2>1 DEF IndInv, TypeOK
  <2>3. \A u \in Threads : u # t => pc'[u] = pc[u] /\ req'[u] = req[u]
    BY <2>1 DEF IndInv, TypeOK
  <2>4. busy # t
    BY DEF IndInv, LockUse
  <2>5. LockUse'
    BY <2>2, <2>3, <2>4 DEF IndInv, LockUse
  <2>6. RequestsOK'
    BY <2>2, <2>3 DEF IndInv, RequestsOK
  <2>7. LockHonoured'
    BY <1>2, <2>1, <2>2, <2>3 DEF IndInv, LockHonoured, MayDrive
  <2>8. NoLeftovers'
    BY <2>3, <2>4 DEF IndInv, NoLeftovers, TypeOK
  <2> QED BY <2>1, <2>5, <2>6, <2>7, <2>8 DEF IndInv, TypeOK
<1> QED BY <1>1, <1>2

\* Steps of the lock, of the dispatcher and of the viewers.
LEMMA RequestStepInd ==
    ASSUME IndInv,
           \/ \E t \in Threads : AcquireLock(t) \/ ReleaseLock(t) \/ BreakLock(t)
                                  \/ SocketRequest(t)
           \/ \E v \in Viewers : ViewerStep(v)
           \/ HostUnplugs \/ HostReturns
    PROVE  IndInv'
<1> USE DEF IndInv
<1>1. ASSUME NEW t \in Threads, AcquireLock(t) \/ ReleaseLock(t) \/ BreakLock(t)
      PROVE  IndInv'
  <2>1. PICK o \in Owners \cup {NoOwner} : SetOwner(o)
    BY <1>1, ThreadAssumption DEF AcquireLock, ReleaseLock, BreakLock
  <2>2. UNCHANGED <<workVars, reportVars, held, presser, pc, req, viewerVars>>
    BY <1>1 DEF AcquireLock, ReleaseLock, BreakLock, LockStep
  <2>3. TypeOK' /\ KeysOnce' /\ LockUse' /\ RequestsOK' /\ NoLeftovers'
    BY <2>1, <2>2 DEF TypeOK, KeysOnce, LockUse, RequestsOK, NoLeftovers, SetOwner, InFlight,
                      workVars, reportVars, viewerVars
  <2>4. LockHonoured'
    BY <2>1, <2>2 DEF LockHonoured, MayDrive, SetOwner, InFlight
  <2> QED BY <2>3, <2>4
<1>2. ASSUME NEW t \in Threads, SocketRequest(t)
      PROVE  IndInv'
  <2>1. PICK r \in Asks[t] : r.cmd \in GatedCommands /\ Dispatch(t, r)
    BY <1>2 DEF SocketRequest
  <2>2. pc[t] = "idle" /\ r \in Request /\ WellTyped(r)
    BY <1>2, <2>1, RequestAssumption DEF SocketRequest
  <2>3. UNCHANGED <<owner, workVars, reportVars, held, presser, viewerVars>>
    BY <1>2 DEF SocketRequest, DispatchFrame
  <2>4. /\ pc' \in [Threads -> {"idle", "waiting", "working"}]
        /\ req' \in [Threads -> Request \cup {NoRequest}]
        /\ overtaken' \subseteq Threads
        /\ LockUse' /\ RequestsOK' /\ NoLeftovers' /\ LockHonoured'
    BY <2>1, <2>2, <2>3, DispatchFacts
  <2> QED BY <2>3, <2>4 DEF TypeOK, KeysOnce, workVars, reportVars, viewerVars
<1>3. ASSUME NEW v \in Viewers, ViewerOpens(v)
      PROVE  IndInv'
  BY <1>3 DEF ViewerOpens, TypeOK, KeysOnce, LockUse, RequestsOK, NoLeftovers, LockHonoured,
              MayDrive, workVars, reportVars
<1>4. ASSUME NEW v \in Viewers, ViewerMessage(v)
      PROVE  IndInv'
  <2>1. PICK r \in Asks[v] :
          /\ r.cmd \in {"keydown", "keyup", "type", "combo", "release_all"}
          /\ mine' = [mine EXCEPT ![v] =
                CASE r.cmd = "keydown" -> @ \cup {r.args[1]}
                  [] r.cmd = "keyup" -> @ \ {r.args[1]}
                  [] r.cmd = "release_all" -> {}
                  [] OTHER -> @]
          /\ Dispatch(v, r)
    BY <1>4 DEF ViewerMessage
  <2>2. v \in Threads /\ pc[v] = "idle" /\ r \in Request /\ WellTyped(r)
    BY <1>4, <2>1, RequestAssumption DEF ViewerMessage, Threads
  <2>3. r.cmd \in GatedCommands
    BY <2>1 DEF GatedCommands, ChordCommands, PressCommands, LiftCommands, SweepCommands
  <2>4. UNCHANGED <<owner, workVars, reportVars, held, presser, open>>
    BY <1>4 DEF ViewerMessage, DispatchFrame
  <2>5. /\ pc' \in [Threads -> {"idle", "waiting", "working"}]
        /\ req' \in [Threads -> Request \cup {NoRequest}]
        /\ overtaken' \subseteq Threads
        /\ LockUse' /\ RequestsOK' /\ NoLeftovers' /\ LockHonoured'
    BY <2>1, <2>2, <2>3, <2>4, DispatchFacts
  <2>6. mine' \in [Viewers -> SUBSET KbdCodes]
    <3>1. ASSUME r.cmd = "keydown"
          PROVE  r.args[1] \in KbdCodes
      <4>1. r.args \in Seq(KbdCodes) /\ Len(r.args) = 1
        BY <2>2, <3>1 DEF WellTyped, PressCommands
      <4> QED BY <4>1
    <3> QED BY <2>1, <3>1 DEF TypeOK
  <2> QED BY <2>4, <2>5, <2>6 DEF TypeOK, KeysOnce, workVars, reportVars
<1>5. ASSUME NEW v \in Viewers, ViewerCloses(v)
      PROVE  IndInv'
  <2> DEFINE r == [cmd |-> "release_all", args |-> <<>>]
  <2>1. v \in Threads /\ pc[v] = "idle"
    BY <1>5 DEF ViewerCloses, Threads
  <2>2. r \in Request /\ WellTyped(r) /\ r.cmd \in GatedCommands
    BY DEF Request, WellTyped, GatedCommands, SweepCommands, PressCommands, LiftCommands
  <2>3. /\ UNCHANGED <<owner, workVars, reportVars, held, presser, mine>>
        /\ open' \subseteq Viewers
    BY <1>5 DEF ViewerCloses, DispatchFrame, TypeOK
  <2>4. CASE mine[v] # {}
    <3> HIDE DEF r
    <3>1. Dispatch(v, r)
      BY <1>5, <2>4 DEF ViewerCloses, r
    <3>2. /\ pc' \in [Threads -> {"idle", "waiting", "working"}]
          /\ req' \in [Threads -> Request \cup {NoRequest}]
          /\ overtaken' \subseteq Threads
          /\ LockUse' /\ RequestsOK' /\ NoLeftovers' /\ LockHonoured'
      BY <2>1, <2>2, <2>3, <3>1, DispatchFacts
    <3> QED BY <2>3, <3>2 DEF TypeOK, KeysOnce, workVars, reportVars
  <2>5. CASE mine[v] = {}
    <3>1. UNCHANGED <<pc, req, overtaken>>
      BY <1>5, <2>5 DEF ViewerCloses
    <3> QED BY <2>3, <3>1 DEF TypeOK, KeysOnce, LockUse, RequestsOK, NoLeftovers, LockHonoured,
                              MayDrive, workVars, reportVars
  <2> QED BY <2>4, <2>5
<1>6. ASSUME HostUnplugs \/ HostReturns
      PROVE  IndInv'
  BY <1>6 DEF HostUnplugs, HostReturns, TypeOK, KeysOnce, LockUse, RequestsOK, NoLeftovers,
              LockHonoured, MayDrive, lockVars, workVars, viewerVars
<1> QED BY <1>1, <1>2, <1>3, <1>4, <1>5, <1>6 DEF ViewerStep

\* Facts about the thread that is at work.
LEMMA WorkingFacts ==
    ASSUME IndInv, NEW t \in Threads, NEW cmds, Working(t, cmds)
    PROVE  /\ busy = t /\ pc[t] = "working" /\ req[t].cmd \in cmds
           /\ req[t] \in Request /\ WellTyped(req[t]) /\ req[t].cmd \in GatedCommands
           /\ cmds \subseteq PressCommands \cup LiftCommands =>
                 req[t].args[1] \in Codes /\ Remap[req[t].args[1]] \in Codes
<1>1. /\ busy = t /\ pc[t] = "working" /\ req[t].cmd \in cmds
      /\ req[t] \in Request /\ WellTyped(req[t]) /\ req[t].cmd \in GatedCommands
  BY DEF Working, IndInv, RequestsOK
<1>2. ASSUME cmds \subseteq PressCommands \cup LiftCommands
      PROVE  req[t].args[1] \in Codes
  <2>1. Len(req[t].args) = 1 /\ req[t].cmd # "type"
    BY <1>1, <1>2 DEF WellTyped, PressCommands, LiftCommands
  <2>2. req[t].args \in Seq(KbdCodes) \/ req[t].args \in Seq(Buttons)
    BY <1>1, <2>1 DEF WellTyped
  <2> QED BY <2>1, <2>2 DEF Codes
<1> QED BY <1>1, <1>2, CodeAssumption

\* A step that leaves the bookkeeping of threads alone.
LEMMA SameThreads ==
    ASSUME IndInv, NEW t \in Threads, UNCHANGED <<owner, overtaken, busy, pc, req>>
    PROVE  LockUse' /\ RequestsOK' /\ LockHonoured'
BY DEF IndInv, LockUse, RequestsOK, LockHonoured, MayDrive

LEMMA OperateInd ==
    ASSUME IndInv, NEW t \in Threads, Operate(t)
    PROVE  IndInv'
<1> USE DEF OperationFrame, lockVars, viewerVars, reportVars
<1>0. /\ Distinct(hidKeys) /\ KeysOnce
      /\ \A c \in Codes : Remap[c] \in Codes
  BY CodeAssumption DEF IndInv, KeysOnce, Distinct
<1>1. CASE TakeDevices(t)
  <2> USE <1>1 DEF TakeDevices
  <2>1. /\ pc[t] = "waiting" /\ busy = Nobody
        /\ req[t] \in Request /\ WellTyped(req[t]) /\ req[t].cmd \in GatedCommands
    BY DEF IndInv, RequestsOK
  <2>2. strokes' \in Seq(Seq(Codes)) /\ (req[t].cmd \notin ChordCommands => strokes' = <<>>)
    BY <2>1, StrokesType DEF ChordCommands
  <2>3. toPress = <<>> /\ pressed = <<>> /\ strokes = <<>>
    BY <2>1 DEF IndInv, NoLeftovers
  <2>4. sweep' \subseteq Codes /\ (req[t].cmd \notin SweepCommands => sweep' = {})
    BY DEF IndInv, TypeOK
  <2>5. TypeOK' /\ KeysOnce'
    BY <2>2, <2>4 DEF IndInv, TypeOK, KeysOnce
  <2>6. pc'[t] = "working" /\ \A u \in Threads : u # t => pc'[u] = pc[u]
    BY DEF IndInv, TypeOK
  <2>7. LockUse' /\ RequestsOK' /\ LockHonoured'
    BY <2>1, <2>6, ThreadAssumption DEF IndInv, LockUse, RequestsOK, LockHonoured, MayDrive
  <2>8. NoLeftovers'
    <3>1. busy' = t /\ req' = req /\ toPress' = <<>> /\ pressed' = <<>> /\ busy' # Nobody
      BY <2>3, ThreadAssumption
    <3> HIDE <1>1 DEF TakeDevices
    <3> QED BY <2>2, <2>4, <3>1 DEF NoLeftovers
  <2> QED BY <2>5, <2>7, <2>8 DEF IndInv
<1>2. CASE KeyDown(t)
  <2> USE <1>2 DEF KeyDown
  <2>1. req[t].args[1] \in Codes /\ Remap[req[t].args[1]] \in Codes /\ busy = t
    BY WorkingFacts
  <2>2. /\ hidKeys' \in Seq(Keys) /\ Distinct(hidKeys)'
        /\ hidBits' \subseteq Mods \cup Buttons /\ plugged' = plugged /\ down' \subseteq Codes
    BY <1>0, <2>1, EmitType DEF IndInv
  <2>3. held' \subseteq Codes /\ presser' \in [Codes -> Threads \cup {Nobody}]
    BY <2>1 DEF IndInv, TypeOK
  <2> QED BY <2>1, <2>2, <2>3, LeaveFacts DEF IndInv, TypeOK, KeysOnce, Distinct
<1>3. CASE KeyUp(t)
  <2> USE <1>3 DEF KeyUp
  <2>1. req[t].args[1] \in Codes /\ Remap[req[t].args[1]] \in Codes /\ busy = t
    BY WorkingFacts
  <2>2. /\ hidKeys' \in Seq(Keys) /\ Distinct(hidKeys)'
        /\ hidBits' \subseteq Mods \cup Buttons /\ plugged' = plugged /\ down' \subseteq Codes
    BY <1>0, <2>1, EmitType DEF IndInv
  <2>3. held' \subseteq Codes
    BY DEF IndInv, TypeOK
  <2> QED BY <2>1, <2>2, <2>3, LeaveFacts DEF IndInv, TypeOK, KeysOnce, Distinct
<1>4. CASE NextStroke(t)
  <2> USE <1>4 DEF NextStroke
  <2>1. toPress' \in Seq(Codes) /\ strokes' \in Seq(Seq(Codes))
    BY DEF IndInv, TypeOK
  <2>2. TypeOK' /\ KeysOnce'
    BY <2>1 DEF IndInv, TypeOK, KeysOnce
  <2>3. NoLeftovers'
    BY ThreadAssumption DEF IndInv, NoLeftovers, Working
  <2> QED BY <2>2, <2>3, SameThreads DEF IndInv
<1>5. CASE PressNext(t)
  <2> USE <1>5 DEF PressNext
  <2>1. Head(toPress) \in Codes /\ Remap[Head(toPress)] \in Codes /\ busy = t
    BY <1>0 DEF IndInv, TypeOK, Working
  <2>2. /\ hidKeys' \in Seq(Keys) /\ Distinct(hidKeys)'
        /\ hidBits' \subseteq Mods \cup Buttons /\ plugged' = plugged /\ down' \subseteq Codes
    BY <1>0, <2>1, EmitType DEF IndInv
  <2>3. CASE WriteFails
    BY <2>1, <2>2, <2>3, LeaveFacts DEF IndInv, TypeOK, KeysOnce, Distinct
  <2>4. CASE ~WriteFails
    <3>1. pressed' \in Seq(Codes) /\ toPress' \in Seq(Codes)
      <4>1. pressed \in Seq(Codes) /\ toPress \in Seq(Codes) /\ toPress # <<>>
        BY DEF IndInv, TypeOK
      <4>2. <<Head(toPress)>> \in Seq(Codes)
        BY <2>1
      <4>3. pressed' = <<Head(toPress)>> \o pressed /\ toPress' = Tail(toPress)
        BY <2>4
      <4> HIDE <1>5 DEF PressNext
      <4> QED BY <4>1, <4>2, <4>3, ConcatProperties, HeadTailProperties
    <3>2. NoLeftovers'
      BY <2>4, ThreadAssumption DEF IndInv, NoLeftovers, Working
    <3>3. TypeOK' /\ KeysOnce'
      BY <2>2, <2>4, <3>1 DEF IndInv, TypeOK, KeysOnce, Distinct
    <3> QED BY <2>4, <3>2, <3>3, SameThreads DEF IndInv
  <2> QED BY <2>3, <2>4
<1>6. CASE ReleaseNext(t)
  <2> USE <1>6 DEF ReleaseNext
  <2>1. Head(pressed) \in Codes /\ Remap[Head(pressed)] \in Codes /\ busy = t
    BY <1>0 DEF IndInv, TypeOK, Working
  <2>2. /\ hidKeys' \in Seq(Keys) /\ Distinct(hidKeys)'
        /\ hidBits' \subseteq Mods \cup Buttons /\ plugged' = plugged /\ down' \subseteq Codes
    BY <1>0, <2>1, EmitType DEF IndInv
  <2>3. CASE WriteFails
    BY <2>1, <2>2, <2>3, LeaveFacts DEF IndInv, TypeOK, KeysOnce, Distinct
  <2>4. CASE ~WriteFails
    <3>1. pressed' \in Seq(Codes)
      <4>1. pressed \in Seq(Codes) /\ pressed # <<>> /\ pressed' = Tail(pressed)
        BY <2>4 DEF IndInv, TypeOK
      <4> HIDE <1>6 DEF ReleaseNext
      <4> QED BY <4>1, HeadTailProperties
    <3>2. NoLeftovers'
      BY <2>4, ThreadAssumption DEF IndInv, NoLeftovers, Working
    <3>3. TypeOK' /\ KeysOnce'
      BY <2>2, <2>4, <3>1 DEF IndInv, TypeOK, KeysOnce, Distinct
    <3> QED BY <2>4, <3>2, <3>3, SameThreads DEF IndInv
  <2> QED BY <2>3, <2>4
<1>7. CASE ChordDone(t)
  BY <1>7, LeaveFacts DEF ChordDone, Working, IndInv, TypeOK, KeysOnce
<1>8. CASE SweepNext(t)
  <2>1. PICK c \in sweep :
          /\ Emit(Remap[c], 0)
          /\ IF WriteFails THEN Leave(t)
             ELSE /\ sweep' = sweep \ {c}
                  /\ UNCHANGED <<busy, strokes, toPress, pressed, pc, req>>
    BY <1>8 DEF SweepNext
  <2>2. Remap[c] \in Codes /\ busy = t /\ UNCHANGED <<owner, overtaken, open, mine, held, presser>>
    BY <1>0, <1>8 DEF SweepNext, IndInv, TypeOK, Working
  <2>3. /\ hidKeys' \in Seq(Keys) /\ Distinct(hidKeys)'
        /\ hidBits' \subseteq Mods \cup Buttons /\ plugged' = plugged /\ down' \subseteq Codes
    BY <1>0, <2>1, <2>2, EmitType DEF IndInv
  <2>4. CASE WriteFails
    BY <2>1, <2>2, <2>3, <2>4, LeaveFacts DEF IndInv, TypeOK, KeysOnce, Distinct
  <2>5. CASE ~WriteFails
    <3>1. NoLeftovers'
      BY <1>8, <2>1, <2>5, ThreadAssumption DEF SweepNext, IndInv, NoLeftovers, Working
    <3>2. TypeOK' /\ KeysOnce'
      BY <2>1, <2>2, <2>3, <2>5 DEF IndInv, TypeOK, KeysOnce, Distinct
    <3> QED BY <2>1, <2>2, <2>5, <3>1, <3>2, SameThreads DEF IndInv
  <2> QED BY <2>4, <2>5
<1>9. CASE SweepDone(t)
  BY <1>9, LeaveFacts DEF SweepDone, Working, IndInv, TypeOK, KeysOnce
<1>10. CASE MouseMove(t)
  <2>1. down' \subseteq Codes /\ hidKeys' = hidKeys /\ hidBits' = hidBits /\ plugged' = plugged
    BY <1>10 DEF MouseMove, WriteReport, ReportSet, IndInv, TypeOK, Codes
  <2> QED BY <1>10, <2>1, LeaveFacts DEF MouseMove, Working, IndInv, TypeOK, KeysOnce
<1> QED BY <1>1, <1>2, <1>3, <1>4, <1>5, <1>6, <1>7, <1>8, <1>9, <1>10 DEF Operate

LEMMA StepInd == IndInv /\ [Next]_vars => IndInv'
<1> SUFFICES ASSUME IndInv, [Next]_vars PROVE IndInv'
  OBVIOUS
<1>1. CASE Next
  BY <1>1, RequestStepInd, OperateInd DEF Next, ThreadStep
<1>2. CASE UNCHANGED vars
  BY <1>2 DEF vars, IndInv, TypeOK, KeysOnce, LockUse, RequestsOK, NoLeftovers, LockHonoured,
              MayDrive
<1> QED BY <1>1, <1>2

THEOREM IndInvariant == Spec => []IndInv
BY InitInd, StepInd, PTL DEF Spec

\* Every variable keeps its type.
THEOREM TypeCorrect == Spec => []TypeOK
<1>1. IndInv => TypeOK
  BY DEF IndInv
<1> QED BY <1>1, IndInvariant, PTL

\* Under a lock, whatever the number of clients, only its owner and the requests
\* already past the check when it changed hands are on their way to the target
\* (Registry.dispatch asks the arbiter before it runs the command).
THEOREM LockIsHonoured == Spec => []LockHonoured
<1>1. IndInv => LockHonoured
  BY DEF IndInv
<1> QED BY <1>1, IndInvariant, PTL

-----------------------------------------------------------------------------
(* What is down at the target, when its host does not come and go. *)

HostStays == ~(Hid /\ Unplugs)

\* A press adds its code to what is down and a lift takes its code away; the
\* report of the other device stands.
LEMMA EmitDown ==
    ASSUME IndInv, ReportOK, HostStays, NEW c \in Codes, NEW val \in {0, 1}, Emit(c, val)
    PROVE  /\ ReportOK' /\ ~WriteFails
           /\ val = 1 => down' \subseteq down \cup {c}
           /\ val = 0 => down' = down \ {c}
<1> USE DEF HostStays
<1>1. plugged /\ plugged' /\ ~WriteFails
  BY DEF ReportOK, Emit, WriteFails
<1>2. CASE ~Hid
  BY <1>1, <1>2 DEF Emit, ReportOK
<1>3. CASE Hid
  <2> DEFINE rep == IF val = 1 THEN Pressed(c, hidKeys, hidBits)
                               ELSE Lifted(c, hidKeys, hidBits)
  <2>1. GoodReport(hidKeys, hidBits) /\ down = SeqRange(hidKeys) \cup hidBits
    BY <1>3 DEF IndInv, TypeOK, KeysOnce, GoodReport, Distinct, ReportOK
  <2>2. WriteReport(rep, Device(c))
    BY <1>3 DEF Emit
  <2>3. /\ GoodReport(rep.keys, rep.bits)
        /\ val = 1 => ReportSet(rep) \subseteq down \cup {c}
        /\ val = 0 => ReportSet(rep) = down \ {c}
    BY <2>1, PressedFacts, LiftedFacts
  <2>4. ReportSet(rep) \ Device(c) = down \ Device(c)
    <3>1. CASE val = 0
      BY <2>3, <3>1 DEF Device, Codes
    <3>2. CASE val = 1
      <4>1. \A k \in SeqRange(hidKeys) \cup SeqRange(rep.keys) : k \in Keys
        BY <2>1, <2>3 DEF GoodReport, SeqRange
      <4>2. CASE c \in Keys
        <5>1. rep.bits = hidBits
          BY <3>2, <4>2 DEF Pressed
        <5>2. Keys \subseteq Device(c)
          BY <4>2, CodeAssumption DEF Device, KbdCodes
        <5> QED BY <2>1, <4>1, <5>1, <5>2 DEF ReportSet
      <4>3. CASE c \notin Keys
        <5>1. rep.bits = hidBits \cup {c} /\ rep.keys = hidKeys
          BY <3>2, <4>3 DEF Pressed
        <5>2. c \in Device(c)
          BY DEF Device, Codes
        <5> QED BY <2>1, <5>1, <5>2 DEF ReportSet
      <4> QED BY <4>2, <4>3
    <3> QED BY <3>1, <3>2
  <2> HIDE DEF rep
  <2>5. down' = ReportSet(rep) /\ hidKeys' = rep.keys /\ hidBits' = rep.bits
    BY <1>1, <2>2, <2>4 DEF WriteReport
  <2> QED BY <1>1, <2>3, <2>5 DEF ReportOK, ReportSet
<1> QED BY <1>2, <1>3

Sent(S) == {Remap[c] : c \in S}

LEMMA InitReport == HostStays /\ Init => ReportInv
<1> SUFFICES ASSUME HostStays, Init PROVE ReportInv
  OBVIOUS
<1>1. plugged
  BY DEF HostStays, Init
<1>2. hidKeys = <<>> /\ hidBits = {} /\ down = {} /\ busy = Nobody
  BY DEF Init
<1>3. SeqRange(hidKeys) = {}
  BY <1>2 DEF SeqRange
<1> QED BY <1>1, <1>2, <1>3 DEF ReportInv, ReportOK, SweepProgress, ExplainedDown

\* An operation that ends has nothing in its hands: what is down is held.
LEMMA LeaveReport ==
    ASSUME NEW t, Leave(t), ReportOK', down' \subseteq Sent(held')
    PROVE  ReportInv'
BY DEF Leave, ReportInv, SweepProgress, ExplainedDown, Sent, SeqRange

\* Steps that move no key.
LEMMA QuietReport ==
    ASSUME ReportInv, UNCHANGED <<down, hidKeys, hidBits, plugged, held, pressed, sweep, busy>>,
           busy # Nobody => req'[busy] = req[busy]
    PROVE  ReportInv'
BY DEF ReportInv, ReportOK, SweepProgress, ExplainedDown

LEMMA RequestStepReport ==
    ASSUME IndInv, ReportInv, HostStays,
           \/ \E t \in Threads : AcquireLock(t) \/ ReleaseLock(t) \/ BreakLock(t)
                                  \/ SocketRequest(t)
           \/ \E v \in Viewers : ViewerStep(v)
           \/ HostUnplugs \/ HostReturns
    PROVE  ReportInv'
<1> USE DEF workVars, reportVars, lockVars
<1>1. ASSUME NEW t \in Threads, NEW r, pc[t] = "idle", Dispatch(t, r), UNCHANGED busy
      PROVE  busy # Nobody => req'[busy] = req[busy]
  <2>1. ASSUME busy # Nobody PROVE busy \in Threads /\ busy # t
    BY <1>1, <2>1 DEF IndInv, TypeOK, LockUse
  <2> QED BY <1>1, <2>1 DEF Dispatch, IndInv, TypeOK
<1>2. ASSUME NEW t \in Threads, AcquireLock(t) \/ ReleaseLock(t) \/ BreakLock(t)
      PROVE  ReportInv'
  BY <1>2, QuietReport DEF AcquireLock, ReleaseLock, BreakLock, LockStep
<1>3. ASSUME NEW t \in Threads, SocketRequest(t)
      PROVE  ReportInv'
  BY <1>1, <1>3, QuietReport DEF SocketRequest, DispatchFrame
<1>4. ASSUME NEW v \in Viewers, ViewerOpens(v)
      PROVE  ReportInv'
  BY <1>4, QuietReport DEF ViewerOpens
<1>5. ASSUME NEW v \in Viewers, ViewerMessage(v)
      PROVE  ReportInv'
  BY <1>1, <1>5, QuietReport DEF ViewerMessage, DispatchFrame, Threads
<1>6. ASSUME NEW v \in Viewers, ViewerCloses(v)
      PROVE  ReportInv'
  BY <1>1, <1>6, QuietReport DEF ViewerCloses, DispatchFrame, Threads
<1>7. ~HostUnplugs /\ ~HostReturns
  BY DEF HostUnplugs, HostReturns, HostStays, ReportInv, ReportOK
<1> QED BY <1>2, <1>3, <1>4, <1>5, <1>6, <1>7 DEF ViewerStep

LEMMA OperateReport ==
    ASSUME IndInv, IndInv', ReportInv, HostStays, NEW t \in Threads, Operate(t)
    PROVE  ReportInv'
<1> USE DEF OperationFrame, lockVars, viewerVars, reportVars
<1>0. ReportOK /\ \A c \in Codes : Remap[c] \in Codes
  BY CodeAssumption DEF ReportInv
<1>1. CASE TakeDevices(t)
  <2>1. /\ busy = Nobody /\ busy' = t /\ UNCHANGED <<down, hidKeys, hidBits, plugged, held, req>>
        /\ pressed = <<>> /\ pressed' = <<>>
    BY <1>1 DEF TakeDevices, IndInv, NoLeftovers
  <2>2. ReportOK' /\ ExplainedDown'
    BY <2>1 DEF ReportInv, ReportOK, ExplainedDown
  <2>3. down \subseteq Sent(held)
    BY <2>1 DEF ReportInv, ExplainedDown, SeqRange, Sent
  <2>4. ASSUME req[t].cmd \in SweepCommands
        PROVE  (held \ SweepClass(req[t].cmd)) \cup sweep' = held
    BY <1>1, <2>4 DEF TakeDevices
  <2>5. SweepProgress'
    BY <2>1, <2>3, <2>4 DEF SweepProgress, Sent
  <2> QED BY <2>2, <2>5 DEF ReportInv
<1>2. CASE KeyDown(t)
  <2> DEFINE c == req[t].args[1]
  <2>1. c \in Codes /\ Remap[c] \in Codes /\ Emit(Remap[c], 1) /\ Leave(t)
    BY <1>2, WorkingFacts DEF KeyDown
  <2>2. ReportOK' /\ ~WriteFails /\ down' \subseteq down \cup {Remap[c]}
    BY <1>0, <2>1, EmitDown
  <2>3. held' = held \cup {c}
    BY <1>2, <2>2 DEF KeyDown
  <2>4. pressed = <<>>
    BY <1>2 DEF KeyDown, Working, IndInv, NoLeftovers, PressCommands, ChordCommands
  <2>5. down \subseteq Sent(held)
    BY <2>4 DEF ReportInv, ExplainedDown, SeqRange, Sent
  <2> HIDE DEF c
  <2>6. down' \subseteq Sent(held')
    BY <2>2, <2>3, <2>5 DEF Sent
  <2> QED BY <2>1, <2>2, <2>6, LeaveReport
<1>3. CASE KeyUp(t)
  <2> DEFINE c == req[t].args[1]
  <2>1. c \in Codes /\ Remap[c] \in Codes /\ Emit(Remap[c], 0) /\ Leave(t)
    BY <1>3, WorkingFacts DEF KeyUp
  <2>2. ReportOK' /\ ~WriteFails /\ down' = down \ {Remap[c]}
    BY <1>0, <2>1, EmitDown
  <2>3. held' = held \ {c}
    BY <1>3, <2>2 DEF KeyUp
  <2>4. pressed = <<>>
    BY <1>3 DEF KeyUp, Working, IndInv, NoLeftovers, LiftCommands, ChordCommands
  <2>5. down \subseteq Sent(held)
    BY <2>4 DEF ReportInv, ExplainedDown, SeqRange, Sent
  <2> HIDE DEF c
  <2>6. down' \subseteq Sent(held')
    BY <2>2, <2>3, <2>5 DEF Sent
  <2> QED BY <2>1, <2>2, <2>6, LeaveReport
<1>4. CASE NextStroke(t)
  BY <1>4, QuietReport DEF NextStroke
<1>5. CASE PressNext(t)
  <2>1. Head(toPress) \in Codes /\ Remap[Head(toPress)] \in Codes
    BY <1>0, <1>5 DEF PressNext, IndInv, TypeOK
  <2>2. /\ ReportOK' /\ ~WriteFails /\ down' \subseteq down \cup {Remap[Head(toPress)]}
    BY <1>0, <1>5, <2>1, EmitDown DEF PressNext
  <2>3. /\ pressed' = <<Head(toPress)>> \o pressed
        /\ UNCHANGED <<busy, req, held, sweep>>
    BY <1>5, <2>2 DEF PressNext
  <2>4. SeqRange(pressed') = SeqRange(pressed) \cup {Head(toPress)}
    <3>1. pressed \in Seq(Codes) /\ <<Head(toPress)>> \in Seq(Codes)
      BY <2>1 DEF IndInv, TypeOK
    <3> QED BY <3>1, <2>3, RangeConcat
  <2>5. ExplainedDown'
    BY <2>2, <2>3, <2>4 DEF ReportInv, ExplainedDown
  <2>6. SweepProgress'
    BY <1>5, <2>3 DEF PressNext, Working, SweepProgress, SweepCommands, ChordCommands
  <2> QED BY <2>2, <2>5, <2>6 DEF ReportInv
<1>6. CASE ReleaseNext(t)
  <2>1. Head(pressed) \in Codes /\ Remap[Head(pressed)] \in Codes
    BY <1>0, <1>6 DEF ReleaseNext, IndInv, TypeOK
  <2>2. ReportOK' /\ ~WriteFails /\ down' = down \ {Remap[Head(pressed)]}
    BY <1>0, <1>6, <2>1, EmitDown DEF ReleaseNext
  <2>3. pressed' = Tail(pressed) /\ UNCHANGED <<busy, req, held, sweep>>
    BY <1>6, <2>2 DEF ReleaseNext
  <2>4. SeqRange(pressed) \subseteq SeqRange(pressed') \cup {Head(pressed)}
    BY <1>6, <2>3, RangeTail DEF ReleaseNext, IndInv, TypeOK
  <2>5. ExplainedDown'
    BY <2>2, <2>3, <2>4 DEF ReportInv, ExplainedDown
  <2>6. SweepProgress'
    BY <1>6, <2>3 DEF ReleaseNext, Working, SweepProgress, SweepCommands, ChordCommands
  <2> QED BY <2>2, <2>5, <2>6 DEF ReportInv
<1>7. CASE ChordDone(t)
  <2>1. down \subseteq Sent(held)
    BY <1>7 DEF ChordDone, ReportInv, ExplainedDown, SeqRange, Sent
  <2> QED BY <1>0, <1>7, <2>1, LeaveReport DEF ChordDone, ReportOK
<1>8. CASE SweepNext(t)
  <2>1. PICK c \in sweep : Emit(Remap[c], 0) /\ (~WriteFails =>
            sweep' = sweep \ {c} /\ UNCHANGED <<busy, pressed, req>>)
    BY <1>8 DEF SweepNext
  <2>2. Remap[c] \in Codes
    BY <1>0, <2>1 DEF IndInv, TypeOK
  <2>3. ReportOK' /\ ~WriteFails /\ down' = down \ {Remap[c]}
    BY <1>0, <2>1, <2>2, EmitDown
  <2>4. UNCHANGED <<busy, pressed, req, held>> /\ sweep' = sweep \ {c}
    BY <1>8, <2>1, <2>3 DEF SweepNext
  <2>5. ExplainedDown'
    BY <2>3, <2>4 DEF ReportInv, ExplainedDown
  <2>6. SweepProgress'
    BY <2>3, <2>4 DEF ReportInv, SweepProgress
  <2> QED BY <2>3, <2>5, <2>6 DEF ReportInv
<1>9. CASE SweepDone(t)
  <2>1. down \subseteq Sent(held \ SweepClass(req[t].cmd))
    <3>1. busy = t /\ busy # Nobody /\ req[t].cmd \in SweepCommands /\ sweep = {}
      BY <1>9, ThreadAssumption DEF SweepDone, Working
    <3> QED BY <3>1 DEF ReportInv, SweepProgress, Sent
  <2> QED BY <1>0, <1>9, <2>1, LeaveReport DEF SweepDone, ReportOK
<1>10. CASE MouseMove(t)
  <2>1. pressed = <<>>
    BY <1>10 DEF MouseMove, Working, IndInv, NoLeftovers, MoveCommands, ChordCommands
  <2>2. down \subseteq Sent(held)
    BY <2>1 DEF ReportInv, ExplainedDown, SeqRange, Sent
  <2>3. down' = down /\ UNCHANGED <<hidKeys, hidBits, plugged, held>>
    BY <1>0, <1>10 DEF MouseMove, WriteReport, ReportSet, ReportOK, HostStays
  <2> QED BY <1>0, <1>10, <2>2, <2>3, LeaveReport DEF MouseMove, ReportOK
<1> QED BY <1>1, <1>2, <1>3, <1>4, <1>5, <1>6, <1>7, <1>8, <1>9, <1>10 DEF Operate

LEMMA StepReport == HostStays /\ IndInv /\ IndInv' /\ ReportInv /\ [Next]_vars => ReportInv'
<1> SUFFICES ASSUME HostStays, IndInv, IndInv', ReportInv, [Next]_vars PROVE ReportInv'
  OBVIOUS
<1>1. CASE Next
  BY <1>1, RequestStepReport, OperateReport DEF Next, ThreadStep
<1>2. CASE UNCHANGED vars
  BY <1>2, QuietReport DEF vars
<1> QED BY <1>1, <1>2

\* With a host that stays, on either backend and with any key remapping, all that
\* is down at the target is on record as held or is about to be released by the
\* operation in progress: release_all can always let go of it.
THEOREM DownIsExplained ==
    ASSUME HostStays
    PROVE  Spec => []ExplainedDown
<1>1. Init => ReportInv
  BY InitReport
<1>2. IndInv /\ IndInv' /\ ReportInv /\ [Next]_vars => ReportInv'
  BY StepReport
<1>3. ReportInv => ExplainedDown
  BY DEF ReportInv
<1> QED BY <1>1, <1>2, <1>3, IndInvariant, PTL DEF Spec

-----------------------------------------------------------------------------
(* Refinement of KeySessions. *)

LEMMA SessionStep ==
    ASSUME HostStays, IndInv, IndInv', ReportInv, ReportInv', [Next]_vars
    PROVE  [Sessions!Next]_(Sessions!vars)
<1> USE DEF OperationFrame, lockVars, viewerVars, reportVars, workVars, Sessions!vars
<1>1. ASSUME NEW t \in Threads, busy = t, Leave(t),
             \/ held' = held
             \/ \E c \in Codes : held' \in {held \cup {c}, held \ {c}}
             \/ held' \in {held \ KbdCodes, held \ Buttons}
      PROVE  Sessions!Next
  <2>1. pressed' = <<>> /\ busy' = Nobody
    BY <1>1 DEF Leave
  <2>2. down' \subseteq {Remap[c] : c \in held'}
    BY <2>1 DEF ReportInv, ExplainedDown, SeqRange
  <2> QED BY <1>1, <2>1, <2>2 DEF Sessions!Next, Sessions!End, Sessions!Codes, Codes
<1>2. ASSUME NEW t \in Threads, busy = t, UNCHANGED <<busy, held>>
      PROVE  Sessions!Next
  <2>1. down' \subseteq Sessions!Codes
    BY DEF IndInv, TypeOK, Sessions!Codes, Codes
  <2> QED BY <1>2, <2>1 DEF Sessions!Next, Sessions!Drive
<1>3. ASSUME NEW t \in Threads, Operate(t)
      PROVE  Sessions!Next
  <2>1. CASE TakeDevices(t)
    BY <2>1 DEF TakeDevices, Sessions!Next, Sessions!Begin
  <2>2. CASE KeyDown(t)
    <3>1. busy = t /\ req[t].args[1] \in Codes
      BY <2>2, WorkingFacts DEF KeyDown
    <3>2. held' \in {held \cup {req[t].args[1]}, held}
      BY <2>2 DEF KeyDown
    <3>3. Leave(t)
      BY <2>2 DEF KeyDown
    <3> QED BY <1>1, <3>1, <3>2, <3>3
  <2>3. CASE KeyUp(t)
    <3>1. busy = t /\ req[t].args[1] \in Codes
      BY <2>3, WorkingFacts DEF KeyUp
    <3>2. held' \in {held \ {req[t].args[1]}, held}
      BY <2>3 DEF KeyUp
    <3>3. Leave(t)
      BY <2>3 DEF KeyUp
    <3> QED BY <1>1, <3>1, <3>2, <3>3
  <2>4. CASE NextStroke(t)
    BY <1>2, <2>4 DEF NextStroke, Working
  <2>5. CASE PressNext(t)
    BY <1>1, <1>2, <2>5 DEF PressNext, Working
  <2>6. CASE ReleaseNext(t)
    BY <1>1, <1>2, <2>6 DEF ReleaseNext, Working
  <2>7. CASE ChordDone(t)
    BY <1>1, <2>7 DEF ChordDone, Working
  <2>8. CASE SweepNext(t)
    BY <1>1, <1>2, <2>8 DEF SweepNext, Working
  <2>9. CASE SweepDone(t)
    BY <1>1, <2>9 DEF SweepDone, Working, SweepClass
  <2>10. CASE MouseMove(t)
    BY <1>1, <2>10 DEF MouseMove, Working
  <2> QED BY <1>3, <2>1, <2>2, <2>3, <2>4, <2>5, <2>6, <2>7, <2>8, <2>9, <2>10 DEF Operate
<1>4. ASSUME NEW t \in Threads,
             AcquireLock(t) \/ ReleaseLock(t) \/ BreakLock(t) \/ SocketRequest(t)
      PROVE  UNCHANGED <<busy, held, down>>
  BY <1>4 DEF AcquireLock, ReleaseLock, BreakLock, LockStep, SocketRequest, DispatchFrame
<1>5. ASSUME NEW v \in Viewers, ViewerStep(v)
      PROVE  UNCHANGED <<busy, held, down>>
  BY <1>5 DEF ViewerStep, ViewerOpens, ViewerMessage, ViewerCloses, DispatchFrame
<1>6. ~HostUnplugs /\ ~HostReturns
  BY DEF HostUnplugs, HostReturns, HostStays, ReportInv, ReportOK
<1>7. UNCHANGED vars => UNCHANGED <<busy, held, down>>
  BY DEF vars
<1> QED BY <1>3, <1>4, <1>5, <1>6, <1>7 DEF Next, ThreadStep

\* With a host that stays, the component keeps the promise of KeySessions.
THEOREM ImplementsKeySessions ==
    ASSUME HostStays
    PROVE  Spec => ImplementsSessions
<1>1. Init => Sessions!Init
  BY DEF Init, Sessions!Init
<1>2. Init => ReportInv
  BY InitReport
<1>3. IndInv /\ IndInv' /\ ReportInv /\ [Next]_vars => ReportInv'
  BY StepReport
<1>4. IndInv /\ IndInv' /\ ReportInv /\ ReportInv' /\ [Next]_vars
        => [Sessions!Next]_(Sessions!vars)
  BY SessionStep
<1> QED BY <1>1, <1>2, <1>3, <1>4, IndInvariant, PTL DEF Spec, Sessions!Spec, ImplementsSessions

-----------------------------------------------------------------------------
(* Sweeps, whatever the host does. *)

\* A lift that is written leaves its code gone, and whatever else was gone.
LEMMA EmitLift ==
    ASSUME IndInv, NEW c \in Codes, Emit(c, 0), ~WriteFails
    PROVE  Gone(c)' /\ \A d : Gone(d) => Gone(d)'
<1>1. CASE ~Hid
  BY <1>1 DEF Emit, Gone
<1>2. CASE Hid
  <2> DEFINE rep == Lifted(c, hidKeys, hidBits)
  <2>1. GoodReport(hidKeys, hidBits)
    BY DEF IndInv, TypeOK, KeysOnce, GoodReport, Distinct
  <2>2. ReportSet(rep) = (SeqRange(hidKeys) \cup hidBits) \ {c}
    BY <2>1, LiftedFacts
  <2>3. WriteReport(rep, Device(c)) /\ plugged
    BY <1>2 DEF Emit, WriteFails
  <2>4. c \in Device(c)
    BY DEF Device, Codes
  <2> HIDE DEF rep
  <2>5. /\ down' = (down \ Device(c)) \cup (ReportSet(rep) \cap Device(c))
        /\ SeqRange(hidKeys') \cup hidBits' = ReportSet(rep)
    BY <2>3 DEF WriteReport, ReportSet
  <2> QED BY <1>2, <2>2, <2>4, <2>5 DEF Gone
<1> QED BY <1>1, <1>2

\* Steps of the other threads leave the sweep alone; a host that goes away only
\* lets go of codes.
LEMMA RequestStepSwept ==
    ASSUME IndInv, SweptInv,
           \/ \E t \in Threads : AcquireLock(t) \/ ReleaseLock(t) \/ BreakLock(t)
                                  \/ SocketRequest(t)
           \/ \E v \in Viewers : ViewerStep(v)
           \/ HostUnplugs \/ HostReturns
    PROVE  SweptInv'
<1> USE DEF workVars, reportVars, lockVars
<1>1. /\ UNCHANGED <<busy, held, sweep, hidKeys, hidBits>> /\ down' \subseteq down
      /\ busy # Nobody => req'[busy] = req[busy]
  <2>1. ASSUME NEW t \in Threads, NEW r, pc[t] = "idle", Dispatch(t, r)
        PROVE  busy # Nobody => req'[busy] = req[busy]
    BY <2>1 DEF Dispatch, IndInv, TypeOK, LockUse
  <2>2. ASSUME NEW t \in Threads, AcquireLock(t) \/ ReleaseLock(t) \/ BreakLock(t)
        PROVE  UNCHANGED <<busy, held, sweep, hidKeys, hidBits, down, req>>
    BY <2>2 DEF AcquireLock, ReleaseLock, BreakLock, LockStep
  <2>3. ASSUME NEW t \in Threads, SocketRequest(t)
        PROVE  /\ UNCHANGED <<busy, held, sweep, hidKeys, hidBits, down>>
               /\ busy # Nobody => req'[busy] = req[busy]
    BY <2>1, <2>3 DEF SocketRequest, DispatchFrame
  <2>4. ASSUME NEW v \in Viewers, ViewerStep(v)
        PROVE  /\ UNCHANGED <<busy, held, sweep, hidKeys, hidBits, down>>
               /\ busy # Nobody => req'[busy] = req[busy]
    BY <2>1, <2>4 DEF ViewerStep, ViewerOpens, ViewerMessage, ViewerCloses, DispatchFrame, Threads
  <2>5. ASSUME HostUnplugs \/ HostReturns
        PROVE  UNCHANGED <<busy, held, sweep, hidKeys, hidBits, req>> /\ down' \subseteq down
    BY <2>5 DEF HostUnplugs, HostReturns
  <2> QED BY <2>2, <2>3, <2>4, <2>5
<1> QED BY <1>1 DEF SweptInv, Gone

LEMMA OperateSwept ==
    ASSUME IndInv, SweptInv, NEW t \in Threads, Operate(t)
    PROVE  SweptInv'
<1> USE DEF OperationFrame, lockVars, viewerVars, reportVars
<1>1. ASSUME Leave(t) PROVE SweptInv'
  BY <1>1 DEF Leave, SweptInv
<1>2. CASE TakeDevices(t)
  BY <1>2 DEF TakeDevices, SweptInv
<1>3. CASE NextStroke(t) \/ PressNext(t) \/ ReleaseNext(t)
  <2>1. Leave(t) \/ UNCHANGED <<busy, req>>
    BY <1>3 DEF NextStroke, PressNext, ReleaseNext
  <2>2. busy = t /\ req[t].cmd \notin SweepCommands
    BY <1>3 DEF NextStroke, PressNext, ReleaseNext, Working, ChordCommands, SweepCommands
  <2> QED BY <1>1, <2>1, <2>2 DEF SweptInv
<1>4. CASE SweepNext(t)
  <2>1. PICK c \in sweep :
          /\ Emit(Remap[c], 0)
          /\ IF WriteFails THEN Leave(t)
             ELSE /\ sweep' = sweep \ {c}
                  /\ UNCHANGED <<busy, strokes, toPress, pressed, pc, req>>
    BY <1>4 DEF SweepNext
  <2>2. CASE WriteFails
    BY <1>1, <2>1, <2>2
  <2>3. CASE ~WriteFails
    <3>1. Remap[c] \in Codes
      BY CodeAssumption DEF IndInv, TypeOK
    <3>2. Gone(Remap[c])' /\ \A d : Gone(d) => Gone(d)'
      BY <2>1, <2>3, <3>1, EmitLift
    <3>3. UNCHANGED <<busy, req, held>> /\ sweep' = sweep \ {c}
      BY <1>4, <2>1, <2>3 DEF SweepNext
    <3> QED BY <3>2, <3>3 DEF SweptInv
  <2> QED BY <2>2, <2>3
<1>5. CASE KeyDown(t) \/ KeyUp(t) \/ ChordDone(t) \/ SweepDone(t) \/ MouseMove(t)
  BY <1>1, <1>5 DEF KeyDown, KeyUp, ChordDone, SweepDone, MouseMove
<1> QED BY <1>2, <1>3, <1>4, <1>5 DEF Operate

\* Only a key event and the end of a sweep take codes off the record.
LEMMA ForgetStep ==
    ASSUME [Next]_vars, NEW c \in held \ held'
    PROVE  \E t \in Threads : KeyUp(t) \/ SweepDone(t)
<1> USE DEF OperationFrame, lockVars, viewerVars, reportVars, workVars
<1>1. ASSUME NEW t \in Threads, Operate(t)
      PROVE  KeyUp(t) \/ SweepDone(t)
  BY <1>1 DEF Operate, TakeDevices, KeyDown, NextStroke, PressNext, ReleaseNext, ChordDone,
              SweepNext, MouseMove
<1>2. ASSUME NEW t \in Threads,
             AcquireLock(t) \/ ReleaseLock(t) \/ BreakLock(t) \/ SocketRequest(t)
      PROVE  FALSE
  BY <1>2 DEF AcquireLock, ReleaseLock, BreakLock, LockStep, SocketRequest, DispatchFrame
<1>3. ASSUME NEW v \in Viewers, ViewerStep(v) PROVE FALSE
  BY <1>3 DEF ViewerStep, ViewerOpens, ViewerMessage, ViewerCloses, DispatchFrame
<1>4. ~HostUnplugs /\ ~HostReturns /\ ~UNCHANGED vars
  BY DEF HostUnplugs, HostReturns, vars
<1> QED BY <1>1, <1>2, <1>3, <1>4 DEF Next, ThreadStep

\* A release_all or mouse_release_all that comes to its end has let go of every
\* code it takes off the record: on either backend, with any key remapping, and
\* whatever the HID host did while it went on (a failed write ends it first).
THEOREM SweepLetsGo == Spec => SweptIsUp
<1>1. Init => SweptInv
  BY DEF Init, SweptInv
<1>2. IndInv /\ SweptInv /\ [Next]_vars => SweptInv'
  <2> SUFFICES ASSUME IndInv, SweptInv, [Next]_vars PROVE SweptInv'
    OBVIOUS
  <2>1. CASE Next
    BY <2>1, RequestStepSwept, OperateSwept DEF Next, ThreadStep
  <2>2. CASE UNCHANGED vars
    BY <2>2 DEF vars, SweptInv, Gone
  <2> QED BY <2>1, <2>2
<1> DEFINE Lets == \A t \in Threads : busy = t /\ Working(t, SweepCommands) =>
                      {Remap[c] : c \in held \ held'} \cap down' = {}
<1>3. IndInv /\ SweptInv /\ [Next]_vars => Lets
  <2> SUFFICES ASSUME IndInv, SweptInv, [Next]_vars, NEW t \in Threads, busy = t,
                      Working(t, SweepCommands), NEW c \in held \ held'
               PROVE  Remap[c] \notin down'
    OBVIOUS
  <2>1. PICK u \in Threads : KeyUp(u) \/ SweepDone(u)
    BY ForgetStep
  <2>2. u = t /\ SweepDone(t)
    BY <2>1 DEF KeyUp, SweepDone, Working, LiftCommands, SweepCommands
  <2>3. /\ sweep = {} /\ down' = down /\ held' = held \ SweepClass(req[t].cmd)
        /\ busy # Nobody /\ req[busy].cmd \in SweepCommands
    BY <2>2, ThreadAssumption DEF SweepDone, Working, reportVars
  <2> QED BY <2>3 DEF SweptInv, Gone
<1>4. IndInv /\ SweptInv /\ [Next]_vars => [Lets]_vars
  BY <1>3
<1> HIDE DEF Lets
<1>5. Spec => [][Lets]_vars
  BY <1>1, <1>2, <1>4, IndInvariant, PTL DEF Spec
<1> QED BY <1>5 DEF SweptIsUp, Lets

-----------------------------------------------------------------------------
(* Viewers that nobody locks out, with a host that stays. *)

\* No other identity takes the lock from under a viewer.
NoForeignLock ==
    \A v \in Viewers, t \in Sockets : \A r \in Asks[t] :
        r.cmd \in {"acquire", "break"} => As[t] = As[v]

ViewersInv == ViewersOK /\ HeldForViewers

LEMMA InitViewers == Init => ViewersInv
BY DEF Init, ViewersInv, ViewersOK, HeldForViewers, MayDrive, Threads

\* A key is accounted for without what t has under way.
KeptWithout(t, v, c) ==
    /\ c \in KbdCodes
    /\ \/ v \in open /\ c \in mine[v]
       \/ v # t /\ LettingGo(v, c)

\* A viewer's operation that ends leaves it with the keys it notes.
LEMMA LeaveViewers ==
    ASSUME IndInv, ViewersInv, NEW t \in Threads, busy = t, Leave(t),
           UNCHANGED <<owner, open, mine>>,
           \A v \in Viewers : \A c \in held' :
               presser'[c] = v => KeptWithout(t, v, c)
    PROVE  ViewersInv'
<1>1. \A u \in Threads : u # t => pc'[u] = pc[u] /\ req'[u] = req[u]
  BY DEF Leave, IndInv, TypeOK
<1>2. pc'[t] = "idle"
  BY DEF Leave, IndInv, TypeOK
<1>3. ViewersOK'
  BY <1>1, <1>2 DEF ViewersInv, ViewersOK, MayDrive, Threads
<1>4. HeldForViewers'
  BY <1>1, <1>2 DEF HeldForViewers, KeptWithout, LettingGo, Threads
<1> QED BY <1>3, <1>4 DEF ViewersInv

LEMMA OperateViewers ==
    ASSUME IndInv, ReportInv, HostStays, ViewersInv, NEW t \in Threads, Operate(t)
    PROVE  ViewersInv'
<1> USE DEF OperationFrame, lockVars, viewerVars
<1>0. ~WriteFails
  BY DEF HostStays, ReportInv, ReportOK, WriteFails
<1>1. CASE TakeDevices(t)
  <2>1. \A u \in Threads : pc'[u] # "idle" <=> pc[u] # "idle"
    BY <1>1 DEF TakeDevices, IndInv, TypeOK
  <2> QED BY <1>1, <2>1 DEF TakeDevices, ViewersInv, ViewersOK, HeldForViewers, LettingGo, MayDrive,
                            Threads
<1>2. CASE KeyDown(t)
  <2> DEFINE c == req[t].args[1]
  <2>1. /\ busy = t /\ pc[t] = "working" /\ req[t].cmd \in PressCommands
        /\ WellTyped(req[t]) /\ c \in Codes
    BY <1>2, WorkingFacts DEF KeyDown
  <2>2. held' = held \cup {c} /\ presser' = [presser EXCEPT ![c] = t] /\ Leave(t)
    BY <1>0, <1>2 DEF KeyDown
  <2>3. ASSUME t \in Viewers
        PROVE  t \in open /\ c \in mine[t] /\ c \in KbdCodes
    <3>1. req[t].cmd = "keydown"
      BY <2>1, <2>3 DEF ViewersInv, ViewersOK, PressCommands
    <3>2. c \in KbdCodes
      BY <2>1, <3>1 DEF WellTyped, PressCommands
    <3> QED BY <2>1, <2>3, <3>1, <3>2 DEF ViewersInv, ViewersOK
  <2> HIDE DEF c
  <2>5. ASSUME NEW v \in Viewers, NEW d \in held', presser'[d] = v
        PROVE  KeptWithout(t, v, d)
    <3>1. CASE d = c
      BY <2>1, <2>2, <2>3, <2>5, <3>1 DEF KeptWithout, IndInv, TypeOK
    <3>2. CASE d # c
      <4>1. d \in held /\ presser[d] = v
        BY <2>1, <2>2, <2>5, <3>2 DEF IndInv, TypeOK
      <4> QED BY <2>1, <4>1 DEF KeptWithout, ViewersInv, HeldForViewers, LettingGo, PressCommands
    <3> QED BY <3>1, <3>2
  <2> QED BY <1>2, <2>1, <2>2, <2>5, LeaveViewers DEF KeyDown
<1>3. CASE KeyUp(t)
  <2> DEFINE c == req[t].args[1]
  <2>1. /\ busy = t /\ pc[t] = "working" /\ req[t].cmd \in LiftCommands
        /\ held' = held \ {c} /\ presser' = presser /\ Leave(t)
    BY <1>0, <1>3 DEF KeyUp, Working
  <2>2. ASSUME NEW v \in Viewers, NEW d \in held', presser'[d] = v
        PROVE  KeptWithout(t, v, d)
    BY <2>1, <2>2 DEF KeptWithout, ViewersInv, HeldForViewers, LettingGo, LiftCommands
  <2> QED BY <1>3, <2>1, <2>2, LeaveViewers DEF KeyUp
<1>4. CASE NextStroke(t) \/ PressNext(t) \/ ReleaseNext(t) \/ ChordDone(t)
  <2>1. /\ busy = t /\ req[t].cmd \in ChordCommands
        /\ UNCHANGED <<owner, open, mine, held, presser>>
    BY <1>4 DEF NextStroke, PressNext, ReleaseNext, ChordDone, Working
  <2>2. Leave(t) \/ UNCHANGED <<pc, req>>
    BY <1>4 DEF NextStroke, PressNext, ReleaseNext, ChordDone
  <2>3. CASE UNCHANGED <<pc, req>>
    BY <2>1, <2>3 DEF ViewersInv, ViewersOK, HeldForViewers, LettingGo, MayDrive
  <2>4. CASE Leave(t)
    <3>1. \A d : ~LettingGo(t, d)
      BY <2>1 DEF LettingGo, ChordCommands
    <3>2. ASSUME NEW v \in Viewers, NEW d \in held', presser'[d] = v
          PROVE  KeptWithout(t, v, d)
      BY <2>1, <3>1, <3>2 DEF KeptWithout, ViewersInv, HeldForViewers
    <3> QED BY <2>1, <2>4, <3>2, LeaveViewers
  <2> QED BY <2>2, <2>3, <2>4
<1>5. CASE SweepNext(t)
  <2>1. UNCHANGED <<owner, open, mine, held, presser, pc, req>>
    BY <1>0, <1>5 DEF SweepNext
  <2> QED BY <2>1 DEF ViewersInv, ViewersOK, HeldForViewers, LettingGo, MayDrive
<1>6. CASE SweepDone(t)
  <2>1. /\ busy = t /\ pc[t] = "working" /\ req[t].cmd \in SweepCommands
        /\ held' = held \ SweepClass(req[t].cmd) /\ presser' = presser /\ Leave(t)
    BY <1>6 DEF SweepDone, Working
  <2>2. ASSUME t \in Viewers PROVE req[t].cmd = "release_all"
    BY <2>1, <2>2 DEF ViewersInv, ViewersOK, SweepCommands
  <2>3. ASSUME NEW v \in Viewers, NEW d \in held', presser'[d] = v
        PROVE  KeptWithout(t, v, d)
    BY <2>1, <2>2, <2>3 DEF KeptWithout, ViewersInv, HeldForViewers, SweepClass
  <2> QED BY <1>6, <2>1, <2>3, LeaveViewers DEF SweepDone
<1>7. CASE MouseMove(t)
  <2>1. /\ busy = t /\ req[t].cmd \in MoveCommands /\ Leave(t)
        /\ UNCHANGED <<owner, open, mine, held, presser>>
    BY <1>7 DEF MouseMove, Working
  <2>2. \A d : ~LettingGo(t, d)
    BY <2>1 DEF LettingGo, MoveCommands
  <2>3. ASSUME NEW v \in Viewers, NEW d \in held', presser'[d] = v
        PROVE  KeptWithout(t, v, d)
    BY <2>1, <2>2, <2>3 DEF KeptWithout, ViewersInv, HeldForViewers
  <2> QED BY <2>1, <2>3, LeaveViewers
<1> QED BY <1>1, <1>2, <1>3, <1>4, <1>5, <1>6, <1>7 DEF Operate

LEMMA RequestStepViewers ==
    ASSUME IndInv, ReportInv, HostStays, NoForeignLock, ViewersInv,
           \/ \E t \in Threads : AcquireLock(t) \/ ReleaseLock(t) \/ BreakLock(t)
                                  \/ SocketRequest(t)
           \/ \E v \in Viewers : ViewerStep(v)
           \/ HostUnplugs \/ HostReturns
    PROVE  ViewersInv'
<1> USE DEF viewerVars, DispatchFrame
<1>1. ASSUME NEW t \in Threads, AcquireLock(t) \/ ReleaseLock(t) \/ BreakLock(t)
      PROVE  ViewersInv'
  <2>1. UNCHANGED <<held, presser, pc, req, open, mine>>
    BY <1>1 DEF AcquireLock, ReleaseLock, BreakLock, LockStep
  <2>2. \A v \in Viewers : MayDrive(v)'
    BY <1>1 DEF AcquireLock, ReleaseLock, BreakLock, LockStep, SetOwner, MayDrive, NoForeignLock
  <2> QED BY <2>1, <2>2 DEF ViewersInv, ViewersOK, HeldForViewers, LettingGo
<1>2. ASSUME NEW t \in Threads, SocketRequest(t)
      PROVE  ViewersInv'
  <2>1. t \notin Viewers /\ UNCHANGED <<owner, held, presser, open, mine>>
    BY <1>2, ThreadAssumption DEF SocketRequest
  <2>2. \A u \in Threads : u # t => pc'[u] = pc[u] /\ req'[u] = req[u]
    BY <1>2 DEF SocketRequest, Dispatch, IndInv, TypeOK
  <2> QED BY <2>1, <2>2 DEF ViewersInv, ViewersOK, HeldForViewers, LettingGo, MayDrive, Threads
<1>3. ASSUME NEW v \in Viewers, ViewerOpens(v)
      PROVE  ViewersInv'
  BY <1>3 DEF ViewerOpens, ViewersInv, ViewersOK, HeldForViewers, LettingGo, MayDrive, IndInv, TypeOK
<1>4. ASSUME NEW v \in Viewers, ViewerMessage(v)
      PROVE  ViewersInv'
  <2>1. PICK r \in Asks[v] :
          /\ r.cmd \in {"keydown", "keyup", "type", "combo", "release_all"}
          /\ mine' = [mine EXCEPT ![v] =
                CASE r.cmd = "keydown" -> @ \cup {r.args[1]}
                  [] r.cmd = "keyup" -> @ \ {r.args[1]}
                  [] r.cmd = "release_all" -> {}
                  [] OTHER -> @]
          /\ Dispatch(v, r)
    BY <1>4 DEF ViewerMessage
  <2>2. /\ v \in open /\ pc[v] = "idle" /\ v \in Threads
        /\ UNCHANGED <<owner, held, presser, open>>
    BY <1>4 DEF ViewerMessage, Threads
  <2>3. pc' = [pc EXCEPT ![v] = "waiting"] /\ req' = [req EXCEPT ![v] = r]
    BY <2>1 DEF Dispatch, ViewersInv, ViewersOK
  <2>4. pc'[v] = "waiting" /\ req'[v] = r
    BY <2>2, <2>3 DEF IndInv, TypeOK
  <2>5. \A u \in Viewers : u # v => pc'[u] = pc[u] /\ req'[u] = req[u] /\ mine'[u] = mine[u]
    BY <2>1, <2>3 DEF IndInv, TypeOK, Threads
  <2>6. mine'[v] = CASE r.cmd = "keydown" -> mine[v] \cup {r.args[1]}
                     [] r.cmd = "keyup" -> mine[v] \ {r.args[1]}
                     [] r.cmd = "release_all" -> {}
                     [] OTHER -> mine[v]
    BY <2>1 DEF IndInv, TypeOK
  <2>7. r.cmd = "keydown" => r.args[1] \in mine'[v]
    BY <2>6
  <2>8. ViewersOK'
    BY <2>1, <2>2, <2>4, <2>5, <2>7 DEF ViewersInv, ViewersOK, MayDrive
  <2>9. ASSUME NEW c \in held, presser[c] = v
        PROVE  c \in KbdCodes /\ (c \in mine'[v] \/ LettingGo(v, c)')
    <3>1. c \in KbdCodes /\ c \in mine[v]
      BY <2>2, <2>9 DEF ViewersInv, HeldForViewers, LettingGo
    <3> QED BY <2>1, <2>4, <2>6, <3>1 DEF LettingGo
  <2>10. HeldForViewers'
    BY <2>2, <2>5, <2>9 DEF ViewersInv, HeldForViewers, LettingGo
  <2> QED BY <2>8, <2>10 DEF ViewersInv
<1>5. ASSUME NEW v \in Viewers, ViewerCloses(v)
      PROVE  ViewersInv'
  <2>1. /\ v \in open /\ pc[v] = "idle" /\ v \in Threads /\ open' = open \ {v}
        /\ UNCHANGED <<owner, held, presser, mine>>
    BY <1>5 DEF ViewerCloses, Threads
  <2>2. \A c \in held : presser[c] = v => c \in KbdCodes /\ mine[v] # {}
    BY <2>1 DEF ViewersInv, HeldForViewers, LettingGo
  <2>3. \A u \in Viewers : u # v => pc'[u] = pc[u] /\ req'[u] = req[u]
    BY <1>5, <2>1 DEF ViewerCloses, Dispatch, IndInv, TypeOK, Threads
  <2>4. CASE mine[v] = {}
    <3>1. pc'[v] = "idle"
      BY <1>5, <2>1, <2>4 DEF ViewerCloses
    <3> QED BY <2>1, <2>2, <2>3, <2>4, <3>1
            DEF ViewersInv, ViewersOK, HeldForViewers, LettingGo, MayDrive
  <2>5. CASE mine[v] # {}
    <3>1. Dispatch(v, [cmd |-> "release_all", args |-> <<>>]) /\ MayDrive(v)
      BY <1>5, <2>5 DEF ViewerCloses, ViewersInv, ViewersOK
    <3>2. pc'[v] = "waiting" /\ req'[v].cmd = "release_all"
      BY <2>1, <3>1 DEF Dispatch, IndInv, TypeOK
    <3> QED BY <2>1, <2>2, <2>3, <3>2
            DEF ViewersInv, ViewersOK, HeldForViewers, LettingGo, MayDrive
  <2> QED BY <2>4, <2>5
<1>6. ~HostUnplugs /\ ~HostReturns
  BY DEF HostUnplugs, HostReturns, HostStays, ReportInv, ReportOK
<1> QED BY <1>1, <1>2, <1>3, <1>4, <1>5, <1>6 DEF ViewerStep

\* With a host that stays, and as long as no other identity takes the lock, no
\* key is held for a tab whose connection is over: serve_ws's release_all lets go
\* of what the tab has pressed, whatever it and everybody else sent before.
THEOREM ClosedViewersHoldNothing ==
    ASSUME HostStays, NoForeignLock
    PROVE  Spec => []ClosedViewerHoldsNothing
<1>1. Init => ReportInv /\ ViewersInv
  BY InitReport, InitViewers
<1>2. IndInv /\ IndInv' /\ ReportInv /\ [Next]_vars => ReportInv'
  BY StepReport
<1>3. IndInv /\ ReportInv /\ ViewersInv /\ [Next]_vars => ViewersInv'
  <2> SUFFICES ASSUME IndInv, ReportInv, ViewersInv, [Next]_vars PROVE ViewersInv'
    OBVIOUS
  <2>1. CASE Next
    BY <2>1, RequestStepViewers, OperateViewers DEF Next, ThreadStep
  <2>2. CASE UNCHANGED vars
    BY <2>2 DEF vars, ViewersInv, ViewersOK, HeldForViewers, LettingGo, MayDrive
  <2> QED BY <2>1, <2>2
<1>4. ViewersInv => ClosedViewerHoldsNothing
  BY DEF ViewersInv, HeldForViewers, LettingGo, ClosedViewerHoldsNothing
<1> QED BY <1>1, <1>2, <1>3, <1>4, IndInvariant, PTL DEF Spec

-----------------------------------------------------------------------------
(* Whole strokes. *)

\* What a stroke's first code leaves behind.
LEMMA TailFacts ==
    ASSUME NEW s \in Seq(Codes), s # <<>>
    PROVE  /\ Tail(s) \in Seq(Codes)
           /\ SeqRange(s) = SeqRange(Tail(s)) \cup {Head(s)}
           /\ Distinct(s) => Distinct(Tail(s)) /\ Head(s) \notin SeqRange(Tail(s))
           /\ Climbs(s) => /\ Climbs(Tail(s))
                           /\ \A c \in SeqRange(Tail(s)) : Rank[Head(s)] <= Rank[c]
           /\ Falls(s) => /\ Falls(Tail(s))
                          /\ \A c \in SeqRange(Tail(s)) : Rank[c] <= Rank[Head(s)]
<1> DEFINE t == Tail(s)
<1>1. /\ t \in Seq(Codes) /\ Len(t) = Len(s) - 1 /\ Head(s) = s[1]
      /\ \A i \in 1 .. Len(t) : t[i] = s[i + 1]
  BY HeadTailProperties
<1>2. Len(s) \in Nat \ {0} /\ DOMAIN s = 1 .. Len(s) /\ DOMAIN t = 1 .. Len(s) - 1
  BY <1>1
<1> HIDE DEF t
<1>3. \A i \in DOMAIN t : i \in Nat /\ i + 1 \in DOMAIN s /\ i + 1 # 1 /\ t[i] = s[i + 1]
  BY <1>1, <1>2
<1>4. 1 \in DOMAIN s /\ \A i \in DOMAIN s : i # 1 => i - 1 \in DOMAIN t /\ t[i - 1] = s[i]
  BY <1>1, <1>2
<1>5. SeqRange(s) = SeqRange(t) \cup {Head(s)}
  <2>1. SeqRange(t) \subseteq SeqRange(s)
    BY <1>3 DEF SeqRange
  <2>2. Head(s) \in SeqRange(s)
    BY <1>1, <1>4 DEF SeqRange
  <2>3. \A i \in DOMAIN s : s[i] \in SeqRange(t) \cup {Head(s)}
    BY <1>1, <1>4 DEF SeqRange
  <2> QED BY <2>1, <2>2, <2>3 DEF SeqRange
<1>6. ASSUME Distinct(s) PROVE Distinct(t) /\ Head(s) \notin SeqRange(t)
  <2>1. ASSUME NEW i \in DOMAIN t, NEW j \in DOMAIN t, t[i] = t[j] PROVE i = j
    <3>1. i + 1 = j + 1
      BY <1>3, <1>6, <2>1 DEF Distinct
    <3> QED BY <1>3, <3>1
  <2>2. ASSUME NEW i \in DOMAIN t PROVE t[i] # Head(s)
    BY <1>1, <1>3, <1>4, <1>6 DEF Distinct
  <2> QED BY <2>1, <2>2 DEF Distinct, SeqRange
<1>7. ASSUME NEW i \in DOMAIN t PROVE 1 < i + 1
  BY <1>2
<1>8. ASSUME NEW i \in DOMAIN t, NEW j \in DOMAIN t, i < j PROVE i + 1 < j + 1
  BY <1>2, <1>8
<1>9. ASSUME Climbs(s)
      PROVE  Climbs(t) /\ \A c \in SeqRange(t) : Rank[Head(s)] <= Rank[c]
  <2>1. Climbs(t)
    BY <1>3, <1>8, <1>9 DEF Climbs
  <2>2. ASSUME NEW i \in DOMAIN t PROVE Rank[Head(s)] <= Rank[t[i]]
    BY <1>1, <1>3, <1>4, <1>7, <1>9 DEF Climbs
  <2> QED BY <2>1, <2>2 DEF SeqRange
<1>10. ASSUME Falls(s)
       PROVE  Falls(t) /\ \A c \in SeqRange(t) : Rank[c] <= Rank[Head(s)]
  <2>1. Falls(t)
    BY <1>3, <1>8, <1>10 DEF Falls
  <2>2. ASSUME NEW i \in DOMAIN t PROVE Rank[t[i]] <= Rank[Head(s)]
    BY <1>1, <1>3, <1>4, <1>7, <1>10 DEF Falls
  <2> QED BY <2>1, <2>2 DEF SeqRange
<1> QED BY <1>1, <1>5, <1>6, <1>9, <1>10 DEF t

\* What joins the pressed codes goes in front of them.
LEMMA ConsFacts ==
    ASSUME NEW s \in Seq(Codes), NEW e \in Codes
    PROVE  LET c == <<e>> \o s
           IN  /\ SeqRange(c) = SeqRange(s) \cup {e}
               /\ Distinct(s) /\ e \notin SeqRange(s) => Distinct(c)
               /\ Falls(s) /\ (\A d \in SeqRange(s) : Rank[d] <= Rank[e]) => Falls(c)
<1> DEFINE c == <<e>> \o s
<1>1. /\ c \in Seq(Codes) /\ Len(c) = 1 + Len(s)
      /\ \A i \in 1 .. 1 + Len(s) : c[i] = IF i <= 1 THEN <<e>>[i] ELSE s[i - 1]
  BY ConcatProperties
<1>2. Len(s) \in Nat /\ DOMAIN s = 1 .. Len(s) /\ DOMAIN c = 1 .. 1 + Len(s)
  BY <1>1
<1>3. SeqRange(c) = SeqRange(s) \cup {e}
  BY RangeConcat
<1> HIDE DEF c
<1>4. c[1] = e /\ \A i \in DOMAIN c : i # 1 => i - 1 \in DOMAIN s /\ c[i] = s[i - 1]
  BY <1>1, <1>2
<1>5. ASSUME Distinct(s), e \notin SeqRange(s) PROVE Distinct(c)
  <2>1. SUFFICES ASSUME NEW i \in DOMAIN c, NEW j \in DOMAIN c, c[i] = c[j] PROVE i = j
    BY DEF Distinct
  <2>2. CASE i # 1 /\ j # 1
    <3>1. i - 1 = j - 1
      BY <1>4, <1>5, <2>1, <2>2 DEF Distinct
    <3> QED BY <1>2, <3>1
  <2>3. CASE i = 1 \/ j = 1
    BY <1>4, <1>5, <2>1, <2>3 DEF SeqRange
  <2> QED BY <2>2, <2>3
<1>6. ASSUME Falls(s), \A d \in SeqRange(s) : Rank[d] <= Rank[e] PROVE Falls(c)
  <2>1. SUFFICES ASSUME NEW i \in DOMAIN c, NEW j \in DOMAIN c, i < j
                 PROVE  Rank[c[j]] <= Rank[c[i]]
    BY DEF Falls
  <2>2. j # 1 /\ j - 1 \in DOMAIN s /\ c[j] = s[j - 1]
    BY <1>2, <1>4, <2>1
  <2>3. CASE i = 1
    BY <1>4, <1>6, <2>2, <2>3 DEF SeqRange
  <2>4. CASE i # 1
    <3>1. i - 1 \in DOMAIN s /\ c[i] = s[i - 1] /\ i - 1 < j - 1
      BY <1>2, <1>4, <2>1, <2>4
    <3> QED BY <1>6, <2>2, <3>1 DEF Falls
  <2> QED BY <2>3, <2>4
<1> QED BY <1>3, <1>5, <1>6 DEF c

\* order_chord rearranges its codes, in the order of the ranks.
LEMMA ChordOrderFacts ==
    ASSUME NEW ks \in Seq(KbdCodes), NEW p \in ChordOrders(ks)
    PROVE  LET s == [i \in DOMAIN ks |-> ks[p[i]]]
           IN  /\ Climbs(s)
               /\ Distinct(ks) => Distinct(s)
               /\ SeqRange(s) = SeqRange(ks)
<1> DEFINE s == [i \in DOMAIN ks |-> ks[p[i]]]
           D == DOMAIN ks
<1>1. D = 1 .. Len(ks) /\ Len(ks) \in Nat /\ \A i \in D : ks[i] \in Codes
  BY DEF Codes
<1>2. /\ p \in [D -> D]
      /\ \A i, j \in D : i < j =>
            \/ Rank[ks[p[i]]] < Rank[ks[p[j]]]
            \/ Rank[ks[p[i]]] = Rank[ks[p[j]]] /\ p[i] < p[j]
  BY DEF ChordOrders
<1>3. \A i \in D : ks[p[i]] \in Codes /\ Rank[ks[p[i]]] \in Nat
  BY <1>1, <1>2, CodeAssumption
<1>4. Climbs(s)
  BY <1>2, <1>3 DEF Climbs
<1>5. ASSUME NEW i \in D, NEW j \in D, p[i] = p[j] PROVE i = j
  BY <1>1, <1>2, <1>3, <1>5
<1>6. p \in Surjection(D, D)
  <2>1. p \in Injection(D, D)
    BY <1>2, <1>5, Fun_IsInj
  <2>2. IsFiniteSet(D)
    BY <1>1, FS_Interval
  <2> QED BY <2>1, <2>2, FS_Injection
<1>7. \A j \in D : \E i \in D : p[i] = j
  BY <1>6, Fun_SurjectionProperties
<1>8. SeqRange(s) = SeqRange(ks)
  BY <1>2, <1>7 DEF SeqRange
<1>9. ASSUME Distinct(ks) PROVE Distinct(s)
  BY <1>2, <1>5, <1>9 DEF Distinct
<1> QED BY <1>4, <1>8, <1>9

\* Every stroke of a request presses a code once.
LEMMA StrokesOnce ==
    ASSUME NEW r \in Request, WellTyped(r), OnceEach(r), NEW s \in SeqRange(StrokesOf(r))
    PROVE  Distinct(s)
<1>1. CASE r.cmd = "key"
  <2>1. PICK i \in DOMAIN r.args : s = <<r.args[i]>>
    BY <1>1 DEF StrokesOf, SeqRange
  <2> QED BY <2>1 DEF Distinct
<1>2. CASE r.cmd = "type"
  <2>1. r.args \in Seq(Chars)
    BY <1>2 DEF WellTyped
  <2>2. PICK i \in DOMAIN r.args :
          s = LET ent == CharMap[r.args[i]]
              IN  IF ent.shift THEN <<Shift, ent.code>> ELSE <<ent.code>>
    BY <1>2 DEF StrokesOf, SeqRange
  <2>3. CharMap[r.args[i]].code # Shift
    BY <2>1, CodeAssumption
  <2> QED BY <2>2, <2>3 DEF Distinct
<1>3. CASE r.cmd \in {"hold", "mouse_click"}
  <2>1. s = r.args
    BY <1>3 DEF StrokesOf, SeqRange
  <2> QED BY <1>3, <2>1 DEF OnceEach
<1>4. CASE r.cmd \notin {"key", "type", "hold", "mouse_click"}
  <2>1. StrokesOf(r) = <<>>
    BY <1>4 DEF StrokesOf
  <2> QED BY <2>1 DEF SeqRange
<1> QED BY <1>1, <1>2, <1>3, <1>4

\* A report of the HID keyboard has room for all the keys in use.
KeysFit == Hid => IsFiniteSet(Keys) /\ Cardinality(Keys) <= Rollover

\* key_remap sends no two codes as one.
RemapApart == \A c, d \in Codes : Remap[c] = Remap[d] => c = d

\* No chord, hold or click names a code twice.
NoRepeats == \A t \in Threads : \A r \in Asks[t] : OnceEach(r)

\* A code that is pressed goes down, and lets go of no other.
LEMMA EmitKeeps ==
    ASSUME IndInv, ReportOK, HostStays, KeysFit, NEW c \in Codes, Emit(c, 1)
    PROVE  down \cup {c} \subseteq down'
<1>1. CASE ~Hid
  BY <1>1 DEF Emit
<1>2. CASE Hid
  <2> DEFINE rep == Pressed(c, hidKeys, hidBits)
  <2>1. /\ hidKeys \in Seq(Keys) /\ Distinct(hidKeys) /\ down = SeqRange(hidKeys) \cup hidBits
        /\ Len(hidKeys) \in Nat /\ DOMAIN hidKeys = 1 .. Len(hidKeys)
    BY <1>2 DEF IndInv, TypeOK, KeysOnce, Distinct, ReportOK, HostStays
  <2>2. WriteReport(rep, Device(c)) /\ plugged
    BY <1>2 DEF Emit, ReportOK, HostStays
  <2>3. down \cup {c} \subseteq ReportSet(rep)
    <3>1. CASE c \notin Keys \/ c \in SeqRange(hidKeys)
      BY <2>1, <3>1 DEF Pressed, ReportSet, SeqRange
    <3>2. CASE c \in Keys /\ c \notin SeqRange(hidKeys)
      <4>1. Len(hidKeys) < Rollover
        <5>1. hidKeys \in Injection(1 .. Len(hidKeys), Keys \ {c})
          <6>1. hidKeys \in [1 .. Len(hidKeys) -> Keys \ {c}]
            BY <2>1, <3>2 DEF SeqRange
          <6> QED BY <2>1, <6>1, Fun_IsInj DEF Distinct
        <5>2. IsFiniteSet(Keys \ {c}) /\ Cardinality(Keys \ {c}) = Cardinality(Keys) - 1
          BY <1>2, <3>2, FS_RemoveElement DEF KeysFit
        <5>3. Cardinality(1 .. Len(hidKeys)) <= Cardinality(Keys \ {c})
          BY <5>1, <5>2, FS_Injection
        <5>4. Cardinality(1 .. Len(hidKeys)) = Len(hidKeys)
          BY <2>1, FS_Interval
        <5>5. Cardinality(Keys) \in Nat /\ Cardinality(Keys) <= Rollover /\ Rollover \in Nat
          BY <1>2, FS_CardinalityType, BackendAssumption DEF KeysFit
        <5> QED BY <2>1, <5>2, <5>3, <5>4, <5>5
      <4>2. rep = [keys |-> Append(hidKeys, c), bits |-> hidBits]
        BY <2>1, <3>2, <4>1, BackendAssumption DEF Pressed
      <4>3. SeqRange(hidKeys) \cup {c} \subseteq SeqRange(Append(hidKeys, c))
        <5> DEFINE s == Append(hidKeys, c)
        <5>1. /\ DOMAIN s = 1 .. Len(hidKeys) + 1 /\ s[Len(hidKeys) + 1] = c
              /\ \A i \in 1 .. Len(hidKeys) : s[i] = hidKeys[i]
          BY <2>1, <3>2
        <5> HIDE DEF s
        <5>2. \A i \in DOMAIN hidKeys : i \in DOMAIN s /\ s[i] = hidKeys[i]
          BY <2>1, <5>1
        <5>3. Len(hidKeys) + 1 \in DOMAIN s
          BY <2>1, <5>1
        <5>4. SeqRange(hidKeys) \cup {c} \subseteq SeqRange(s)
          BY <5>1, <5>2, <5>3 DEF SeqRange
        <5> QED BY <5>4 DEF s
      <4> QED BY <2>1, <4>2, <4>3 DEF ReportSet
    <3> QED BY <3>1, <3>2
  <2> HIDE DEF rep
  <2>4. c \in Device(c)
    BY DEF Device, Codes
  <2> QED BY <2>2, <2>3, <2>4 DEF WriteReport
<1> QED BY <1>1, <1>2

StrokeInv == StrokeIntact /\ HandOK /\ ChordOK

LEMMA InitStroke == Init => StrokeInv
BY DEF Init, StrokeInv, StrokeIntact, HandOK, ChordOK, Distinct, SeqRange

\* An operation that ends has nothing in its hands.
LEMMA LeaveStroke ==
    ASSUME IndInv, StrokeInv, NEW t \in Threads, Leave(t)
    PROVE  StrokeInv'
<1>1. \A u \in Threads : pc'[u] # "idle" => pc[u] # "idle" /\ req'[u] = req[u]
  BY DEF Leave, IndInv, TypeOK
<1>2. busy' = Nobody /\ strokes' = <<>> /\ toPress' = <<>> /\ pressed' = <<>>
  BY DEF Leave
<1> QED BY <1>1, <1>2 DEF StrokeInv, StrokeIntact, HandOK, ChordOK, OnceEach, Distinct, SeqRange

\* Steps that leave the stroke in hand alone.
LEMMA QuietStroke ==
    ASSUME IndInv, StrokeInv, UNCHANGED <<busy, strokes, toPress, pressed, down>>,
           busy # Nobody => req'[busy] = req[busy],
           \A t \in Threads : pc'[t] # "idle" => OnceEach(req'[t])
    PROVE  StrokeInv'
BY DEF StrokeInv, StrokeIntact, HandOK, ChordOK, OnceEach, Distinct

LEMMA RequestStepStroke ==
    ASSUME IndInv, ReportInv, HostStays, NoRepeats, StrokeInv,
           \/ \E t \in Threads : AcquireLock(t) \/ ReleaseLock(t) \/ BreakLock(t)
                                  \/ SocketRequest(t)
           \/ \E v \in Viewers : ViewerStep(v)
           \/ HostUnplugs \/ HostReturns
    PROVE  StrokeInv'
<1> USE DEF workVars, reportVars, DispatchFrame
<1>1. \A t \in Threads : pc[t] # "idle" => OnceEach(req[t])
  BY DEF StrokeInv, HandOK
<1>2. ASSUME NEW t \in Threads, pc[t] = "idle", NEW r, OnceEach(r), Dispatch(t, r)
      PROVE  /\ busy # Nobody => req'[busy] = req[busy]
             /\ \A u \in Threads : pc'[u] # "idle" => OnceEach(req'[u])
  <2>1. \A u \in Threads : u # t => pc'[u] = pc[u] /\ req'[u] = req[u]
    BY <1>2 DEF Dispatch, IndInv, TypeOK
  <2>2. pc'[t] # "idle" => req'[t] = r
    BY <1>2 DEF Dispatch, IndInv, TypeOK
  <2>3. busy # Nobody => busy \in Threads /\ busy # t
    BY <1>2 DEF IndInv, TypeOK, LockUse
  <2> QED BY <1>1, <1>2, <2>1, <2>2, <2>3
<1>3. ASSUME NEW t \in Threads, AcquireLock(t) \/ ReleaseLock(t) \/ BreakLock(t)
      PROVE  StrokeInv'
  BY <1>1, <1>3, QuietStroke DEF AcquireLock, ReleaseLock, BreakLock, LockStep
<1>4. ASSUME NEW t \in Threads, SocketRequest(t)
      PROVE  StrokeInv'
  <2>1. PICK r \in Asks[t] : OnceEach(r) /\ Dispatch(t, r)
    BY <1>4 DEF SocketRequest, NoRepeats
  <2>2. pc[t] = "idle" /\ UNCHANGED <<busy, strokes, toPress, pressed, down>>
    BY <1>4 DEF SocketRequest
  <2> QED BY <1>2, <2>1, <2>2, QuietStroke
<1>5. ASSUME NEW v \in Viewers, ViewerOpens(v)
      PROVE  StrokeInv'
  BY <1>1, <1>5, QuietStroke DEF ViewerOpens
<1>6. ASSUME NEW v \in Viewers, ViewerMessage(v)
      PROVE  StrokeInv'
  <2>1. /\ v \in Threads /\ pc[v] = "idle"
        /\ UNCHANGED <<busy, strokes, toPress, pressed, down>>
    BY <1>6 DEF ViewerMessage, Threads
  <2>2. PICK r \in Asks[v] : OnceEach(r) /\ Dispatch(v, r)
    BY <1>6, <2>1 DEF ViewerMessage, NoRepeats
  <2> QED BY <1>2, <2>1, <2>2, QuietStroke
<1>7. ASSUME NEW v \in Viewers, ViewerCloses(v)
      PROVE  StrokeInv'
  <2> DEFINE r == [cmd |-> "release_all", args |-> <<>>]
  <2>1. /\ v \in Threads /\ pc[v] = "idle" /\ OnceEach(r)
        /\ UNCHANGED <<busy, strokes, toPress, pressed, down>>
    BY <1>7 DEF ViewerCloses, Threads, OnceEach
  <2>2. Dispatch(v, r) \/ UNCHANGED <<pc, req>>
    BY <1>7 DEF ViewerCloses
  <2> HIDE DEF r
  <2> QED BY <1>1, <1>2, <2>1, <2>2, QuietStroke
<1>8. ~HostUnplugs /\ ~HostReturns
  BY DEF HostUnplugs, HostReturns, HostStays, ReportInv, ReportOK
<1> QED BY <1>3, <1>4, <1>5, <1>6, <1>7, <1>8 DEF ViewerStep

LEMMA OperateStroke ==
    ASSUME IndInv, ReportInv, HostStays, KeysFit, RemapApart, StrokeInv,
           NEW t \in Threads, Operate(t)
    PROVE  StrokeInv'
<1> USE DEF OperationFrame, lockVars, viewerVars, reportVars
<1>0. /\ ReportOK /\ ~WriteFails
      /\ \A c \in Codes : Remap[c] \in Codes /\ Rank[c] \in Nat
      /\ strokes \in Seq(Seq(Codes)) /\ toPress \in Seq(Codes) /\ pressed \in Seq(Codes)
  BY CodeAssumption DEF ReportInv, ReportOK, HostStays, WriteFails, IndInv, TypeOK
<1>1. CASE TakeDevices(t)
  <2> DEFINE r == req[t]
  <2>1. /\ pc[t] = "waiting" /\ busy = Nobody /\ r \in Request /\ WellTyped(r) /\ OnceEach(r)
        /\ busy' = t /\ UNCHANGED <<toPress, pressed, down, req>>
    BY <1>1 DEF TakeDevices, IndInv, RequestsOK, StrokeInv, HandOK
  <2>2. toPress = <<>> /\ pressed = <<>>
    BY <2>1 DEF IndInv, NoLeftovers
  <2>3. \A u \in Threads : pc'[u] # "idle" => pc[u] # "idle"
    BY <1>1 DEF TakeDevices, IndInv, TypeOK
  <2>4. \A s \in SeqRange(strokes') :
            /\ Distinct(s)
            /\ r.cmd = "combo" => Climbs(s) /\ SeqRange(r.args) \subseteq SeqRange(s)
    <3>1. CASE r.cmd = "combo"
      <4>1. PICK p \in ChordOrders(r.args) :
                strokes' = <<[i \in DOMAIN r.args |-> r.args[p[i]]]>>
        BY <1>1, <3>1 DEF TakeDevices
      <4>2. r.args \in Seq(KbdCodes) /\ Distinct(r.args)
        BY <2>1, <3>1 DEF WellTyped, OnceEach
      <4> DEFINE s == [i \in DOMAIN r.args |-> r.args[p[i]]]
      <4>3. Climbs(s) /\ Distinct(s) /\ SeqRange(s) = SeqRange(r.args)
        BY <4>2, ChordOrderFacts
      <4> HIDE DEF s
      <4>4. \A e \in SeqRange(strokes') : e = s
        BY <4>1 DEF SeqRange, s
      <4> QED BY <4>3, <4>4
    <3>2. CASE r.cmd # "combo"
      BY <1>1, <2>1, <3>2, StrokesOnce DEF TakeDevices
    <3> QED BY <3>1, <3>2
  <2> HIDE DEF r
  <2>5. StrokeIntact'
    BY <2>1, <2>2 DEF StrokeIntact, SeqRange
  <2>6. HandOK'
    BY <2>1, <2>3, <2>4 DEF StrokeInv, HandOK
  <2>7. ChordOK'
    <3>1. /\ Climbs(<<>>) /\ Falls(<<>>) /\ SeqRange(<<>>) = {}
      BY DEF Climbs, Falls, SeqRange
    <3> QED BY <2>1, <2>2, <2>4, <3>1 DEF ChordOK, r
  <2> QED BY <2>5, <2>6, <2>7 DEF StrokeInv
<1>2. CASE KeyDown(t) \/ KeyUp(t) \/ ChordDone(t) \/ SweepDone(t) \/ MouseMove(t)
  BY <1>2, LeaveStroke DEF KeyDown, KeyUp, ChordDone, SweepDone, MouseMove
<1>3. CASE NextStroke(t)
  <2>1. /\ strokes # <<>> /\ toPress = <<>> /\ pressed = <<>> /\ toPress' = Head(strokes)
        /\ strokes' = Tail(strokes) /\ UNCHANGED <<busy, pressed, down, pc, req>>
    BY <1>3 DEF NextStroke
  <2>2. toPress' \in SeqRange(strokes) /\ SeqRange(strokes') \subseteq SeqRange(strokes)
    <3>1. /\ Tail(strokes) \in Seq(Seq(Codes)) /\ Len(Tail(strokes)) = Len(strokes) - 1
          /\ \A i \in 1 .. Len(Tail(strokes)) : Tail(strokes)[i] = strokes[i + 1]
          /\ Head(strokes) = strokes[1] /\ Len(strokes) \in Nat \ {0}
      BY <1>0, <2>1, HeadTailProperties
    <3>2. 1 \in DOMAIN strokes /\ DOMAIN Tail(strokes) = 1 .. Len(strokes) - 1
      BY <1>0, <3>1
    <3>3. \A i \in DOMAIN Tail(strokes) : i + 1 \in DOMAIN strokes /\ Tail(strokes)[i] = strokes[i + 1]
      BY <1>0, <3>1, <3>2
    <3>4. toPress' = strokes[1]
      BY <2>1, <3>1
    <3>5. toPress' \in SeqRange(strokes)
      BY <3>2, <3>4 DEF SeqRange
    <3>6. ASSUME NEW i \in DOMAIN Tail(strokes)
          PROVE  Tail(strokes)[i] \in SeqRange(strokes)
      BY <3>3 DEF SeqRange
    <3>7. SeqRange(Tail(strokes)) \subseteq SeqRange(strokes)
      BY <3>6 DEF SeqRange
    <3> QED BY <2>1, <3>5, <3>7
  <2>3. SeqRange(pressed) = {}
    BY <2>1 DEF SeqRange
  <2>4. StrokeIntact' /\ HandOK'
    BY <2>1, <2>2, <2>3 DEF StrokeInv, StrokeIntact, HandOK, OnceEach
  <2>5. ChordOK'
    BY <2>1, <2>2, <2>3 DEF StrokeInv, ChordOK
  <2> QED BY <2>4, <2>5 DEF StrokeInv
<1>4. CASE PressNext(t)
  <2> DEFINE c == Head(toPress)
  <2>1. /\ busy = t /\ toPress # <<>> /\ c \in Codes /\ Emit(Remap[c], 1)
        /\ pressed' = <<c>> \o pressed /\ toPress' = Tail(toPress)
        /\ UNCHANGED <<busy, strokes, pc, req>>
    BY <1>0, <1>4 DEF PressNext, Working
  <2>2. down \cup {Remap[c]} \subseteq down'
    BY <1>0, <2>1, EmitKeeps
  <2>3. /\ Distinct(toPress) /\ Distinct(pressed) /\ SeqRange(toPress) \cap SeqRange(pressed) = {}
    BY DEF StrokeInv, HandOK
  <2>4. /\ SeqRange(toPress) = SeqRange(toPress') \cup {c}
        /\ Distinct(toPress') /\ c \notin SeqRange(toPress')
        /\ Climbs(toPress) => /\ Climbs(toPress')
                              /\ \A d \in SeqRange(toPress') : Rank[c] <= Rank[d]
    BY <1>0, <2>1, <2>3, TailFacts
  <2>5. /\ SeqRange(pressed') = SeqRange(pressed) \cup {c}
        /\ Distinct(pressed')
        /\ Falls(pressed) /\ (\A d \in SeqRange(pressed) : Rank[d] <= Rank[c]) => Falls(pressed')
    BY <1>0, <2>1, <2>3, <2>4, ConsFacts
  <2> HIDE DEF c
  <2>6. StrokeIntact'
    BY <2>2, <2>5 DEF StrokeInv, StrokeIntact
  <2>7. HandOK'
    BY <2>1, <2>3, <2>4, <2>5 DEF StrokeInv, HandOK, OnceEach, Distinct
  <2>8. ChordOK'
    <3>1. SUFFICES ASSUME req[t].cmd = "combo", t # Nobody
                   PROVE  LET mods == SeqRange(req[t].args) \cap Mods
                          IN  /\ \A s \in SeqRange(strokes) : Climbs(s) /\ mods \subseteq SeqRange(s)
                              /\ Climbs(toPress') /\ Falls(pressed')
                              /\ \A d \in SeqRange(pressed'), e \in SeqRange(toPress') :
                                    Rank[d] <= Rank[e]
                              /\ toPress' # <<>> =>
                                    mods \subseteq SeqRange(toPress') \cup SeqRange(pressed')
                              /\ SeqRange(pressed') \cap Keys # {} => mods \subseteq SeqRange(pressed')
      BY <2>1 DEF ChordOK, Climbs, Falls
    <3> DEFINE mods == SeqRange(req[t].args) \cap Mods
    <3>2. /\ \A s \in SeqRange(strokes) : Climbs(s) /\ mods \subseteq SeqRange(s)
          /\ Climbs(toPress) /\ Falls(pressed)
          /\ \A d \in SeqRange(pressed), e \in SeqRange(toPress) : Rank[d] <= Rank[e]
          /\ mods \subseteq SeqRange(toPress) \cup SeqRange(pressed)
          /\ SeqRange(pressed) \cap Keys # {} => mods \subseteq SeqRange(pressed)
      BY <2>1, <3>1 DEF StrokeInv, ChordOK
    <3> HIDE DEF mods
    <3>3. Climbs(toPress') /\ \A d \in SeqRange(toPress') : Rank[c] <= Rank[d]
      BY <2>4, <3>2
    <3>4. Falls(pressed')
      BY <2>4, <2>5, <3>2
    <3>5. \A d \in SeqRange(pressed'), e \in SeqRange(toPress') : Rank[d] <= Rank[e]
      BY <2>4, <2>5, <3>2, <3>3
    <3>6. mods \subseteq SeqRange(toPress') \cup SeqRange(pressed')
      BY <2>4, <2>5, <3>2
    <3>7. ASSUME c \in Keys PROVE mods \subseteq SeqRange(pressed')
      <4>1. ASSUME NEW m \in mods, m \in SeqRange(toPress') PROVE FALSE
        <5>1. m \in Mods /\ m \in Codes /\ c \in Codes
          BY <3>7, <4>1 DEF mods, Codes, KbdCodes
        <5>2. Rank[c] <= Rank[m] /\ Rank[m] < Rank[c] /\ Rank[m] \in Nat /\ Rank[c] \in Nat
          BY <1>0, <3>3, <3>7, <4>1, <5>1, CodeAssumption
        <5> QED BY <5>2
      <4> QED BY <3>6, <4>1
    <3>8. SeqRange(pressed') \cap Keys # {} => mods \subseteq SeqRange(pressed')
      BY <2>5, <3>2, <3>7
    <3> QED BY <3>2, <3>3, <3>4, <3>5, <3>6, <3>8 DEF mods
  <2> QED BY <2>6, <2>7, <2>8 DEF StrokeInv
<1>5. CASE ReleaseNext(t)
  <2> DEFINE c == Head(pressed)
  <2>1. /\ busy = t /\ toPress = <<>> /\ pressed # <<>> /\ c \in Codes /\ Emit(Remap[c], 0)
        /\ pressed' = Tail(pressed) /\ UNCHANGED <<busy, strokes, toPress, pc, req>>
    BY <1>0, <1>5 DEF ReleaseNext, Working
  <2>2. Remap[c] \in Codes /\ down' = down \ {Remap[c]}
    BY <1>0, <2>1, EmitDown
  <2>3. Distinct(pressed)
    BY DEF StrokeInv, HandOK
  <2>4. /\ pressed' \in Seq(Codes) /\ SeqRange(pressed) = SeqRange(pressed') \cup {c}
        /\ Distinct(pressed') /\ c \notin SeqRange(pressed')
        /\ Falls(pressed) => /\ Falls(pressed')
                             /\ \A d \in SeqRange(pressed') : Rank[d] <= Rank[c]
    BY <1>0, <2>1, <2>3, TailFacts
  <2> HIDE DEF c
  <2>5. SeqRange(pressed') \subseteq Codes /\ SeqRange(toPress) = {}
    BY <2>1, <2>4 DEF SeqRange
  <2>6. StrokeIntact'
    <3>1. ASSUME NEW d \in SeqRange(pressed') PROVE Remap[d] \in down /\ Remap[d] # Remap[c]
      BY <2>1, <2>4, <2>5, <3>1 DEF StrokeInv, StrokeIntact, RemapApart
    <3> QED BY <2>2, <3>1 DEF StrokeIntact
  <2>7. HandOK'
    BY <2>1, <2>4, <2>5 DEF StrokeInv, HandOK, OnceEach, Distinct
  <2>8. ChordOK'
    <3>1. SUFFICES ASSUME req[t].cmd = "combo", t # Nobody
                   PROVE  LET mods == SeqRange(req[t].args) \cap Mods
                          IN  /\ \A s \in SeqRange(strokes) : Climbs(s) /\ mods \subseteq SeqRange(s)
                              /\ Climbs(toPress) /\ Falls(pressed')
                              /\ SeqRange(pressed') \cap Keys # {} => mods \subseteq SeqRange(pressed')
      BY <2>1, <2>5 DEF ChordOK, Climbs, Falls
    <3> DEFINE mods == SeqRange(req[t].args) \cap Mods
    <3>2. /\ \A s \in SeqRange(strokes) : Climbs(s) /\ mods \subseteq SeqRange(s)
          /\ Climbs(toPress) /\ Falls(pressed)
          /\ SeqRange(pressed) \cap Keys # {} => mods \subseteq SeqRange(pressed)
      BY <2>1, <3>1 DEF StrokeInv, ChordOK
    <3>3. ASSUME NEW k \in SeqRange(pressed') \cap Keys PROVE c \notin mods
      <4>1. ASSUME c \in mods PROVE FALSE
        <5>1. k \in Codes /\ c \in Codes /\ c \in Mods
          BY <2>5, <4>1 DEF Codes, KbdCodes
        <5>2. Rank[k] <= Rank[c] /\ Rank[c] < Rank[k] /\ Rank[k] \in Nat /\ Rank[c] \in Nat
          BY <1>0, <2>4, <3>2, <5>1, CodeAssumption
        <5> QED BY <5>2
      <4> QED BY <4>1
    <3> HIDE DEF mods
    <3>4. SeqRange(pressed') \cap Keys # {} => mods \subseteq SeqRange(pressed')
      BY <2>4, <3>2, <3>3
    <3> QED BY <2>4, <3>2, <3>4 DEF mods
  <2> QED BY <2>6, <2>7, <2>8 DEF StrokeInv
<1>6. CASE SweepNext(t)
  <2>1. /\ busy = t /\ req[t].cmd \in SweepCommands
        /\ UNCHANGED <<busy, strokes, toPress, pressed, pc, req>>
    BY <1>0, <1>6 DEF SweepNext, Working
  <2>2. strokes = <<>> /\ toPress = <<>> /\ pressed = <<>>
    BY <2>1 DEF IndInv, NoLeftovers, SweepCommands, ChordCommands
  <2>3. StrokeIntact'
    BY <2>1, <2>2 DEF StrokeIntact, SeqRange
  <2>4. HandOK'
    BY <2>1 DEF StrokeInv, HandOK, OnceEach, Distinct
  <2>5. ChordOK'
    BY <2>1 DEF ChordOK, SweepCommands
  <2> QED BY <2>3, <2>4, <2>5 DEF StrokeInv
<1> QED BY <1>1, <1>2, <1>3, <1>4, <1>5, <1>6 DEF Operate

\* With a host that stays and reports that have room for the keys in use, and
\* where neither key_remap nor a request names a code twice: what an operation has
\* pressed and not yet released is down at the target, whoever else drives, and
\* the last key of a combo goes down under all of its modifiers.
THEOREM StrokesReachWhole ==
    ASSUME HostStays, KeysFit, RemapApart, NoRepeats
    PROVE  Spec => []StrokesWhole
<1>1. Init => ReportInv /\ StrokeInv
  BY InitReport, InitStroke
<1>2. IndInv /\ IndInv' /\ ReportInv /\ [Next]_vars => ReportInv'
  BY StepReport
<1>3. IndInv /\ ReportInv /\ StrokeInv /\ [Next]_vars => StrokeInv'
  <2> SUFFICES ASSUME IndInv, ReportInv, StrokeInv, [Next]_vars PROVE StrokeInv'
    OBVIOUS
  <2>1. CASE Next
    BY <2>1, RequestStepStroke, OperateStroke DEF Next, ThreadStep
  <2>2. CASE UNCHANGED vars
    <3>1. \A t \in Threads : pc'[t] # "idle" => OnceEach(req'[t])
      BY <2>2 DEF vars, StrokeInv, HandOK
    <3> QED BY <2>2, <3>1, QuietStroke DEF vars
  <2> QED BY <2>1, <2>2
<1>4. IndInv /\ StrokeInv => StrokesWhole
  <2> SUFFICES ASSUME IndInv, StrokeInv, NEW t \in Threads, Working(t, {"combo"}),
                      SeqRange(pressed) \cap Keys # {}
               PROVE  {Remap[m] : m \in SeqRange(req[t].args) \cap Mods} \subseteq down
    BY DEF StrokesWhole, StrokeInv, ChordWhole
  <2>1. SeqRange(req[t].args) \cap Mods \subseteq SeqRange(pressed)
    BY ThreadAssumption DEF StrokeInv, ChordOK, Working
  <2> QED BY <2>1 DEF StrokeInv, StrokeIntact
<1> QED BY <1>1, <1>2, <1>3, <1>4, IndInvariant, PTL DEF Spec
=============================================================================
