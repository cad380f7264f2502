----------------------- MODULE CaptureWatchdogProofs -----------------------
(***************************************************************************)
(* Proofs about CaptureWatchdog for any number of processes and of clients *)
(* that send `video` commands, and any length of a frozen picture.         *)
(***************************************************************************)
EXTENDS CaptureWatchdog, TLAPS

-----------------------------------------------------------------------------
(* Types. *)

LEMMA InitType == Init => TypeOK
<1> SUFFICES ASSUME Init PROVE TypeOK
  OBVIOUS
<1>1. at \in [Threads -> Places]
  BY DEF Init, Places
<1>2. kept \in 0 .. FrozenRun /\ still \in 0 .. kept
  BY CaptureAssumption DEF Init
<1>3. /\ alive \in [Procs -> {"running", "dying", "dead"}] /\ reading \subseteq Procs
      /\ victim \in [Threads -> MaybeProc]
  BY DEF Init, MaybeProc
<1>4. /\ quiet \in BOOLEAN /\ source \in Sources
      /\ proc \in MaybeProc /\ looked \in MaybeProc
      /\ state \in States /\ verdict \in States \cup {AsItWas}
  BY DEF Init, MaybeProc, States
<1> QED BY <1>1, <1>2, <1>3, <1>4 DEF TypeOK

\* What acquiring does to the record and the processes, whatever comes of it.
LEMMA AcquireType ==
    ASSUME TypeOK, AcquireSucceeds \/ AcquireFails
    PROVE  /\ proc' \in MaybeProc /\ state' \in States /\ quiet' \in BOOLEAN
           /\ alive' \in [Procs -> {"running", "dying", "dead"}]
           /\ reading' \subseteq Procs
BY DEF AcquireSucceeds, AcquireFails, Unacquired, Spawn, TypeOK, MaybeProc, States

LEMMA GoesType ==
    ASSUME TypeOK, NEW t \in Threads, NEW from, NEW to \in Places, Goes(t, from, to)
    PROVE  at' \in [Threads -> Places]
BY DEF Goes, TypeOK

LEMMA ClearType ==
    ASSUME TypeOK, NEW t \in Threads, Clear(t)
    PROVE  victim' \in [Threads -> MaybeProc] /\ proc' \in MaybeProc
BY DEF Clear, TypeOK, MaybeProc

LEMMA KillType ==
    ASSUME TypeOK, NEW t \in Threads, Kill(t)
    PROVE  /\ victim' \in [Threads -> MaybeProc]
           /\ alive' \in [Procs -> {"running", "dying", "dead"}]
BY DEF Kill, TypeOK, MaybeProc

LEMMA PassEndsType ==
    ASSUME TypeOK, NEW from, PassEnds(from)
    PROVE  /\ at' \in [Threads -> Places]
           /\ looked' \in MaybeProc /\ verdict' \in States \cup {AsItWas}
BY GoesType DEF PassEnds, Threads, Places, MaybeProc

LEMMA CallerType ==
    ASSUME TypeOK, NEW t \in Callers,
           CallRelease(t) \/ CallerKills(t) \/ CallAcquire(t)
    PROVE  TypeOK'
<1>0. t \in Threads
  BY DEF Threads
<1>1. CASE CallRelease(t)
  BY <1>0, <1>1, GoesType, ClearType
     DEF CallRelease, TypeOK, Places, ring, watching
<1>2. CASE CallerKills(t)
  BY <1>0, <1>2, GoesType, KillType
     DEF CallerKills, TypeOK, Places, ring, watching
<1>3. CASE CallAcquire(t)
  BY <1>3, AcquireType DEF CallAcquire, TypeOK, ring, watching
<1> QED BY <1>1, <1>2, <1>3

LEMMA WatchType ==
    ASSUME TypeOK, WatchGoesOn
    PROVE  TypeOK'
<1>0. Watch \in Threads
  BY DEF Threads
<1>1. CASE Look
  <2>1. Classified \in States
    BY DEF Classified, States, TypeOK
  <2> QED BY <1>0, <1>1, <2>1, GoesType DEF Look, TypeOK, Places, ring
<1>2. CASE NotOwned
  BY <1>0, <1>2, GoesType DEF NotOwned, TypeOK, Places, ring, watching
<1>3. CASE Retry
  <2>1. at' \in [Threads -> Places] /\ looked' \in MaybeProc
        /\ verdict' \in States \cup {AsItWas}
    BY <1>0, <1>3, PassEndsType, GoesType DEF Retry, TypeOK, Places, watching
  <2> QED BY <1>3, <2>1, AcquireType DEF Retry, TypeOK, ring
<1>4. CASE Rest
  BY <1>4, PassEndsType DEF Rest, TypeOK, ring
<1>5. CASE Wedged
  BY <1>0, <1>5, GoesType DEF Wedged, TypeOK, Places, ring
<1>6. CASE WatchReleases
  BY <1>0, <1>6, GoesType, ClearType DEF WatchReleases, TypeOK, Places, ring, watching
<1>7. CASE WatchKills
  BY <1>0, <1>7, GoesType, KillType DEF WatchKills, TypeOK, Places, MaybeProc, ring
<1>8. CASE MarkUnavailable
  BY <1>0, <1>8, GoesType DEF MarkUnavailable, TypeOK, Places, States, ring, watching
<1>9. CASE WatchAcquires
  BY <1>9, PassEndsType, AcquireType DEF WatchAcquires, TypeOK, ring
<1>10. CASE StillAlive
  BY <1>0, <1>10, GoesType DEF StillAlive, TypeOK, Places, MaybeProc, ring
<1>11. CASE Judge
  BY <1>11, PassEndsType DEF Judge, TypeOK, States, ring
<1> QED BY <1>1, <1>2, <1>3, <1>4, <1>5, <1>6, <1>7, <1>8, <1>9, <1>10, <1>11
        DEF WatchGoesOn

\* Counting to FrozenRun keeps the still frames among the frames kept.
LEMMA FrameType ==
    ASSUME TypeOK, NEW p \in Procs, FrameKept(p)
    PROVE  kept' \in 0 .. FrozenRun /\ still' \in 0 .. kept'
<1>1. FrozenRun \in Nat /\ FrozenRun > 1
  BY CaptureAssumption
<1>2. kept \in 0 .. FrozenRun /\ still \in 0 .. kept
  BY DEF TypeOK
<1> QED BY <1>1, <1>2 DEF FrameKept, UpTo

LEMMA WorldType ==
    ASSUME TypeOK,
           \/ \E p \in Procs : FrameKept(p) \/ FrameDropped(p) \/ ReaderEnds(p) \/ ProcEnds(p)
           \/ GoesQuiet \/ SourceChanges
    PROVE  TypeOK'
<1>1. ASSUME NEW p \in Procs, FrameKept(p) PROVE TypeOK'
  BY <1>1, FrameType DEF FrameKept, Frame, TypeOK, watching
<1>2. ASSUME NEW p \in Procs, FrameDropped(p) PROVE TypeOK'
  BY <1>2 DEF FrameDropped, Frame, TypeOK, ring, watching
<1>3. ASSUME NEW p \in Procs, ReaderEnds(p) PROVE TypeOK'
  BY <1>3 DEF ReaderEnds, TypeOK, ring, watching
<1>4. ASSUME NEW p \in Procs, ProcEnds(p) PROVE TypeOK'
  BY <1>4 DEF ProcEnds, TypeOK, ring, watching
<1>5. CASE GoesQuiet
  BY <1>5 DEF GoesQuiet, TypeOK, ring, watching
<1>6. CASE SourceChanges
  BY <1>6 DEF SourceChanges, TypeOK, ring, watching
<1> QED BY <1>1, <1>2, <1>3, <1>4, <1>5, <1>6

LEMMA StepType == TypeOK /\ [Next]_vars => TypeOK'
<1>1. CASE UNCHANGED vars
  BY <1>1 DEF vars, TypeOK
<1>2. CASE Next
  BY <1>2, CallerType, WatchType, WorldType DEF Next
<1> QED BY <1>1, <1>2

\* Every variable keeps its type.
THEOREM TypeCorrect == Spec => []TypeOK
<1> QED BY InitType, StepType, PTL DEF Spec

-----------------------------------------------------------------------------
(* Whose hands a process is in. *)

\* A process that exists has an owner before and after somebody acquires: only
\* one that nobody refers to is started.
LEMMA AcquireHands ==
    ASSUME TypeOK, HandsInv, AcquireSucceeds \/ AcquireFails, UNCHANGED victim
    PROVE  /\ NoOrphan'
           /\ \A p \in Procs : p = looked /\ alive[p] = "dead" => alive'[p] = "dead"
<1>1. CASE Unacquired
  BY <1>1 DEF Unacquired, HandsInv, NoOrphan
<1>2. ASSUME NEW p \in Procs, ~Owned, Spawn(p)
      PROVE  /\ NoOrphan'
             /\ \A q \in Procs : q = looked /\ alive[q] = "dead" => alive'[q] = "dead"
  <2>1. alive' = [alive EXCEPT ![p] = "running"] /\ proc' = p /\ p # looked
    BY <1>2 DEF Spawn, Free
  <2>2. ASSUME NEW q \in Procs, q # p, alive'[q] = "running"
        PROVE  \E t \in Threads : victim'[t] = q
    <3>1. alive[q] = "running" /\ q # proc
      BY <1>2, <2>1, <2>2, CaptureAssumption DEF TypeOK, Owned, NoProc
    <3> QED BY <3>1 DEF HandsInv, NoOrphan
  <2> QED BY <2>1, <2>2 DEF TypeOK, NoOrphan
<1> QED BY <1>1, <1>2 DEF AcquireSucceeds, AcquireFails

\* Clearing the record hands its process to the thread that clears it.
LEMMA ClearHands ==
    ASSUME TypeOK, HandsInv, NEW t \in Threads, at[t] # "killing", Clear(t),
           UNCHANGED alive
    PROVE  NoOrphan'
<1>1. victim[t] = NoProc
  BY DEF HandsInv
<1>2. SUFFICES ASSUME NEW p \in Procs, alive'[p] = "running"
               PROVE  \E u \in Threads : victim'[u] = p
  BY DEF NoOrphan
<1>3. CASE p = proc
  BY <1>3 DEF Clear, TypeOK
<1>4. ASSUME NEW u \in Threads, victim[u] = p PROVE victim'[u] = p
  BY <1>1, <1>4, CaptureAssumption DEF Clear, TypeOK, NoProc
<1> QED BY <1>2, <1>3, <1>4 DEF HandsInv, NoOrphan

\* A killed process is nobody's any more, and does not need to be.
LEMMA KillHands ==
    ASSUME TypeOK, HandsInv, NEW t \in Threads, Kill(t), UNCHANGED proc
    PROVE  NoOrphan'
<1>1. SUFFICES ASSUME NEW p \in Procs, alive'[p] = "running"
               PROVE  p = proc' \/ \E u \in Threads : victim'[u] = p
  BY DEF NoOrphan
<1>2. alive[p] = "running" /\ p # victim[t]
  BY <1>1 DEF Kill
<1>3. ASSUME NEW u \in Threads, victim[u] = p PROVE victim'[u] = p
  BY <1>2, <1>3 DEF Kill, TypeOK
<1> QED BY <1>2, <1>3 DEF HandsInv, NoOrphan

\* What the watchdog saw exited stays so while only other threads work.
LEMMA CallerHands ==
    ASSUME TypeOK, HandsInv, NEW t \in Callers,
           CallRelease(t) \/ CallerKills(t) \/ CallAcquire(t)
    PROVE  HandsInv'
<1>0. t \in Threads /\ t # Watch /\ Watch \in Threads
  BY CaptureAssumption DEF Threads
<1>1. CASE CallRelease(t)
  <2>1. NoOrphan'
    BY <1>0, <1>1, ClearHands DEF CallRelease, Goes
  <2>2. \A u \in Threads : victim'[u] # NoProc => at'[u] = "killing"
    BY <1>0, <1>1 DEF CallRelease, Goes, Clear, HandsInv, TypeOK
  <2> QED BY <1>0, <1>1, <2>1, <2>2
          DEF CallRelease, Goes, HandsInv, TypeOK, Exited, watching, Threads
<1>2. CASE CallerKills(t)
  <2>1. NoOrphan'
    BY <1>0, <1>2, KillHands DEF CallerKills
  <2>2. \A u \in Threads : victim'[u] # NoProc => at'[u] = "killing"
    BY <1>0, <1>2 DEF CallerKills, Goes, Kill, HandsInv, TypeOK
  <2>3. at'[Watch] = "releasing" => Exited(looked)'
    BY <1>0, <1>2 DEF CallerKills, Goes, Kill, HandsInv, TypeOK, Exited, MaybeProc, watching
  <2> QED BY <1>0, <1>2, <2>1, <2>2, <2>3
          DEF CallerKills, Goes, HandsInv, TypeOK, Threads
<1>3. CASE CallAcquire(t)
  <2>1. NoOrphan' /\ \A p \in Procs : p = looked /\ alive[p] = "dead" => alive'[p] = "dead"
    BY <1>3, AcquireHands DEF CallAcquire
  <2>2. at'[Watch] = "releasing" => Exited(looked)'
    BY <1>3, <2>1 DEF CallAcquire, HandsInv, TypeOK, Exited, MaybeProc, watching
  <2> QED BY <1>3, <2>1, <2>2 DEF CallAcquire, HandsInv
<1> QED BY <1>1, <1>2, <1>3

\* The parts of HandsInv that a step of the watchdog can disturb, when it
\* neither takes a victim nor begins to release.
LEMMA WatchMoves ==
    ASSUME TypeOK, HandsInv, NoOrphan', NEW from, NEW to \in Places \ {"releasing"},
           from # "killing", Goes(Watch, from, to), UNCHANGED victim
    PROVE  HandsInv'
<1>0. Watch \in Threads /\ Watch \notin Callers
  BY CaptureAssumption DEF Threads
<1>1. \A t \in Threads : victim'[t] # NoProc => at'[t] = "killing"
  BY <1>0 DEF Goes, HandsInv, TypeOK
<1>2. at'[Watch] # "releasing"
  BY <1>0 DEF Goes, TypeOK
<1>3. \A t \in Callers : at'[t] \in {"idle", "killing"}
  BY <1>0 DEF Goes, HandsInv, TypeOK, Threads
<1> QED BY <1>1, <1>2, <1>3 DEF HandsInv

LEMMA WatchHands ==
    ASSUME TypeOK, HandsInv, WatchGoesOn
    PROVE  HandsInv'
<1>0. Watch \in Threads /\ Watch \notin Callers
  BY CaptureAssumption DEF Threads
<1>a. ASSUME UNCHANGED <<proc, alive, victim>> PROVE NoOrphan'
  BY <1>a DEF HandsInv, NoOrphan
<1>1. CASE Look
  BY <1>1, <1>a, WatchMoves DEF Look, Places
<1>2. CASE NotOwned
  BY <1>2, <1>a, WatchMoves DEF NotOwned, Places
<1>3. CASE Retry
  <2>1. NoOrphan'
    BY <1>3, AcquireHands DEF Retry
  <2> QED BY <1>3, <2>1, WatchMoves DEF Retry, PassEnds, Places
<1>4. CASE Rest
  BY <1>4, <1>a, WatchMoves DEF Rest, PassEnds, Places
<1>5. CASE Wedged
  BY <1>0, <1>5, <1>a DEF Wedged, Goes, HandsInv, TypeOK, Exited, Threads
<1>6. CASE WatchReleases
  <2>1. NoOrphan'
    BY <1>0, <1>6, ClearHands DEF WatchReleases, Goes
  <2>2. \A t \in Threads : victim'[t] # NoProc => at'[t] = "killing"
    BY <1>0, <1>6 DEF WatchReleases, Goes, Clear, HandsInv, TypeOK
  <2> QED BY <1>0, <1>6, <2>1, <2>2 DEF WatchReleases, Goes, HandsInv, TypeOK, Threads
<1>7. CASE WatchKills
  <2>1. NoOrphan'
    BY <1>0, <1>7, KillHands DEF WatchKills
  <2>2. \A t \in Threads : victim'[t] # NoProc => at'[t] = "killing"
    BY <1>0, <1>7 DEF WatchKills, Goes, Kill, HandsInv, TypeOK
  <2> QED BY <1>0, <1>7, <2>1, <2>2 DEF WatchKills, Goes, HandsInv, TypeOK, Threads
<1>8. CASE MarkUnavailable
  BY <1>8, <1>a, WatchMoves DEF MarkUnavailable, Places
<1>9. CASE WatchAcquires
  <2>1. NoOrphan'
    BY <1>9, AcquireHands DEF WatchAcquires
  <2> QED BY <1>9, <2>1, WatchMoves DEF WatchAcquires, PassEnds, Places
<1>10. CASE StillAlive
  BY <1>10, <1>a, WatchMoves DEF StillAlive, Places
<1>11. CASE Judge
  BY <1>11, <1>a, WatchMoves DEF Judge, PassEnds, Places
<1> QED BY <1>1, <1>2, <1>3, <1>4, <1>5, <1>6, <1>7, <1>8, <1>9, <1>10, <1>11
        DEF WatchGoesOn

\* Readers, exits and time make nothing run.
LEMMA WorldHands ==
    ASSUME TypeOK, HandsInv,
           \/ \E p \in Procs : FrameKept(p) \/ FrameDropped(p) \/ ReaderEnds(p) \/ ProcEnds(p)
           \/ GoesQuiet \/ SourceChanges
    PROVE  HandsInv'
<1>1. /\ UNCHANGED <<proc, at, victim, looked>>
      /\ \A p \in Procs : /\ alive'[p] = "running" => alive[p] = "running"
                          /\ alive[p] = "dead" => alive'[p] = "dead"
  <2>1. ASSUME NEW p \in Procs, ProcEnds(p)
        PROVE  /\ UNCHANGED <<proc, at, victim, looked>>
               /\ \A q \in Procs : /\ alive'[q] = "running" => alive[q] = "running"
                                   /\ alive[q] = "dead" => alive'[q] = "dead"
    BY <2>1 DEF ProcEnds, TypeOK, watching
  <2>2. CASE (\E p \in Procs : FrameKept(p) \/ FrameDropped(p) \/ ReaderEnds(p))
             \/ GoesQuiet \/ SourceChanges
    BY <2>2 DEF FrameKept, FrameDropped, Frame, ReaderEnds, GoesQuiet, SourceChanges,
                watching
  <2> QED BY <2>1, <2>2
<1>2. NoOrphan'
  BY <1>1 DEF HandsInv, NoOrphan
<1>3. at'[Watch] = "releasing" => Exited(looked)'
  BY <1>1 DEF HandsInv, Exited, TypeOK, MaybeProc
<1> QED BY <1>1, <1>2, <1>3 DEF HandsInv

LEMMA InitHands == Init => HandsInv
BY CaptureAssumption DEF Init, HandsInv, NoOrphan, Threads

LEMMA StepHands == TypeOK /\ HandsInv /\ [Next]_vars => HandsInv'
<1>1. CASE UNCHANGED vars
  BY <1>1 DEF vars, HandsInv, NoOrphan, Exited
<1>2. CASE Next
  BY <1>2, CallerHands, WatchHands, WorldHands DEF Next
<1> QED BY <1>1, <1>2

-----------------------------------------------------------------------------
(* What a reader should know. *)

\* _acquire and _release leave no ffmpeg behind: one that runs is on record or
\* about to be killed, however many clients send `video release` and `video
\* acquire` while the watchdog does the same.
THEOREM NoneLeftBehind == Spec => []NoOrphan
<1>1. HandsInv => NoOrphan
  BY DEF HandsInv
<1> QED BY <1>1, InitType, StepType, InitHands, StepHands, PTL DEF Spec

\* The watchdog does not clear away the process it looked at unless that has
\* exited: silence alone never makes it respawn (_watchdog, poll()).
THEOREM RespawnedOnExitOnly == Spec => OnlyTheDeadAreReplaced
<1>1. ASSUME TypeOK, HandsInv, Next,
             victim'[Watch] \notin {victim[Watch], NoProc}, victim'[Watch] = looked
      PROVE  Exited(looked)
  <2>0. Watch \in Threads /\ Watch \notin Callers
    BY CaptureAssumption DEF Threads
  <2>1. ASSUME NEW t \in Callers, CallRelease(t) \/ CallerKills(t) \/ CallAcquire(t)
        PROVE  victim'[Watch] = victim[Watch]
    BY <1>1, <2>0, <2>1 DEF CallRelease, CallerKills, CallAcquire, Clear, Kill, TypeOK
  <2>2. CASE WatchReleases
    BY <1>1, <2>2 DEF WatchReleases, Goes, HandsInv
  <2>3. CASE WatchKills
    BY <1>1, <2>0, <2>3 DEF WatchKills, Kill, TypeOK
  <2>4. CASE UNCHANGED victim
    BY <1>1, <2>4
  <2>5. WatchGoesOn => WatchReleases \/ WatchKills \/ UNCHANGED victim
    BY DEF WatchGoesOn, Look, NotOwned, Retry, Rest, Wedged, MarkUnavailable,
           WatchAcquires, StillAlive, Judge
  <2>6. ASSUME \/ \E p \in Procs :
                    FrameKept(p) \/ FrameDropped(p) \/ ReaderEnds(p) \/ ProcEnds(p)
               \/ GoesQuiet \/ SourceChanges
        PROVE  UNCHANGED victim
    BY <2>6 DEF FrameKept, FrameDropped, Frame, ReaderEnds, ProcEnds, GoesQuiet,
                SourceChanges
  <2> QED BY <1>1, <2>1, <2>2, <2>3, <2>4, <2>5, <2>6 DEF Next
<1>2. TypeOK /\ HandsInv /\ [Next]_vars =>
          [victim'[Watch] \notin {victim[Watch], NoProc} /\ victim'[Watch] = looked =>
              Exited(looked)]_vars
  BY <1>1
<1> QED BY <1>2, InitType, StepType, InitHands, StepHands, PTL
        DEF Spec, OnlyTheDeadAreReplaced
=============================================================================
