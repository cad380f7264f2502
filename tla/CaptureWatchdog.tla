-------------------------- MODULE CaptureWatchdog --------------------------
(***************************************************************************)
(* The capture process of the video capability: ffmpeg on the capture      *)
(* device, a reader thread per process, the watchdog that starts it again  *)
(* and says what the picture is, and the `video release` and `video        *)
(* acquire` commands that other clients send.  stop() is left out: nothing *)
(* calls it while the daemon runs.                                         *)
(*                                                                         *)
(* The record (proc, state, what the readers brought) is under one lock.   *)
(* Processes are killed outside it, and the watchdog decides from a copy   *)
(* it took of the record, so each of its passes is several steps.          *)
(*                                                                         *)
(* Left to chance: whether Popen succeeds, when a process exits, whether a *)
(* lifetime was shorter than 5 s (and so whether there is a back-off, of   *)
(* any length), whether a pinned ring drops a frame.  A process that is    *)
(* over and that nobody refers to gives its number to the next one.        *)
(***************************************************************************)
EXTENDS Naturals, FiniteSets

CONSTANTS
    Procs,      \* bound: numbers for the ffmpeg processes there are at a time
    Callers,    \* threads that run a `video` command
    Watch,      \* the watchdog's thread
    FrozenRun   \* identical frames that make a frozen picture (8)

NoProc == 0     \* None
Threads == Callers \cup {Watch}
MaybeProc == Procs \cup {NoProc}

ASSUME CaptureAssumption ==
    /\ Procs \subseteq Nat \ {0}
    /\ Watch \notin Callers
    /\ FrozenRun \in Nat \ {0, 1}

VARIABLES
    proc,           \* `owned` is set with it under the lock: see Owned
    state,
    kept,           \* frames in the ring, counted to FrozenRun
    still,          \* how many of the newest of them show the same still picture
    quiet,          \* nothing has come for longer than NOSIGNAL_AFTER_S
    alive,          \* each process: "running", killed and "dying", or "dead"
    reading,        \* the processes whose _read_frames thread goes on
    at,             \* where each thread is
    victim,         \* the process a thread in _release is about to kill
    looked,         \* the watchdog's copy of proc ...
    verdict,        \* ... and what its copy of the rest says of the picture
    source          \* what the device delivers: pictures that are "moving" or
                    \* "still", or "none" (no signal, or not up yet)

ring == <<kept, still>>
watching == <<looked, verdict>>
vars == <<proc, state, kept, still, quiet, alive, reading, at, victim,
          looked, verdict, source>>

Owned == proc # NoProc
States == {"starting", "unavailable", "nosignal", "frozen", "locked"}
AsItWas == "as it was"      \* no verdict, or the one that is on record
Places == {"idle", "asleep", "looked", "retrying", "resting", "judging", "releasing",
           "killing", "marking", "acquiring"}
Sources == {"moving", "still", "none"}

TypeOK ==
    /\ quiet \in BOOLEAN
    /\ proc \in MaybeProc /\ looked \in MaybeProc
    /\ state \in States /\ verdict \in States \cup {AsItWas}
    /\ kept \in 0 .. FrozenRun /\ still \in 0 .. kept
    /\ alive \in [Procs -> {"running", "dying", "dead"}]
    /\ reading \subseteq Procs
    /\ at \in [Threads -> Places]
    /\ victim \in [Threads -> MaybeProc]
    /\ source \in Sources

\* start(): it acquires the device, whatever comes of it, and then starts the
\* watchdog, so Watch begins where an acquire ends a pass.
Init ==
    /\ proc = NoProc /\ state = "starting"
    /\ kept = 0 /\ still = 0 /\ quiet = FALSE
    /\ alive = [p \in Procs |-> "dead"] /\ reading = {}
    /\ at = [t \in Threads |-> IF t = Watch THEN "acquiring" ELSE "idle"]
    /\ victim = [t \in Threads |-> NoProc]
    /\ looked = NoProc /\ verdict = AsItWas
    /\ source \in Sources

-----------------------------------------------------------------------------
(* _acquire and _release. *)

Free(p) ==
    /\ alive[p] = "dead" /\ p \notin reading
    /\ p \notin {proc, looked} /\ \A t \in Threads : p # victim[t]

Spawn(p) ==
    /\ Free(p) /\ \A q \in Procs : q < p => ~Free(q)
    /\ proc' = p /\ state' = "starting"
    /\ quiet' = (quiet /\ kept # 0)     \* before any frame, from spawn_t on
    /\ alive' = [alive EXCEPT ![p] = "running"]
    /\ reading' = reading \cup {p}

Unacquired == UNCHANGED <<proc, state, quiet, alive, reading>>

\* Mutant: `if self.owned: return True` is missing.
AcquireBlindly == \E p \in Procs : Spawn(p)

AcquireSucceeds == IF Owned THEN Unacquired ELSE \E p \in Procs : Spawn(p)
AcquireFails == ~Owned /\ Unacquired

\* The record is cleared under the lock ...
Clear(t) ==
    /\ victim' = [victim EXCEPT ![t] = proc]
    /\ proc' = NoProc

\* ... and the process is killed outside it.  The wait that follows gives up
\* after 3 s, so the process may still be dying when the thread goes on.
Kill(t) ==
    /\ alive' = [p \in Procs |-> IF p = victim[t] /\ alive[p] = "running"
                                    THEN "dying" ELSE alive[p]]
    /\ victim' = [victim EXCEPT ![t] = NoProc]

-----------------------------------------------------------------------------
(* The commands. *)

Goes(t, from, to) == at[t] = from /\ at' = [at EXCEPT ![t] = to]

CallRelease(t) ==
    /\ Goes(t, "idle", "killing")
    /\ Clear(t)
    /\ UNCHANGED <<state, quiet, ring, alive, reading, watching, source>>

CallAcquire(t) ==
    /\ at[t] = "idle"
    /\ AcquireSucceeds \/ AcquireFails
    /\ UNCHANGED <<ring, at, victim, watching, source>>

CallerKills(t) ==
    /\ Goes(t, "killing", "idle")
    /\ Kill(t)
    /\ UNCHANGED <<proc, state, quiet, ring, reading, watching, source>>

-----------------------------------------------------------------------------
(* The watchdog. *)

\* The end of a pass, and half a second of sleep.
PassEnds(from) ==
    /\ Goes(Watch, from, "asleep")
    /\ looked' = NoProc /\ verdict' = AsItWas

\* Mutant: before the first frame there is no age to judge by.
ClassifiedByLastFrame ==
    IF quiet /\ kept # 0 THEN "nosignal"
    ELSE IF kept < FrozenRun THEN state
    ELSE IF still = FrozenRun THEN "frozen" ELSE "locked"

\* What the record says of the picture.  Bytes that repeat are no live picture.
Classified ==
    IF quiet THEN "nosignal"
    ELSE IF kept < FrozenRun THEN state
    ELSE IF still = FrozenRun THEN "frozen" ELSE "locked"

Look ==
    /\ Goes(Watch, "asleep", "looked")
    /\ looked' = proc
    /\ verdict' = IF Owned /\ Classified # state THEN Classified ELSE AsItWas
    /\ UNCHANGED <<proc, state, quiet, ring, alive, reading, victim, source>>

\* Mutant: only a process that was seen to exit is started again.
NotOwnedIsLeft ==
    /\ looked = NoProc /\ PassEnds("looked")
    /\ UNCHANGED <<proc, state, quiet, ring, alive, reading, victim, source>>

\* Nobody has the device: try again, however that came about.
NotOwned ==
    /\ looked = NoProc
    /\ Goes(Watch, "looked", "retrying")
    /\ UNCHANGED <<proc, state, quiet, ring, alive, reading, victim, watching, source>>

Retry ==
    /\ \/ AcquireSucceeds /\ PassEnds("retrying")
       \/ AcquireFails /\ Goes(Watch, "retrying", "resting") /\ UNCHANGED watching
    /\ UNCHANGED <<ring, victim, source>>

Rest ==
    /\ PassEnds("resting")
    /\ UNCHANGED <<proc, state, quiet, ring, alive, reading, victim, source>>

Exited(p) == p # NoProc /\ alive[p] = "dead"        \* poll() is not None

\* Mutant: a process that has been quiet for too long is a wedge, too.
WedgedByClock ==
    /\ Exited(looked) \/ (looked # NoProc /\ quiet)
    /\ Goes(Watch, "looked", "releasing")
    /\ verdict' = AsItWas
    /\ UNCHANGED <<proc, state, quiet, ring, alive, reading, victim, looked, source>>

\* The process has exited: a wedge.
Wedged ==
    /\ Exited(looked)
    /\ Goes(Watch, "looked", "releasing")
    /\ verdict' = AsItWas
    /\ UNCHANGED <<proc, state, quiet, ring, alive, reading, victim, looked, source>>

WatchReleases ==
    /\ Goes(Watch, "releasing", "killing")
    /\ Clear(Watch)
    /\ UNCHANGED <<state, quiet, ring, alive, reading, watching, source>>

\* A process that was up for 5 s is replaced at once, another after a back-off.
WatchKills ==
    /\ \E next \in {"marking", "acquiring"} : Goes(Watch, "killing", next)
    /\ Kill(Watch)
    /\ looked' = NoProc
    /\ UNCHANGED <<proc, state, quiet, ring, reading, verdict, source>>

MarkUnavailable ==
    /\ Goes(Watch, "marking", "acquiring")
    /\ state' = "unavailable"
    /\ UNCHANGED <<proc, quiet, ring, alive, reading, victim, watching, source>>

WatchAcquires ==
    /\ AcquireSucceeds \/ AcquireFails
    /\ PassEnds("acquiring")
    /\ UNCHANGED <<ring, victim, source>>

StillAlive ==
    /\ looked # NoProc /\ ~Exited(looked)
    /\ Goes(Watch, "looked", "judging")
    /\ looked' = NoProc
    /\ UNCHANGED <<proc, state, quiet, ring, alive, reading, victim, verdict, source>>

Judge ==
    /\ state' = IF verdict = AsItWas THEN state ELSE verdict
    /\ PassEnds("judging")
    /\ UNCHANGED <<proc, quiet, ring, alive, reading, victim, source>>

WatchGoesOn ==
    \/ Look \/ NotOwned \/ Retry \/ Rest \/ Wedged \/ WatchReleases \/ WatchKills
    \/ MarkUnavailable \/ WatchAcquires \/ StillAlive \/ Judge

-----------------------------------------------------------------------------
(* Readers, processes and time. *)

\* Mutant: every frame is counted.
UpToAny(n) == n

UpTo(n) == IF n < FrozenRun THEN n ELSE FrozenRun

\* A frame is read and pushed, and then the loop's test decides whether there is
\* another read: the frame that was under way when ffmpeg exited still counts.
Frame(p) ==
    /\ p \in reading /\ source # "none"
    /\ reading' = IF alive[p] # "dead" THEN reading ELSE reading \ {p}
    /\ quiet' = FALSE
    /\ UNCHANGED <<proc, state, alive, at, victim, watching, source>>

FrameKept(p) ==
    /\ Frame(p)
    /\ kept' = UpTo(kept + 1)
    /\ still' = IF source = "still" THEN UpTo(still + 1) ELSE 0

\* The ring is pinned and full: the frame is only counted.
FrameDropped(p) == Frame(p) /\ kept # 0 /\ UNCHANGED ring

\* The pipe of a process that has exited is at its end.
ReaderEnds(p) ==
    /\ p \in reading /\ alive[p] = "dead"
    /\ reading' = reading \ {p}
    /\ UNCHANGED <<proc, state, quiet, ring, alive, at, victim, watching, source>>

\* ffmpeg ends by itself, or as it was told to.
ProcEnds(p) ==
    /\ alive[p] # "dead"
    /\ alive' = [alive EXCEPT ![p] = "dead"]
    /\ UNCHANGED <<proc, state, quiet, ring, reading, at, victim, watching, source>>

GoesQuiet ==
    /\ ~quiet /\ (source = "none" \/ \A p \in Procs : alive[p] # "running")
    /\ quiet' = TRUE
    /\ UNCHANGED <<proc, state, ring, alive, reading, at, victim, watching, source>>

SourceChanges ==
    /\ source' \in Sources \ {source}
    /\ UNCHANGED <<proc, state, quiet, ring, alive, reading, at, victim, watching>>

-----------------------------------------------------------------------------
Next ==
    \/ \E t \in Callers :
          CallRelease(t) \/ CallerKills(t) \/ CallAcquire(t)
    \/ WatchGoesOn
    \/ \E p \in Procs : FrameKept(p) \/ FrameDropped(p) \/ ReaderEnds(p) \/ ProcEnds(p)
    \/ GoesQuiet \/ SourceChanges

Spec == Init /\ [][Next]_vars

\* Threads go on, a killed process ends, time passes and a pin expires; that
\* ffmpeg stays up, or is sent any picture, is not assumed.
ThreadsGoOn ==
    /\ WF_vars(WatchGoesOn) /\ WF_vars(GoesQuiet)
    /\ \A t \in Callers : WF_vars(CallerKills(t))
    /\ \A p \in Procs :
          /\ SF_vars(FrameKept(p)) /\ WF_vars(ReaderEnds(p))
          /\ WF_vars(alive[p] = "dying" /\ ProcEnds(p))

\* ffmpeg that is started again and again starts some time ...
FairSpec == Spec /\ ThreadsGoOn /\ SF_vars(Retry /\ Owned')

\* ... or never again, when it has been removed.
NoFfmpegSpec == Spec /\ ThreadsGoOn

-----------------------------------------------------------------------------
(* Properties. *)

\* Every ffmpeg that nobody has killed is the one on record, or is in the hands
\* of a thread about to kill it: none is left behind with the device open,
\* whatever acquires and releases overlap.
NoOrphan ==
    \A p \in Procs :
        alive[p] = "running" => p = proc \/ \E t \in Threads : victim[t] = p

\* "Respawn is decided by ffmpeg's liveness, NOT by a clock": of the process it
\* looked at, the watchdog only ever clears away one that has exited.
OnlyTheDeadAreReplaced ==
    [][victim'[Watch] \notin {victim[Watch], NoProc} /\ victim'[Watch] = looked =>
           Exited(looked)]_vars

\* However the device was lost, by an exit, a failed start or a release, it is
\* taken again.
CaptureRetried == []<>Owned

Shows == [moving |-> "locked", still |-> "frozen", none |-> "nosignal"]

\* While a process stays up, the state comes to say what the device delivers.
StateFollowsSource ==
    \A s \in Sources :
        <>[](Owned /\ alive[proc] = "running" /\ source = s)
            => <>[](state = Shows[s])

\* Nothing is called live for ever that nobody captures (not true of the code
\* under NoFfmpegSpec: the state stays what it was).
LiveMeansCaptured == []<>(state = "locked" => Owned)

-----------------------------------------------------------------------------
(* The inductive invariant behind NoOrphan and OnlyTheDeadAreReplaced. *)

\* Only a thread about to kill has a victim, and what the watchdog is about to
\* clear away was seen to have exited.
HandsInv ==
    /\ NoOrphan
    /\ \A t \in Threads : victim[t] # NoProc => at[t] = "killing"
    /\ at[Watch] = "releasing" => Exited(looked)
    /\ \A t \in Callers : at[t] \in {"idle", "killing"}
=============================================================================
