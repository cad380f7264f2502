---------------------------- MODULE H264Sidecar ----------------------------
(***************************************************************************)
(* The H.264 encoder beside one capture stick: a count of viewers that     *)
(* want it, one ffmpeg process at a time on record, a feeder and a reader  *)
(* thread per process that was ever spawned, the ring of access units they *)
(* fill and the WebSocket pumps that empty it.                             *)
(*                                                                         *)
(* acquire, release, the thermal watchdog, a push and a look at the ring   *)
(* each hold the sidecar's lock.  The feeder's and the reader's test of    *)
(* `running` do not, and a thread of an old process that has yet to notice *)
(* its end runs beside those of the next.                                  *)
(*                                                                         *)
(* An access unit is its process and its number there; every Gop-th is a   *)
(* keyframe and each of the others needs the one before it.  A client that *)
(* is slow, or paced below the source's rate, is one that takes its pump's *)
(* next step late.  What the temperature check answers is left open.       *)
(***************************************************************************)
EXTENDS Integers, Sequences, FiniteSets

CONSTANTS
    Viewers,      \* WebSocket connections opened with codec=h264
    Encoders,     \* ffmpeg processes: 1 .. n, in the order they are spawned
    MaxFrames,    \* bound: frames one process is fed
    Gop,          \* access units from one keyframe to the next (-g 30)
    RingLen,      \* AU_RING_LEN
    Throttles,    \* the Pi may report that it is throttled
    Dies,         \* an ffmpeg process may end on its own
    Stops         \* the capability may be stopped

NoEncoder == 0
NoAU == [enc |-> NoEncoder, n |-> 0]

ASSUME SidecarAssumption ==
    /\ IsFiniteSet(Viewers)
    /\ Encoders \subseteq Nat \ {0}
    /\ MaxFrames \in Nat /\ Gop \in Nat \ {0} /\ RingLen \in Nat \ {0}
    /\ Throttles \in BOOLEAN /\ Dies \in BOOLEAN /\ Stops \in BOOLEAN

VARIABLES
    viewers,    \* the reference count
    proc,       \* the process on record
    running,
    spawns,
    ring, seq,  \* au_ring, oldest first, and the last sequence number given
    alive,      \* the processes that have not ended
    fed,        \* the processes whose _feed thread goes on
    wrote,      \* frames written to each process's stdin
    made,       \* access units read from each process's stdout
    reader,     \* where each process's _read_nals thread is
    conns,      \* the viewers whose serve_ws is in its pump
    ok,         \* h264_ok: of those, the ones that were not refused
    leased,     \* history: the ones acquire has counted
    exact,      \* history: no release has taken back what acquire had not given
    last,       \* last_h264_seq of each pump
    shown       \* the access unit each pump sent last

leaseVars == <<viewers, conns, ok, leased, exact>>
procVars == <<proc, running, spawns, alive>>
ringVars == <<ring, seq>>
pipeVars == <<fed, wrote, made, reader>>
pumpVars == <<last, shown>>
vars == <<viewers, conns, ok, leased, exact, proc, running, spawns, alive, ring, seq,
          fed, wrote, made, reader, last, shown>>

AUs == [enc : Encoders, n : Nat]
IsKeyframe(au) == au.n % Gop = 1 % Gop

Entries == [seq : Nat, au : AUs]
ReaderStates == {"unborn", "testing", "reading", "pushing", "ending", "gone"}

LeaseType ==
    /\ viewers \in Nat /\ conns \subseteq Viewers /\ ok \subseteq conns /\ leased \subseteq conns
    /\ exact \in BOOLEAN
ProcessType ==
    /\ proc \in Encoders \cup {NoEncoder} /\ running \in BOOLEAN
    /\ spawns \in Nat /\ alive \subseteq Encoders
RingType == ring \in Seq(Entries) /\ Len(ring) <= RingLen /\ seq \in Nat
PipeType ==
    /\ fed \subseteq Encoders /\ reader \in [Encoders -> ReaderStates]
    /\ wrote \in [Encoders -> Nat] /\ made \in [Encoders -> Nat]
PumpType == last \in [Viewers -> Nat] /\ shown \in [Viewers -> AUs \cup {NoAU}]

TypeOK == LeaseType /\ ProcessType /\ RingType /\ PipeType /\ PumpType

Init ==
    /\ viewers = 0 /\ conns = {} /\ ok = {} /\ leased = {} /\ exact = TRUE
    /\ proc = NoEncoder /\ running = FALSE /\ spawns = 0 /\ alive = {}
    /\ ring = <<>> /\ seq = 0
    /\ fed = {}
    /\ wrote = [e \in Encoders |-> 0] /\ made = [e \in Encoders |-> 0]
    /\ reader = [e \in Encoders |-> "unborn"]
    /\ last = [v \in Viewers |-> 0] /\ shown = [v \in Viewers |-> NoAU]

-----------------------------------------------------------------------------
(* The lifecycle, under the sidecar's lock. *)

\* _spawn_locked, which may fail: whatever process was on record is replaced,
\* not ended.
Spawn ==
    \/ /\ spawns + 1 \in Encoders
       /\ spawns' = spawns + 1
       /\ proc' = spawns' /\ alive' = alive \cup {spawns'}
       /\ running' = TRUE
       /\ ring' = <<>>
       /\ fed' = fed \cup {spawns'}
       /\ reader' = [reader EXCEPT ![spawns'] = "testing"]
       /\ UNCHANGED <<seq, wrote, made>>
    \/ /\ proc' = NoEncoder
       /\ UNCHANGED <<running, spawns, alive, ringVars, pipeVars>>

Kill ==
    /\ running' = FALSE
    /\ proc' = NoEncoder /\ alive' = alive \ {proc}
    /\ UNCHANGED <<spawns, ringVars, pipeVars>>

SidecarUnchanged == UNCHANGED <<procVars, ringVars, pipeVars>>

\* Mutant: a viewer is counted only when an encoder could be started.
AcquireCountsStarted(v) ==
    /\ IF running THEN SidecarUnchanged ELSE Spawn
    /\ viewers' = IF proc' # NoEncoder THEN viewers + 1 ELSE viewers
    /\ leased' = leased \cup {v}
    /\ ok' = IF proc' # NoEncoder THEN ok \cup {v} ELSE ok

\* acquire: a viewer is counted before the process is started, and is refused
\* when there is none; a throttled Pi refuses it uncounted.
Acquire(v) ==
    \/ /\ Throttles
       /\ UNCHANGED <<viewers, ok, leased>> /\ SidecarUnchanged
    \/ /\ viewers' = viewers + 1
       /\ leased' = leased \cup {v}
       /\ IF running THEN SidecarUnchanged ELSE Spawn
       /\ ok' = IF proc' # NoEncoder THEN ok \cup {v} ELSE ok

\* serve_ws up to its pump.
ViewerConnects(v) ==
    /\ v \notin conns
    /\ Acquire(v)
    /\ conns' = conns \cup {v} /\ UNCHANGED exact
    /\ last' = [last EXCEPT ![v] = 0]
    /\ shown' = [shown EXCEPT ![v] = NoAU]

\* Mutant: the count is not kept from going below zero.
ReleaseUnclamped ==
    /\ viewers' = viewers - 1
    /\ IF viewers' = 0 THEN Kill ELSE SidecarUnchanged

\* Mutant: the last viewer's release does not end the encoder.
ReleaseForgetsLast ==
    /\ viewers' = IF viewers = 0 THEN 0 ELSE viewers - 1
    /\ IF viewers = 0 THEN Kill ELSE SidecarUnchanged

Release ==
    /\ viewers' = IF viewers = 0 THEN 0 ELSE viewers - 1
    /\ IF viewers' = 0 THEN Kill ELSE SidecarUnchanged

\* The finally block of serve_ws releases for every viewer, the refused ones too.
ViewerLeaves(v) ==
    /\ v \in conns
    /\ Release
    /\ conns' = conns \ {v} /\ ok' = ok \ {v} /\ leased' = leased \ {v}
    /\ exact' = (exact /\ v \in leased)
    /\ UNCHANGED pumpVars

WatchdogKills ==
    /\ Throttles /\ running
    /\ Kill
    /\ UNCHANGED <<leaseVars, pumpVars>>

Shutdown ==
    /\ Stops
    /\ viewers' = 0 /\ Kill /\ exact' = FALSE
    /\ UNCHANGED <<conns, ok, leased, pumpVars>>

EncoderDies(e) ==
    /\ Dies /\ e \in alive
    /\ alive' = alive \ {e}
    /\ UNCHANGED <<leaseVars, proc, running, spawns, ringVars, pipeVars, pumpVars>>

-----------------------------------------------------------------------------
(* The threads of one process. *)

ThreadFrame == UNCHANGED <<leaseVars, pumpVars, proc, spawns, alive>>

FeedFrame(e) ==
    /\ e \in fed /\ running /\ e \in alive
    /\ wrote[e] < MaxFrames
    /\ wrote' = [wrote EXCEPT ![e] = @ + 1]
    /\ ThreadFrame /\ UNCHANGED <<running, ringVars, fed, made, reader>>

FeedStops(e) ==
    /\ e \in fed /\ (~running \/ e \notin alive)
    /\ fed' = fed \ {e}
    /\ ThreadFrame /\ UNCHANGED <<running, ringVars, wrote, made, reader>>

ReaderTests(e) ==
    /\ reader[e] = "testing"
    /\ reader' = [reader EXCEPT ![e] = IF running THEN "reading" ELSE "ending"]
    /\ ThreadFrame /\ UNCHANGED <<running, ringVars, fed, wrote, made>>

\* os.read returns the access units that were encoded since, one here, or the
\* end of the stream, which a killed process may reach with frames unencoded.
ReaderReads(e) ==
    /\ reader[e] = "reading"
    /\ \/ /\ made[e] < wrote[e]
          /\ made' = [made EXCEPT ![e] = @ + 1]
          /\ reader' = [reader EXCEPT ![e] = "pushing"]
       \/ /\ e \notin alive
          /\ reader' = [reader EXCEPT ![e] = "ending"]
          /\ UNCHANGED made
    /\ ThreadFrame /\ UNCHANGED <<running, ringVars, fed, wrote>>

Pushed(r, entry) == Append(IF Len(r) >= RingLen THEN Tail(r) ELSE r, entry)

ReaderPushes(e) ==
    /\ reader[e] = "pushing"
    /\ seq' = seq + 1
    /\ ring' = Pushed(ring, [seq |-> seq', au |-> [enc |-> e, n |-> made[e]]])
    /\ reader' = [reader EXCEPT ![e] = "testing"]
    /\ ThreadFrame /\ UNCHANGED <<running, fed, wrote, made>>

\* Mutant: a reader that ends says nothing.
ReaderEndsSilently(e) ==
    /\ reader[e] = "ending"
    /\ reader' = [reader EXCEPT ![e] = "gone"]
    /\ ThreadFrame /\ UNCHANGED <<running, ringVars, fed, wrote, made>>

\* The last thing a reader does is to put `running` down, whichever process is
\* on record by then.
ReaderEnds(e) ==
    /\ reader[e] = "ending"
    /\ running' = FALSE
    /\ reader' = [reader EXCEPT ![e] = "gone"]
    /\ ThreadFrame /\ UNCHANGED <<ringVars, fed, wrote, made>>

-----------------------------------------------------------------------------
(* The pump of one connection. *)

Newest(S) == {i \in S : \A j \in S : j <= i}
Oldest(S) == {i \in S : \A j \in S : i <= j}

Newer(since) == {i \in DOMAIN ring : ring[i].seq > since}
Keyframes == {i \in DOMAIN ring : IsKeyframe(ring[i].au)}

\* Mutant: a viewer that has nothing yet is given the newest access unit.
AuAfterNewest(since) ==
    {ring[i] : i \in IF since = 0 THEN Newest(DOMAIN ring) ELSE Oldest(Newer(since))}

\* Mutant: a viewer that has everything is given the newest keyframe again.
AuAfterAgain(since) ==
    {ring[i] : i \in IF since = 0 \/ Newer(since) = {}
                     THEN Newest(Keyframes) ELSE Oldest(Newer(since))}

\* au_after: none or one entry of the ring.
AuAfter(since) ==
    {ring[i] : i \in IF since = 0 THEN Newest(Keyframes) ELSE Oldest(Newer(since))}

\* One turn of the h264 branch of _ws_pump that finds the socket writable.
PumpSends(v) ==
    /\ v \in ok
    /\ \E entry \in AuAfter(last[v]) :
          /\ last' = [last EXCEPT ![v] = entry.seq]
          /\ shown' = [shown EXCEPT ![v] = entry.au]
    /\ UNCHANGED leaseVars /\ SidecarUnchanged

-----------------------------------------------------------------------------
ReaderStep(e) ==
    ReaderTests(e) \/ ReaderReads(e) \/ ReaderPushes(e) \/ ReaderEnds(e)

Next ==
    \/ \E v \in Viewers : ViewerConnects(v) \/ ViewerLeaves(v) \/ PumpSends(v)
    \/ WatchdogKills \/ Shutdown
    \/ \E e \in Encoders : EncoderDies(e) \/ FeedFrame(e) \/ FeedStops(e) \/ ReaderStep(e)

Spec == Init /\ [][Next]_vars

\* A reader is a thread that waits for nothing but its pipe and the lock.
FairSpec == Spec /\ \A e \in Encoders : WF_vars(ReaderStep(e))

-----------------------------------------------------------------------------
(* Properties. *)

\* Once the last connection is gone the count is down to zero, whatever was
\* refused or killed in between, and no process is left on record to encode
\* for nobody.
IdleMeansStopped == conns = {} => viewers = 0 /\ proc = NoEncoder /\ ~running

\* The count is the number of connections that acquire has counted, as long as
\* nobody has given back what acquire did not count for them: a viewer's
\* departure undoes its arrival, encoders that fail to start or die included.
LeaseCounted == exact => viewers = Cardinality(leased)

\* Each departure gives back what that viewer took (not true of the code, which
\* releases for the viewers it refused).
EachGivesBackItsOwn == viewers = Cardinality(leased)

\* acquire starts a process only when none is alive: there is one encoder, and
\* when its viewers are gone it is gone.
OneEncoder == Cardinality(alive) <= 1

\* A decoder is never started in the middle of a group of pictures.
StartsOnKeyframe ==
    [][\A v \in Viewers :
          shown[v] = NoAU /\ shown'[v] # NoAU => IsKeyframe(shown'[v])]_vars

\* Within what one process encoded, a viewer never goes back or gets the same
\* access unit twice, whatever older readers push in between.
NoReplay ==
    [][\A v \in conns \cap conns' :
          shown'[v] # shown[v] /\ shown'[v].enc = shown[v].enc =>
              shown'[v].n > shown[v].n]_vars

\* Each access unit a viewer gets is one its decoder can use: a keyframe or the
\* successor of the one before (not true of the code).
StrictSequence ==
    [][\A v \in Viewers :
          shown'[v] # shown[v] /\ shown'[v] # NoAU =>
              \/ IsKeyframe(shown'[v])
              \/ /\ shown'[v].enc = shown[v].enc
                 /\ shown'[v].n = shown[v].n + 1]_vars

\* The death of the process on record does not go unnoticed: `running` comes
\* down, so that the next viewer starts another, or a new process is on record.
DeathNoticed ==
    \A e \in Encoders :
        proc = e /\ running /\ e \notin alive ~> ~(proc = e /\ running)

-----------------------------------------------------------------------------
(* The inductive invariants behind IdleMeansStopped and StartsOnKeyframe. *)

\* The count is never above the number of connections, and a count of zero, or
\* no process on record, means that nothing is thought to run.
Counted ==
    /\ viewers <= Cardinality(conns)
    /\ viewers = 0 => proc = NoEncoder
    /\ proc = NoEncoder => ~running

\* A pump that has sent nothing asks for a keyframe.
NothingYet == \A v \in Viewers : shown[v] = NoAU => last[v] = 0
=============================================================================
