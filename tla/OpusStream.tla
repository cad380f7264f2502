----------------------------- MODULE OpusStream -----------------------------
(***************************************************************************)
(* The Opus side-stream of the audio capability: one ffmpeg process,       *)
(* started by the first listener and ended by the last, a reader thread    *)
(* per process that was ever started, the pages they keep and the          *)
(* WebSocket threads that send them.                                       *)
(*                                                                         *)
(* A decoder needs the two header pages of a stream before its first page  *)
(* of sound, and cannot go on with the pages of another stream.  Each      *)
(* start and each end of a process takes a new generation number; a reader *)
(* keeps no page, and a listener is sent none, unless the generation it    *)
(* began with is still the current one.                                    *)
(*                                                                         *)
(* Everything but reading a pipe and writing to a socket is done under     *)
(* opus_lock.  A page is its process and its number there.  What is fed to *)
(* the encoder is left out, and the ring's bytes are counted as pages.     *)
(***************************************************************************)
EXTENDS Integers, Sequences, FiniteSets

CONSTANTS
    Listeners,      \* WebSocket connections opened with codec=opus
    Procs,          \* ffmpeg processes: 1 .. n, in the order they are started
    MaxPages,       \* bound: pages read from one process
    MaxGeneration,  \* bound: no listener comes once this many have passed
    HeaderPages,    \* OpusHead and OpusTags (2)
    RingLen,        \* pages that fit in OPUS_RING_BYTES
    Behind, Keep    \* a listener more than Behind pages behind gets the last Keep

NoProc == 0
Pages == [proc : Procs, n : Nat \ {0}]
NoPage == [proc |-> NoProc, n |-> 0]
IsHeader(page) == page.n <= HeaderPages     \* page_granule(page) == 0

ASSUME StreamAssumption ==
    /\ IsFiniteSet(Listeners)
    /\ Procs \subseteq Nat \ {0}
    /\ MaxPages \in Nat /\ MaxGeneration \in Nat
    /\ HeaderPages \in Nat \ {0} /\ RingLen \in Nat \ {0}
    /\ Behind \in Nat /\ Keep \in Nat \ {0}

VARIABLES
    listeners,      \* opus_listeners
    proc,           \* opus_proc
    generation,
    headers, headersDone,
    ring, seq,      \* opus_ring, as a set of numbered pages, and opus_seq
    running,        \* AudioCapability.running
    stopping,       \* stop() has yet to take opus_lock
    spawned,        \* processes started so far
    alive,          \* the processes that have not ended
    bornAs,         \* the generation each reader thread was given
    made,           \* pages read from each process
    reader,         \* where each process's _opus_read thread is
    stage,          \* where each listener's thread is
    gen, last,      \* its gen and last_seq
    greeting,       \* its copy of the headers
    pending,        \* the pages it is about to send
    heard           \* history: the last page it has sent

streamVars == <<proc, generation, headers, headersDone, ring, seq>>
processVars == <<spawned, alive, bornAs, made, reader>>
stopVars == <<running, stopping>>
listenerVars == <<stage, gen, last, greeting, pending, heard>>
vars == <<listeners, proc, generation, headers, headersDone, ring, seq, running, stopping,
          spawned, alive, bornAs, made, reader, stage, gen, last, greeting, pending, heard>>

Entries == [seq : Nat, page : Pages]
ReaderStates == {"unborn", "reading", "holding", "ended", "gone"}
Stages == {"out", "waiting", "greeting", "streaming", "sending", "leaving"}

StreamType ==
    /\ proc \in Procs \cup {NoProc} /\ generation \in Nat
    /\ headers \in Seq(Pages) /\ headersDone \in BOOLEAN
    /\ ring \subseteq Entries /\ seq \in Nat
ProcessType ==
    /\ spawned \in Nat /\ alive \subseteq Procs
    /\ bornAs \in [Procs -> Nat] /\ made \in [Procs -> Nat]
    /\ reader \in [Procs -> ReaderStates]
ListenerType ==
    /\ stage \in [Listeners -> Stages]
    /\ gen \in [Listeners -> Nat] /\ last \in [Listeners -> Nat]
    /\ greeting \in [Listeners -> Seq(Pages)]
    /\ pending \in [Listeners -> SUBSET Entries]
    /\ heard \in [Listeners -> Pages \cup {NoPage}]
CountType == listeners \in Nat /\ running \in BOOLEAN /\ stopping \in BOOLEAN

TypeOK == StreamType /\ ProcessType /\ ListenerType /\ CountType

Init ==
    /\ listeners = 0 /\ running = TRUE /\ stopping = FALSE
    /\ proc = NoProc /\ generation = 0
    /\ headers = <<>> /\ headersDone = FALSE /\ ring = {} /\ seq = 0
    /\ spawned = 0 /\ alive = {}
    /\ bornAs = [p \in Procs |-> 0] /\ made = [p \in Procs |-> 0]
    /\ reader = [p \in Procs |-> "unborn"]
    /\ stage = [l \in Listeners |-> "out"]
    /\ gen = [l \in Listeners |-> 0] /\ last = [l \in Listeners |-> 0]
    /\ greeting = [l \in Listeners |-> <<>>]
    /\ pending = [l \in Listeners |-> {}]
    /\ heard = [l \in Listeners |-> NoPage]

-----------------------------------------------------------------------------
(* The process on record, inside opus_lock. *)

EmptyStream ==
    headers' = <<>> /\ headersDone' = FALSE /\ ring' = {} /\ UNCHANGED seq

\* A process that could be started as generation g, with the others and the
\* readers as they are by then.
Started(g, others, readers) ==
    /\ spawned + 1 \in Procs
    /\ spawned' = spawned + 1
    /\ proc' = spawned + 1 /\ alive' = others \cup {spawned + 1}
    /\ generation' = g /\ bornAs' = [bornAs EXCEPT ![spawned + 1] = g]
    /\ reader' = [readers EXCEPT ![spawned + 1] = "reading"]
    /\ EmptyStream /\ UNCHANGED made

\* Popen raised: nothing changes.
NotStarted == UNCHANGED <<streamVars, processVars>>

Spawn == Started(generation + 1, alive, reader) \/ NotStarted

\* Mutant: ending a process keeps the generation, as it once did.
KillKeepingGeneration ==
    /\ generation' = generation
    /\ proc' = NoProc /\ alive' = alive \ {proc}
    /\ EmptyStream /\ UNCHANGED <<spawned, bornAs, made>>

Kill ==
    /\ generation' = generation + 1
    /\ proc' = NoProc /\ alive' = alive \ {proc}
    /\ EmptyStream /\ UNCHANGED <<spawned, bornAs, made>>

-----------------------------------------------------------------------------
(* Listeners come and go. *)

Attach(l) ==
    /\ stage[l] = "out" /\ generation < MaxGeneration
    /\ listeners' = listeners + 1
    /\ IF proc = NoProc THEN Spawn ELSE UNCHANGED <<streamVars, processVars>>
    /\ stage' = [stage EXCEPT ![l] = "waiting"]
    /\ gen' = [gen EXCEPT ![l] = generation']
    /\ UNCHANGED <<stopVars, last, greeting, pending, heard>>

\* The thread's variables are gone with it.
ThreadEnds(l) ==
    /\ stage' = [stage EXCEPT ![l] = "out"]
    /\ gen' = [gen EXCEPT ![l] = 0] /\ last' = [last EXCEPT ![l] = 0]
    /\ greeting' = [greeting EXCEPT ![l] = <<>>]
    /\ pending' = [pending EXCEPT ![l] = {}]
    /\ heard' = [heard EXCEPT ![l] = NoPage]

\* Mutant: the last listener to leave does not end the encoder.
DetachForgetsLast(l) ==
    /\ stage[l] = "leaving"
    /\ listeners' = IF listeners = 0 THEN 0 ELSE listeners - 1
    /\ IF listeners = 0 THEN Kill /\ UNCHANGED reader
                        ELSE UNCHANGED <<streamVars, processVars>>
    /\ ThreadEnds(l)
    /\ UNCHANGED stopVars

Detach(l) ==
    /\ stage[l] = "leaving"
    /\ listeners' = IF listeners = 0 THEN 0 ELSE listeners - 1
    /\ IF listeners' = 0 THEN Kill /\ UNCHANGED reader
                         ELSE UNCHANGED <<streamVars, processVars>>
    /\ ThreadEnds(l)
    /\ UNCHANGED stopVars

\* stop(): first the flag, then the process.
StopBegins ==
    /\ running /\ running' = FALSE /\ stopping' = TRUE
    /\ UNCHANGED <<listeners, streamVars, processVars, listenerVars>>

StopKills ==
    /\ stopping /\ stopping' = FALSE
    /\ Kill
    /\ UNCHANGED <<listeners, reader, running, listenerVars>>

-----------------------------------------------------------------------------
(* One listener's thread, _serve_ws_audio_opus. *)

ListenerFrame == UNCHANGED <<listeners, stopVars, streamVars, processVars>>

Goes(l, to) == stage' = [stage EXCEPT ![l] = to]

\* Mutant: a listener that waits for headers does not look at the generation.
OutdatedWhenStreaming(l) ==
    /\ stage[l] = "streaming" /\ gen[l] # generation
    /\ Goes(l, "leaving")
    /\ ListenerFrame /\ UNCHANGED <<gen, last, greeting, pending, heard>>

Outdated(l) ==
    /\ stage[l] \in {"waiting", "streaming"}
    /\ gen[l] # generation
    /\ Goes(l, "leaving")
    /\ ListenerFrame /\ UNCHANGED <<gen, last, greeting, pending, heard>>

TakeHeaders(l) ==
    /\ stage[l] = "waiting" /\ gen[l] = generation /\ headersDone
    /\ greeting' = [greeting EXCEPT ![l] = headers]
    /\ last' = [last EXCEPT ![l] = seq]
    /\ Goes(l, "greeting")
    /\ ListenerFrame /\ UNCHANGED <<gen, pending, heard>>

SendHeaders(l) ==
    /\ stage[l] = "greeting"
    /\ heard' = [heard EXCEPT ![l] = greeting[l][Len(greeting[l])]]
    /\ greeting' = [greeting EXCEPT ![l] = <<>>]
    /\ Goes(l, "streaming")
    /\ ListenerFrame /\ UNCHANGED <<gen, last, pending>>

Newer(since) == {x \in ring : x.seq > since}
After(S, x) == {y \in S : y.seq > x.seq}

\* The skip-ahead rule.
Recent(S) ==
    IF Cardinality(S) > Behind THEN {x \in S : Cardinality(After(S, x)) < Keep} ELSE S

TakePages(l) ==
    /\ stage[l] = "streaming" /\ gen[l] = generation /\ Newer(last[l]) # {}
    /\ pending' = [pending EXCEPT ![l] = Recent(Newer(last[l]))]
    /\ Goes(l, "sending")
    /\ ListenerFrame /\ UNCHANGED <<gen, last, greeting, heard>>

\* A socket that cannot be written to sends the thread back to the ring.
SocketFull(l) ==
    /\ stage[l] = "sending"
    /\ pending' = [pending EXCEPT ![l] = {}]
    /\ Goes(l, "streaming")
    /\ ListenerFrame /\ UNCHANGED <<gen, last, greeting, heard>>

Newest(S) == {x \in S : After(S, x) = {}}

SendPages(l) ==
    /\ stage[l] = "sending"
    /\ \E x \in Newest(pending[l]) :
          /\ last' = [last EXCEPT ![l] = x.seq]
          /\ heard' = [heard EXCEPT ![l] = x.page]
    /\ pending' = [pending EXCEPT ![l] = {}]
    /\ Goes(l, "streaming")
    /\ ListenerFrame /\ UNCHANGED <<gen, greeting>>

\* A write raises: the client has gone.
ClientGone(l) ==
    /\ stage[l] \in {"greeting", "sending"}
    /\ Goes(l, "leaving")
    /\ ListenerFrame /\ UNCHANGED <<gen, last, greeting, pending, heard>>

-----------------------------------------------------------------------------
(* One process and its _opus_read thread. *)

ReaderFrame == UNCHANGED <<listeners, stopVars, listenerVars, spawned, bornAs>>

ProcDies(p) ==
    /\ p \in alive
    /\ alive' = alive \ {p}
    /\ ReaderFrame /\ UNCHANGED <<streamVars, made, reader>>

\* os.read and the page splitter; a process that has ended may have left pages
\* in the pipe.
ReaderReads(p) ==
    /\ reader[p] = "reading" /\ made[p] < MaxPages
    /\ made' = [made EXCEPT ![p] = @ + 1]
    /\ reader' = [reader EXCEPT ![p] = "holding"]
    /\ ReaderFrame /\ UNCHANGED <<streamVars, alive>>

ReaderAtEnd(p) ==
    /\ reader[p] = "reading" /\ p \notin alive
    /\ reader' = [reader EXCEPT ![p] = "ended"]
    /\ ReaderFrame /\ UNCHANGED <<streamVars, alive, made>>

\* Mutant: pages are numbered from zero.
HeldFromZero(p) == [proc |-> p, n |-> made[p] - 1]

Held(p) == [proc |-> p, n |-> made[p]]

Trimmed(S) == {x \in S : Cardinality(After(S, x)) < RingLen}

ReaderKeeps(p) ==
    /\ reader[p] = "holding" /\ bornAs[p] = generation
    /\ reader' = [reader EXCEPT ![p] = "reading"]
    /\ IF ~headersDone /\ IsHeader(Held(p))
       THEN headers' = Append(headers, Held(p)) /\ UNCHANGED <<headersDone, ring, seq>>
       ELSE /\ headersDone' = TRUE /\ seq' = seq + 1
            /\ ring' = Trimmed(ring \cup {[seq |-> seq + 1, page |-> Held(p)]})
            /\ UNCHANGED headers
    /\ ReaderFrame /\ UNCHANGED <<proc, generation, alive, made>>

ReaderOutdated(p) ==
    /\ reader[p] = "holding" /\ bornAs[p] # generation
    /\ reader' = [reader EXCEPT ![p] = "gone"]
    /\ ReaderFrame /\ UNCHANGED <<streamVars, alive, made>>

\* Mutant: a reader whose process died leaves it on record.
ReaderEndsQuietly(p) ==
    /\ reader[p] = "ended"
    /\ reader' = [reader EXCEPT ![p] = "gone"]
    /\ ReaderFrame /\ UNCHANGED <<streamVars, alive, made>>

\* Whoever ended a process has taken it off the record.  One that died on its
\* own is taken off here, and with listeners left another is started, if Popen
\* does not raise.
ReaderEnds(p) ==
    /\ reader[p] = "ended"
    /\ \/ /\ proc # p
          /\ reader' = [reader EXCEPT ![p] = "gone"]
          /\ UNCHANGED <<streamVars, spawned, alive, bornAs, made>>
       \/ /\ proc = p
          /\ Kill
          /\ reader' = [reader EXCEPT ![p] = "gone"]
       \/ /\ proc = p /\ listeners > 0 /\ running
          /\ Started(generation + 2, alive \ {p}, [reader EXCEPT ![p] = "gone"])
    /\ UNCHANGED <<listeners, stopVars, listenerVars>>

-----------------------------------------------------------------------------
ListenerGoesOn(l) ==
    \/ Outdated(l) \/ TakeHeaders(l) \/ SendHeaders(l)
    \/ TakePages(l) \/ SocketFull(l) \/ SendPages(l)
    \/ ClientGone(l) \/ Detach(l)

ReaderGoesOn(p) == ReaderAtEnd(p) \/ ReaderKeeps(p) \/ ReaderOutdated(p) \/ ReaderEnds(p)

Next ==
    \/ \E l \in Listeners : Attach(l) \/ ListenerGoesOn(l)
    \/ \E p \in Procs : ProcDies(p) \/ ReaderReads(p) \/ ReaderGoesOn(p)
    \/ StopBegins \/ StopKills

Spec == Init /\ [][Next]_vars

\* Threads wait for opus_lock, for their socket and for their pipe.  A client is
\* taken to read what it is sent or to go, and a process to end its pipe when
\* it dies; that an encoder produces anything is not assumed.
FairSpec ==
    /\ Spec
    /\ \A l \in Listeners : WF_vars(ListenerGoesOn(l))
    /\ \A p \in Procs : WF_vars(ReaderGoesOn(p))

-----------------------------------------------------------------------------
(* Properties. *)

\* A connection gets one stream: all header pages of one process and nothing
\* before them, then pages of sound of the same process, each later than the
\* last, whatever was ended or replaced while the thread was sending.
OneStream ==
    \A l \in Listeners :
        /\ stage[l] = "greeting" =>
              /\ Len(greeting[l]) = HeaderPages
              /\ \E p \in Procs :
                    \A i \in 1 .. HeaderPages : greeting[l][i] = [proc |-> p, n |-> i]
        /\ stage[l] = "sending" =>
              /\ heard[l].n >= HeaderPages
              /\ \A x \in pending[l] :
                    x.page.proc = heard[l].proc /\ x.page.n > heard[l].n
              /\ \A x, y \in pending[l] : x.seq < y.seq <=> x.page.n < y.page.n

\* One encoder at most, on record, and none when nobody listens.
EncoderForListeners ==
    /\ alive \subseteq {proc}
    /\ (\A l \in Listeners : stage[l] = "out") => listeners = 0 /\ proc = NoProc

\* An encoder that died is taken off the record, so that the next listener, or
\* the reader itself, can start another.
DeathRepaired == \A p \in Procs : proc = p /\ p \notin alive ~> proc # p

\* A connection whose generation is over ends, and the client can come back for
\* the next one: it is not left waiting for pages that cannot come.
OutdatedLeaves ==
    \A l \in Listeners : stage[l] # "out" /\ gen[l] # generation ~> stage[l] = "out"

-----------------------------------------------------------------------------
(* The inductive invariant behind OneStream and EncoderForListeners. *)

\* Only the process on record was born with the current generation.
Births ==
    /\ alive \subseteq {proc} \ {NoProc}
    /\ proc # NoProc => bornAs[proc] = generation /\ reader[proc] # "unborn"
    /\ \A p \in Procs :
          /\ p > spawned => reader[p] = "unborn" /\ made[p] = 0
          /\ reader[p] = "holding" => made[p] > 0
          /\ reader[p] # "unborn" => bornAs[p] <= generation
          /\ reader[p] # "unborn" /\ bornAs[p] = generation => p = proc

\* How many pages of a process its reader has seen to.
Kept(p) == IF reader[p] = "holding" THEN made[p] - 1 ELSE made[p]

\* Sound of the process on record, counted in the ring as in the stream.
InStream(x) ==
    /\ proc # NoProc /\ x.page.proc = proc /\ x.page.n > HeaderPages
    /\ seq - x.seq = Kept(proc) - x.page.n

OwnPages ==
    /\ proc = NoProc => headers = <<>> /\ ~headersDone
    /\ \A i \in 1 .. Len(headers) : headers[i] = [proc |-> proc, n |-> i]
    /\ proc # NoProc =>
          IF headersDone THEN Len(headers) = HeaderPages /\ Kept(proc) >= HeaderPages
                         ELSE Len(headers) = Kept(proc) /\ Len(headers) <= HeaderPages
    /\ ~headersDone => ring = {}
    /\ \A x \in ring : InStream(x)

Whole(s, p) ==
    Len(s) = HeaderPages /\ \A i \in 1 .. HeaderPages : s[i] = [proc |-> p, n |-> i]

\* Of the connections that have begun to send, those whose generation is the
\* current one are in step with the ring, and the others finish what they hold.
Following(l) ==
    /\ gen[l] <= generation
    /\ stage[l] = "greeting" =>
          /\ \E p \in Procs : Whole(greeting[l], p)
          /\ gen[l] = generation => headersDone /\ Whole(greeting[l], proc)
    /\ stage[l] \in {"streaming", "sending"} =>
          /\ heard[l] \in Pages /\ heard[l].n >= HeaderPages
          /\ gen[l] = generation =>
                /\ headersDone /\ heard[l].proc = proc
                /\ \/ heard[l].n = HeaderPages
                   \/ seq - last[l] = Kept(proc) - heard[l].n
    /\ stage[l] = "sending" =>
          /\ \A x \in pending[l] :
                x.page.proc = heard[l].proc /\ x.page.n > heard[l].n
          /\ \A x, y \in pending[l] : x.seq < y.seq <=> x.page.n < y.page.n
          /\ gen[l] = generation => \A x \in pending[l] : InStream(x)

StreamInv == Births /\ OwnPages /\ \A l \in Listeners : Following(l)

Attached == {l \in Listeners : stage[l] # "out"}

CountInv == listeners = Cardinality(Attached) /\ (listeners = 0 => proc = NoProc)
=============================================================================
