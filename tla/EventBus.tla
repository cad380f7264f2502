------------------------------ MODULE EventBus ------------------------------
(***************************************************************************)
(* The bus: the daemon numbers what it does and keeps the newest events in *)
(* a ring, and the operator's page and the public mirror page through it.  *)
(* A reply carries the oldest events after the number that was asked for,  *)
(* a page of them at most, and says whether some were gone by then.        *)
(***************************************************************************)
EXTENDS Naturals, Sequences

CONSTANTS
    Cap,        \* events the ring keeps
    Page,       \* events a reply carries
    MaxSeq      \* bound: events on the bus of one daemon

BusAssumption == Cap \in Nat \ {0} /\ Page \in Nat \ {0} /\ MaxSeq \in Nat

VARIABLES
    seq,        \* Bus.seq
    events,     \* Bus.events: the numbers of the events in the ring
    at,         \* the number each reader asks from
    given       \* history: what each reader got since it was last told of a gap; a
                \* restart of the daemon is 0, for one who asked before it

vars == <<seq, events, at, given>>

Readers == {"page", "mirror"}

TypeOK ==
    /\ seq \in 0 .. MaxSeq /\ events \in Seq(1 .. MaxSeq) /\ Len(events) <= Cap
    /\ at \in [Readers -> 0 .. MaxSeq] /\ given \in [Readers -> SUBSET (0 .. MaxSeq)]

Init ==
    /\ seq = 0 /\ events = <<>>
    /\ at = [r \in Readers |-> 0] /\ given = [r \in Readers |-> {}]

-----------------------------------------------------------------------------

\* What does not fit falls off at the old end.
Publish ==
    /\ seq < MaxSeq
    /\ seq' = seq + 1
    /\ LET longer == Append(events, seq')
       IN  events' = IF Len(longer) > Cap THEN Tail(longer) ELSE longer
    /\ UNCHANGED <<at, given>>

Oldest == IF events = <<>> THEN 0 ELSE events[1]

\* since(): positions of the events of a reply.  The ring is in the order of the
\* numbers, so those after `from` are its end.
Answered(from) ==
    {i \in DOMAIN events :
        events[i] > from /\ \A j \in DOMAIN events : events[j] > from => i < j + Page}

\* Mutant: a reader whose next event is the first to be gone is told nothing.
MissedByTwo(from) == from # 0 /\ from + 2 < Oldest

\* since() says that a reader fell off the back of the ring.
Missed(from) == from # 0 /\ from + 1 < Oldest

Gets(r) ==
    LET reply == {events[i] : i \in Answered(at[r])}
    IN  given' = [given EXCEPT ![r] = IF Missed(at[r]) THEN reply ELSE @ \cup reply]

\* The page goes on from the last event it got.
PagePolls ==
    /\ Gets("page")
    /\ LET reply == {events[i] : i \in Answered(at["page"])}
       IN  \/ reply = {} /\ UNCHANGED at
           \/ \E n \in reply : /\ \A m \in reply : m <= n
                               /\ at' = [at EXCEPT !["page"] = n]
    /\ UNCHANGED <<seq, events>>

\* The mirror goes on from the newest number, whatever the reply carried.
MirrorPolls ==
    /\ Gets("mirror")
    /\ at' = [at EXCEPT !["mirror"] = seq]
    /\ UNCHANGED <<seq, events>>

\* The daemon restarts with an empty ring, and numbers its events anew.
Restart ==
    /\ seq' = 0 /\ events' = <<>>
    /\ given' = [r \in Readers |-> IF at[r] = 0 THEN {} ELSE {0}]
    /\ UNCHANGED at

\* The page is loaded again.
Reload ==
    /\ at' = [at EXCEPT !["page"] = 0] /\ given' = [given EXCEPT !["page"] = {}]
    /\ UNCHANGED <<seq, events>>

Next == Publish \/ PagePolls \/ MirrorPolls \/ Restart \/ Reload

Spec == Init /\ [][Next]_vars

-----------------------------------------------------------------------------
(* What must hold. *)

Unbroken(S) == \A m, n \in S : m .. n \subseteq S

\* What the page got since it was last told of a gap has none ("rather than letting
\* it believe it has a complete history", vcctrld.py:2361), unless it goes on from
\* the numbers of an earlier daemon.
PageIsTold == 0 \notin given["page"] => Unbroken(given["page"])

\* The same of every page.  Not so: one that does not learn of a restart is not given
\* the first events of the new daemon, nor told.
PageIsToldOfRestarts == Unbroken(given["page"])

\* "right for a pager walking forward (the page and the public mirror both do)"
\* (vcctrld.py:2363-2364).  Not so: the mirror does not walk.
MirrorWalks == 0 \notin given["mirror"] => Unbroken(given["mirror"])
=============================================================================
