----------------------------- MODULE Recording -----------------------------
(***************************************************************************)
(* The AVI of a window of the ring (`buffer_avi`): what it refuses, whose  *)
(* frames it shows, and how often it repeats each to play in time.         *)
(*                                                                         *)
(* The ring is copied under its lock, and the rest is computed from the    *)
(* copy.  A frame is the time it arrived at, which orders as its number    *)
(* does, so that a ring is a set of times and a recording says how often   *)
(* each is written; FrameRing says how the ring loses frames, here any but *)
(* the newest may go.  Left out: the bytes.                                *)
(***************************************************************************)
EXTENDS Integers, FiniteSets

CONSTANTS
    Ends,       \* bound: times run to here
    Gap,        \* bound: the longest time between two frames
    Longest     \* repeats of one frame: five seconds of them

RecordingAssumption == Ends \in Nat \ {0} /\ Gap \in Nat \ {0} /\ Longest \in Nat \ {0}

VARIABLES ring

TypeOK == ring \subseteq 1 .. Ends

Init == ring = {}

Newest == CHOOSE t \in ring : \A s \in ring : s <= t

Capture(gap) ==
    LET t == IF ring = {} THEN gap ELSE Newest + gap
    IN t <= Ends /\ ring' = ring \cup {t}

\* Too old, or thinned.
Lose(t) ==
    /\ t \in ring /\ t # Newest
    /\ ring' = ring \ {t}

Next ==
    \/ \E gap \in 1 .. Gap : Capture(gap)
    \/ \E t \in 1 .. Ends : Lose(t)

Spec == Init /\ [][Next]_ring

-----------------------------------------------------------------------------
(* The AVI. *)

\* The frames with one after them, and how long after.
Later(items, t) == {s \in items : s > t}
Followed(items) == {t \in items : Later(items, t) # {}}
Wait(items, t) == (CHOOSE s \in Later(items, t) : \A u \in Later(items, t) : s <= u) - t
Waits(items) == {Wait(items, t) : t \in Followed(items)}

\* Most of them wait no longer than this.
Most(items, wait) ==
    Cardinality({t \in Followed(items) : Wait(items, t) <= wait})
        > Cardinality(Followed(items)) \div 2

\* The upper median of the gaps is the time of a frame; the code divides by it
\* to have a rate, from 1 to 30.
Median(items) ==
    IF Followed(items) = {} THEN 1
    ELSE CHOOSE wait \in Waits(items) :
            /\ Most(items, wait)
            /\ \A less \in Waits(items) : Most(items, less) => wait <= less

\* Python's round of n / d: to the even one in the middle.
Rounded(n, d) ==
    LET q == n \div d
    IN IF 2 * (n % d) > d \/ (2 * (n % d) = d /\ q % 2 = 1) THEN q + 1 ELSE q

Times(gap, med) ==
    LET n == Rounded(gap, med)
    IN IF n < 1 THEN 1 ELSE IF n > Longest THEN Longest ELSE n

\* How often each frame is written, one after the other.
Repeated(items) ==
    LET med == Median(items)
    IN [t \in items |-> Times(IF t \in Followed(items) THEN Wait(items, t) ELSE med, med)]

\* Mutant: the frame before the caller's start is taken along.
OursAndBefore(items, since) == {t \in items : t + 1 >= since}

Ours(items, since) == {t \in items : t >= since}

\* The frames of the AVI, or why there is none.
BufferAvi(first, last, since, clip) ==
    LET items == {s \in ring : first <= s /\ s <= last}
        foreign == \E s \in items : s < since
    IN CASE items = {} -> [error |-> "the buffer is empty"]
         [] foreign /\ ~clip -> [refused |-> "window_precedes_caller"]
         [] foreign /\ clip /\ Ours(items, since) = {} -> [refused |-> "nothing_after_since"]
         [] OTHER -> [written |-> Repeated(IF foreign THEN Ours(items, since) ELSE items)]

-----------------------------------------------------------------------------
(* What must hold. *)

\* A recording made with `since` shows the caller's frames, all of them and none
\* of the run before, none for longer than five seconds, and an even ring
\* without repeats.
RecordingIsTheCallers ==
    \A since \in 1 .. Ends, first \in {0, 2}, clip \in BOOLEAN :
        LET avi == BufferAvi(first, Ends, since, clip)
            mine == {s \in ring : s >= since /\ s >= first}
        IN "written" \in DOMAIN avi =>
             /\ DOMAIN avi.written = mine
             /\ \A t \in mine : avi.written[t] \in 1 .. Longest
             /\ (\A t, u \in Followed(mine) : Wait(mine, t) = Wait(mine, u))
                => \A t \in mine : avi.written[t] = 1
=============================================================================
