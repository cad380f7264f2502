----------------------------- MODULE CapsTrack -----------------------------
(***************************************************************************)
(* Caps Lock of a machine that never reports it: the daemon reads the same *)
(* keyboards the target's board reads, flips a latch of its own at each    *)
(* press and saves it, so that it outlives a restart.  The operator sets   *)
(* the latch once from what the target shows.                              *)
(*                                                                         *)
(* A press is an event that the target takes at once and the daemon when   *)
(* it reads the keyboard's node.  Presses are counted up to a bound.  A    *)
(* save that fails is not noticed.                                         *)
(***************************************************************************)
EXTENDS Naturals, FiniteSets

CONSTANTS
    Keyboards,  \* event nodes
    MaxUnread   \* bound: presses waiting to be read at one keyboard

CapsAssumption == IsFiniteSet(Keyboards) /\ MaxUnread \in Nat

VARIABLES
    target,     \* the target's latch
    state,      \* "on", "off" or "unknown"
    saved,      \* the same, on disk
    up,         \* the daemon runs
    there,      \* keyboards that are plugged in
    watching,   \* those the daemon has open
    dead,       \* of these, nodes that are gone, even if the name is back
    unread,     \* presses the daemon has still to read
    missed,     \* history: a press got past the daemon, or it was told untruly
    stale       \* history: what is on disk is "behind", or was when it was "loaded"

vars == <<target, state, saved, up, there, watching, dead, unread, missed, stale>>

Flipped(s) == CASE s = "on" -> "off" [] s = "off" -> "on" [] OTHER -> "unknown"
Unread == {k \in Keyboards : unread[k] > 0}

TypeOK ==
    /\ target \in {"on", "off"} /\ {state, saved} \subseteq {"on", "off", "unknown"}
    /\ up \in BOOLEAN /\ there \subseteq Keyboards /\ dead \subseteq watching /\ watching \subseteq Keyboards
    /\ unread \in [Keyboards -> 0 .. MaxUnread] /\ missed \in BOOLEAN
    /\ stale \in {"no", "behind", "loaded"}

Init ==
    /\ target \in {"on", "off"} /\ state = "unknown" /\ saved = "unknown"
    /\ up = FALSE /\ there \in SUBSET Keyboards /\ watching = {} /\ dead = {}
    /\ unread = [k \in Keyboards |-> 0] /\ missed = FALSE /\ stale = "no"

-----------------------------------------------------------------------------
(* The keyboards. *)

Pressed(k) ==
    /\ k \in there /\ unread[k] < MaxUnread
    /\ target' = Flipped(target)
    /\ IF up /\ k \in watching \ dead
       THEN unread' = [unread EXCEPT ![k] = @ + 1] /\ UNCHANGED missed
       ELSE missed' = TRUE /\ UNCHANGED unread
    /\ UNCHANGED <<state, saved, up, there, watching, dead, stale>>

\* Unplugged or made anew: what was not read is gone.
Replug(k) ==
    /\ there' = IF k \in there THEN there \ {k} ELSE there \cup {k}
    /\ unread' = [unread EXCEPT ![k] = 0]
    /\ missed' = (missed \/ unread[k] > 0)
    /\ dead' = dead \cup ({k} \cap watching)
    /\ UNCHANGED <<target, state, saved, up, watching, stale>>

-----------------------------------------------------------------------------
(* The daemon. *)

\* start() loads what was saved.
Starts ==
    /\ ~up /\ up' = TRUE
    /\ state' = saved
    /\ stale' = IF stale = "behind" THEN "loaded" ELSE stale
    /\ UNCHANGED <<target, saved, there, watching, dead, unread, missed>>

\* Every five seconds: keyboards that have a Caps Lock key.
Scan ==
    /\ up /\ watching' = watching \cup there
    /\ UNCHANGED <<target, state, saved, up, there, dead, unread, missed, stale>>

\* A keyboard that is gone cannot be read, and is dropped.
Drop(k) ==
    /\ up /\ k \in dead
    /\ watching' = watching \ {k} /\ dead' = dead \ {k}
    /\ UNCHANGED <<target, state, saved, up, there, unread, missed, stale>>

\* _save: the old file stays where the new one cannot be written or renamed.
Save ==
    \/ saved' = state' /\ stale' = IF stale = "behind" THEN "no" ELSE stale
    \/ UNCHANGED saved /\ stale' = IF stale = "no" THEN "behind" ELSE stale

\* Mutant: the latch is saved when it is set only.
ReadUnsaved(k) ==
    /\ up /\ k \in watching \ dead /\ unread[k] > 0
    /\ unread' = [unread EXCEPT ![k] = @ - 1]
    /\ state' = Flipped(state)
    /\ UNCHANGED <<target, saved, up, there, watching, dead, missed, stale>>

Read(k) ==
    /\ up /\ k \in watching \ dead /\ unread[k] > 0
    /\ unread' = [unread EXCEPT ![k] = @ - 1]
    /\ state' = Flipped(state) /\ Save
    /\ UNCHANGED <<target, up, there, watching, dead, missed>>

\* What the operator says of a target all of whose presses have been read is
\* true or not; said while a press is unread, it is overtaken by it.
Set(s) ==
    /\ up
    /\ state' = s
    /\ \/ saved' = s /\ stale' = "no"
       \/ UNCHANGED saved /\ stale' = "behind"
    /\ missed' = (s # "unknown" /\ (s # target \/ Unread # {}))
    /\ UNCHANGED <<target, up, there, watching, dead, unread>>

\* The daemon ends: its open nodes go with what was not read from them.
Ends ==
    /\ up /\ up' = FALSE
    /\ watching' = {} /\ dead' = {} /\ unread' = [k \in Keyboards |-> 0]
    /\ missed' = (missed \/ Unread # {})
    /\ UNCHANGED <<target, state, saved, there, stale>>

Next ==
    \/ Starts \/ Scan \/ Ends
    \/ \E s \in {"on", "off", "unknown"} : Set(s)
    \/ \E k \in Keyboards : Pressed(k) \/ Replug(k) \/ Drop(k) \/ Read(k)

Spec == Init /\ [][Next]_vars

-----------------------------------------------------------------------------
(* What must hold. *)

ParityOf(S) == Cardinality({k \in S : unread[k] % 2 = 1}) % 2

AsTheTarget ==
    state = IF ParityOf(Keyboards) = 0 THEN target ELSE Flipped(target)

\* Where no press was missed, the operator told the truth and the daemon has not
\* started from a file a failed save left behind, the tracked latch is the
\* target's, up to the presses still to be read, across restarts of the daemon
\* and keyboards that come and go.
TrackedIsTrue == up /\ state # "unknown" /\ ~missed /\ stale # "loaded" => AsTheTarget

\* "It goes wrong if a press is missed" (vcctrld.py:12661), and only then: not
\* after a restart that loads what a failed save left (12702-12711).
WrongOnlyIfMissed == up /\ state # "unknown" /\ ~missed => AsTheTarget
=============================================================================
