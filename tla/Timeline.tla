------------------------------ MODULE Timeline ------------------------------
(***************************************************************************)
(* What is read back out of the ring of frames while it goes on filling:   *)
(* the timeline with its scores of change, which requests compute from a   *)
(* snapshot and keep in a cache they share.                                *)
(*                                                                         *)
(* A request copies the ring under the ring's lock, reads which frames the *)
(* cache knows under the cache's lock, then decodes one frame after the    *)
(* other and takes the lock only to note each score.  A frame is its       *)
(* number, which is also its time; a score is the number of the frame it   *)
(* was compared with.  FrameRing says how the ring loses frames; here any  *)
(* but the newest may go.                                                  *)
(***************************************************************************)
EXTENDS Integers, Sequences

CONSTANTS
    Pages,      \* requests for the timeline that may run at once
    Frames,     \* bound: frames ever captured
    Room        \* bound: frames in the ring

TimelineAssumption == Frames \in Nat \ {0} /\ Room \in Nat \ {0}

VARIABLES
    ring,       \* numbers of the frames in the ring, oldest first
    seq,        \* number of the newest frame
    bad,        \* frames that do not decode
    chg,        \* _chg: the frame each frame was compared with, or None
    job         \* what each request is at

vars == <<ring, seq, bad, chg, job>>

None == 0
Idle == [at |-> "idle"]

\* A request: its snapshot, the frames known when it began, where it began,
\* the frame to decode, and the last one decoded (None at first and after a
\* frame that broke).
Opened == [at : {"opened"}, items : Seq(1 .. Frames)]
Scoring == [at : {"scoring"}, items : Seq(1 .. Frames), known : SUBSET (1 .. Frames),
            i : Nat \ {0}, prev : 0 .. Frames]

\* The frames of a ring or of a copy of it.
Shown(items) == {items[i] : i \in DOMAIN items}

TypeOK ==
    /\ ring \in Seq(1 .. Frames) /\ Len(ring) <= Room
    /\ seq \in 0 .. Frames /\ bad \subseteq 1 .. Frames
    /\ DOMAIN chg \subseteq 1 .. Frames /\ \A s \in DOMAIN chg : chg[s] \in 0 .. Frames
    /\ job \in [Pages -> {Idle} \cup Opened \cup Scoring]

Init ==
    /\ ring = <<>> /\ seq = 0 /\ bad = {}
    /\ chg = <<>>
    /\ job = [p \in Pages |-> Idle]

-----------------------------------------------------------------------------
(* The ring. *)

Capture(decodes) ==
    /\ seq < Frames /\ Len(ring) < Room
    /\ seq' = seq + 1 /\ ring' = Append(ring, seq + 1)
    /\ bad' = IF decodes THEN bad ELSE bad \cup {seq + 1}
    /\ UNCHANGED <<chg, job>>

\* Too old, or thinned.
Lose(i) ==
    /\ i \in 1 .. Len(ring) - 1
    /\ ring' = [j \in 1 .. Len(ring) - 1 |-> ring[IF j < i THEN j ELSE j + 1]]
    /\ UNCHANGED <<seq, bad, chg, job>>

-----------------------------------------------------------------------------
(* The timeline. *)

Open(p) ==
    /\ job[p] = Idle
    /\ job' = [job EXCEPT ![p] = [at |-> "opened", items |-> ring]]
    /\ UNCHANGED <<ring, seq, bad, chg>>

\* Where the first frame without a score is, or past the end.
FirstUnscored(items, known) ==
    CHOOSE i \in 1 .. Len(items) + 1 :
        /\ i <= Len(items) => items[i] \notin known
        /\ \A j \in 1 .. i - 1 : items[j] \in known

\* Mutant: the first frame without a score is the first that is decoded.
FromUnscored(items, known) == FirstUnscored(items, known)

\* "One frame EARLIER than the first unscored one, because a difference needs
\* something to differ from."
From(items, known) ==
    LET new == FirstUnscored(items, known)
    IN IF new \in 2 .. Len(items) THEN new - 1 ELSE new

Begin(p) ==
    /\ job[p].at = "opened"
    /\ LET items == job[p].items
       IN job' = [job EXCEPT ![p] = [at |-> "scoring", items |-> items,
                    known |-> DOMAIN chg, i |-> From(items, DOMAIN chg), prev |-> None]]
    /\ UNCHANGED <<ring, seq, bad, chg>>

\* setdefault: a score that is there stays.
Noted(s, score) ==
    [k \in DOMAIN chg \cup {s} |-> IF k # s THEN chg[k]
                                   ELSE IF score = None /\ s \in DOMAIN chg THEN chg[s] ELSE score]

\* Mutant: after a frame that broke, the next is compared with the one before.
PrevAcross(s, prev) == IF s \in bad THEN prev ELSE s

PrevOf(s, prev) == IF s \in bad THEN None ELSE s

Score(p) ==
    /\ job[p].at = "scoring" /\ job[p].i <= Len(job[p].items)
    /\ LET s == job[p].items[job[p].i]
       IN /\ chg' = Noted(s, IF s \in bad THEN None ELSE job[p].prev)
          /\ job' = [job EXCEPT ![p].i = @ + 1, ![p].prev = PrevOf(s, @)]
    /\ UNCHANGED <<ring, seq, bad>>

\* What is not in this snapshot is pruned, and the answer is a copy.
Answer(p) ==
    /\ job[p].at = "scoring" /\ job[p].i > Len(job[p].items)
    /\ chg' = [s \in DOMAIN chg \cap Shown(job[p].items) |-> chg[s]]
    /\ job' = [job EXCEPT ![p] = Idle]
    /\ UNCHANGED <<ring, seq, bad>>

Next ==
    \/ \E decodes \in BOOLEAN : Capture(decodes)
    \/ \E i \in 1 .. Room : Lose(i)
    \/ \E p \in Pages : Open(p) \/ Begin(p) \/ Score(p) \/ Answer(p)

Spec == Init /\ [][Next]_vars

-----------------------------------------------------------------------------
(* What must hold. *)

\* "How much each frame differs from the one before it": a score never skips a
\* frame that is in the ring, whatever was lost, whatever broke, and whichever
\* request noted it last.
ScoreSkipsNothing ==
    \A s \in DOMAIN chg : chg[s] # None => \A f \in Shown(ring) : ~ (chg[s] < f /\ f < s)

\* A frame nobody had scored, after one that decodes, gets a score: otherwise
\* the timeline would show none for it as long as it is in the ring.
NewIsScored ==
    [][\A p \in Pages :
          job[p].at = "scoring" /\ job'[p].at = "scoring" /\ job'[p].i # job[p].i
          => LET i == job[p].i
                 items == job[p].items
             IN i > 1 /\ items[i] \notin job[p].known /\ {items[i], items[i - 1]} \cap bad = {}
                => chg'[items[i]] # None]_vars

\* "The ring is append-only, so a frame's score cannot change"
\* (vcctrld.py:5122).  Not so with two requests at once: frames are thinned
\* away between their snapshots.
ScoreStays ==
    [][\A s \in DOMAIN chg \cap DOMAIN chg' : chg[s] # None => chg'[s] = chg[s]]_vars
=============================================================================
