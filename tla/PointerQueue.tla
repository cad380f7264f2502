---------------------------- MODULE PointerQueue ----------------------------
(***************************************************************************)
(* Moves of the pointer by pixels (mouse_px): requests add to one pending  *)
(* move, and a worker sends what is pending, if the input lock does not    *)
(* stand in the way of whoever added to it last.  A request either returns *)
(* at once (`queue`) or waits until the worker is done with its move, 15 s *)
(* at most.  What the worker sends is cut into steps the board can follow; *)
(* what it may not or cannot send it drops, and answers all the same.      *)
(*                                                                         *)
(* One axis is modelled, and moves of one pixel either way: moves merge,   *)
(* and may cancel each other.                                              *)
(***************************************************************************)
EXTENDS Integers, FiniteSets

CONSTANTS
    Threads,    \* connections that carry a request
    Owners,     \* identities
    As,         \* each thread's identity
    NoOwner,
    Far,        \* bound: how far the pending move goes
    Calls,      \* bound: how many requests there are
    Widest      \* a longer move is cut into steps (MOUSE_MAX_STEP)

QueueAssumption ==
    /\ As \in [Threads -> Owners] /\ NoOwner \notin Owners
    /\ Far \in Nat /\ Calls \in Nat /\ Widest \in Nat \ {0}

VARIABLES
    owner,      \* Arbiter.owner
    pq,         \* the pending move
    who,        \* _pq_who
    seq, done,  \* _pq_seq, _pq_done
    hand,       \* the move the worker has taken: its number, its length, the steps sent
                \* of it and the pixels that are left
    wait,       \* each thread's request: its number and whether it waits
    owed,       \* history: pixels asked for, neither sent nor dropped
    gone,       \* history: the requests whose move the worker has dealt with
    dropped     \* history: of these, the ones whose move it did not send to its end

vars == <<owner, pq, who, seq, done, hand, wait, owed, gone, dropped>>

None == [at |-> "none", px |-> 0, all |-> 0, step |-> 0, seq |-> 0, who |-> NoOwner,
         carries |-> {}]
NotIn == [at |-> "out", mine |-> 0]
Between(a, b) == {n \in 1 .. Calls : a < n /\ n <= b}

TypeOK ==
    /\ owner \in Owners \cup {NoOwner} /\ who \in Owners \cup {NoOwner}
    /\ pq \in -Far .. Far /\ {seq, done} \subseteq 0 .. Calls
    /\ hand.at \in {"none", "taken", "sending", "sent"} /\ {hand.px, hand.all} \subseteq -Far .. Far
    /\ hand.step \in 0 .. Far
    /\ \A t \in Threads : wait[t].at \in {"out", "waits"} /\ wait[t].mine \in 0 .. Calls
    /\ dropped \subseteq gone /\ gone \subseteq 1 .. Calls

Init ==
    /\ owner = NoOwner /\ pq = 0 /\ who = NoOwner /\ seq = 0 /\ done = 0
    /\ hand = None /\ wait = [t \in Threads |-> NotIn]
    /\ owed = 0 /\ gone = {} /\ dropped = {}

-----------------------------------------------------------------------------
(* The input lock changes hands elsewhere. *)

LockChanges ==
    /\ owner' \in Owners \cup {NoOwner}
    /\ UNCHANGED <<pq, who, seq, done, hand, wait, owed, gone, dropped>>

MayDrive(o) == owner \in {NoOwner, o}

\* mouse_px is among the commands the dispatcher checks.
Move(t, d, queue) ==
    /\ wait[t] = NotIn /\ MayDrive(As[t])
    /\ seq < Calls /\ pq + d \in -Far .. Far
    /\ pq' = pq + d /\ who' = As[t] /\ seq' = seq + 1
    /\ wait' = IF queue THEN wait ELSE [wait EXCEPT ![t] = [at |-> "waits", mine |-> seq']]
    /\ owed' = owed + d
    /\ UNCHANGED <<owner, done, hand, gone, dropped>>

Returns(t) ==
    /\ wait[t].at = "waits" /\ done >= wait[t].mine
    /\ wait' = [wait EXCEPT ![t] = NotIn]
    /\ UNCHANGED <<owner, pq, who, seq, done, hand, owed, gone, dropped>>

\* "still moving after 15 s"
TimesOut(t) ==
    /\ wait[t].at = "waits" /\ done < wait[t].mine
    /\ wait' = [wait EXCEPT ![t] = NotIn]
    /\ UNCHANGED <<owner, pq, who, seq, done, hand, owed, gone, dropped>>

-----------------------------------------------------------------------------
(* The worker. *)

\* Nothing is pending: whoever waits has nothing to wait for, his move and a
\* later one having cancelled each other.
Rest ==
    /\ hand = None /\ pq = 0 /\ done # seq
    /\ done' = seq
    /\ gone' = gone \cup Between(done, seq)
    /\ UNCHANGED <<owner, pq, who, seq, hand, wait, owed, dropped>>

\* Mutant: what is pending is cleared when it has been sent.
TakeAndKeep ==
    /\ hand = None /\ pq # 0
    /\ hand' = [at |-> "taken", px |-> pq, all |-> pq, step |-> 0, seq |-> seq, who |-> who,
                carries |-> Between(done, seq)]
    /\ UNCHANGED <<owner, pq, who, seq, done, wait, owed, gone, dropped>>

Take ==
    /\ hand = None /\ pq # 0
    /\ hand' = [at |-> "taken", px |-> pq, all |-> pq, step |-> 0, seq |-> seq, who |-> who,
                carries |-> Between(done, seq)]
    /\ pq' = 0
    /\ UNCHANGED <<owner, who, seq, done, wait, owed, gone, dropped>>

\* The lock is asked for the last to add to the move.
Check ==
    /\ hand.at = "taken"
    /\ IF MayDrive(hand.who)
       THEN hand' = [hand EXCEPT !.at = "sending"] /\ UNCHANGED <<owed, gone, dropped>>
       ELSE /\ hand' = [hand EXCEPT !.at = "sent", !.px = 0]
            /\ owed' = owed - hand.px
            /\ gone' = gone \cup hand.carries /\ dropped' = dropped \cup hand.carries
    /\ UNCHANGED <<owner, pq, who, seq, done, wait>>

Abs(n) == IF n < 0 THEN -n ELSE n
StepCount(px) == IF Abs(px) > Widest THEN (Abs(px) + Widest - 1) \div Widest ELSE 1

\* Mutant: each step is rounded down.
StepRounded(px, n, i) == px \div n

\* Step i of n, differences of rounded totals.
Step(px, n, i) == ((px * (i + 1)) \div n) - ((px * i) \div n)

\* One report after the other, and time for requests in between.
SendStep ==
    /\ hand.at = "sending"
    /\ LET n == StepCount(hand.all)
           px == Step(hand.all, n, hand.step)
           last == hand.step + 1 = n
       IN  /\ hand' = [hand EXCEPT !.at = IF last THEN "sent" ELSE "sending",
                                   !.px = @ - px, !.step = @ + 1]
           /\ owed' = owed - px
           /\ gone' = IF last THEN gone \cup hand.carries ELSE gone
    /\ UNCHANGED <<owner, pq, who, seq, done, wait, dropped>>

\* A report cannot be written: what is left of the move is dropped.
SendFails ==
    /\ hand.at = "sending"
    /\ hand' = [hand EXCEPT !.at = "sent", !.px = 0]
    /\ owed' = owed - hand.px
    /\ gone' = gone \cup hand.carries /\ dropped' = dropped \cup hand.carries
    /\ UNCHANGED <<owner, pq, who, seq, done, wait>>

\* Mutant: everything asked for by now is said to be sent.
SentAll ==
    /\ hand.at = "sent"
    /\ done' = seq
    /\ hand' = None
    /\ UNCHANGED <<owner, pq, who, seq, wait, owed, gone, dropped>>

Sent ==
    /\ hand.at = "sent"
    /\ done' = IF done < hand.seq THEN hand.seq ELSE done
    /\ hand' = None
    /\ UNCHANGED <<owner, pq, who, seq, wait, owed, gone, dropped>>

Next ==
    \/ LockChanges \/ Rest \/ Take \/ Check \/ SendStep \/ SendFails \/ Sent
    \/ \E t \in Threads :
          \/ \E d \in {-1, 1}, queue \in BOOLEAN : Move(t, d, queue)
          \/ Returns(t) \/ TimesOut(t)

Spec == Init /\ [][Next]_vars

-----------------------------------------------------------------------------
(* What must hold. *)

\* Merging loses no pixel and sends none twice: what was asked for and has been
\* neither sent nor dropped is pending or in the worker's hand, whatever arrives
\* while the worker is busy and however the move is cut into steps.
NothingLost == owed = pq + hand.px

\* A request that comes back as sent comes back when the worker is done with its
\* own move, so that a click never overtakes a move that is still to be sent.
SentComesAfter ==
    [][\A t \in Threads : wait[t].at = "waits" /\ wait'[t] = NotIn /\ done >= wait[t].mine
          => wait[t].mine \in gone]_vars

\* "the call returns once everything pending, its own move included, is sent"
\* (vcctrld.py:12552-12553): not one that was dropped (12602-12603, 12572-12573).
SentMeansSent ==
    [][\A t \in Threads : wait[t].at = "waits" /\ wait'[t] = NotIn /\ done >= wait[t].mine
          => wait[t].mine \in gone \ dropped]_vars

\* A pending move "is dropped if the input lock has passed to someone else"
\* (vcctrld.py:12555): not one that somebody else has added to since.
OthersMovesDropped ==
    [][hand'.at = "sending" => \A t \in Threads :
          wait[t].mine \in hand.carries => MayDrive(As[t])]_vars
=============================================================================
