----------------------------- MODULE FrameRing -----------------------------
(***************************************************************************)
(* The ring of captured frames of the video capability: pushing a frame,   *)
(* ageing, thinning and the cap in bytes, the length the operator asks for *)
(* (`buffer`), and the leases that hold the ring still (`pin`), which the  *)
(* watchdog ends when nobody renews them.                                  *)
(*                                                                         *)
(* Everything here happens under the capability's lock, so a command is a  *)
(* step.  A frame is its age and its size; ages are counted to one more    *)
(* than the longest span, since older frames are treated alike.  Left out: *)
(* the numbers of frames, the counters that are only shown, and the AVI.   *)
(***************************************************************************)
EXTENDS Naturals, Sequences

CONSTANTS
    Holders,    \* names a lease is taken under
    Sizes,      \* sizes of frames
    Budgets,    \* what `buffer` may ask for: spans with the bytes they are given
    MinCap,     \* the cap however little memory is left (4 MB)
    Headrooms,  \* what memory may leave above MEM_FLOOR_MB
    Few,        \* a shorter ring is not thinned (8); a third of it holds two
    Timeout     \* PIN_TIMEOUT_S

RingAssumption ==
    /\ Sizes \subseteq Nat \ {0} /\ Headrooms \subseteq Nat /\ MinCap \in Nat
    /\ Budgets # {} /\ Budgets \subseteq [span : Nat, bytes : Nat]
    /\ Few \in Nat /\ Few >= 6 /\ Timeout \in Nat

VARIABLES
    ring,       \* frames, oldest first
    bytes,      \* ring_bytes
    budget,     \* TARGET_SPAN_S and RING_BYTES
    pins,       \* pin_holders: the age of each lease, or Free
    cap         \* the cap of the last push

vars == <<ring, bytes, budget, pins, cap>>

Free == Timeout + 2
Pinned == \E h \in Holders : pins[h] # Free
Spans == {b.span : b \in Budgets}
Longest == CHOOSE s \in Spans : \A t \in Spans : t <= s
Aged(n, limit) == IF n < limit THEN n + 1 ELSE n

TypeOK ==
    /\ ring \in Seq([age : Nat, size : Sizes])
    /\ bytes \in Nat /\ budget \in Budgets /\ cap \in Nat
    /\ pins \in [Holders -> 0 .. Timeout + 2]

Init ==
    /\ ring = <<>> /\ bytes = 0
    /\ budget \in Budgets /\ cap = budget.bytes
    /\ pins = [h \in Holders |-> Free]

-----------------------------------------------------------------------------
(* Pushing. *)

\* Memory that is short limits the ring, but never below MinCap.
CapFor(headroom) ==
    IF headroom < budget.bytes THEN (IF headroom < MinCap THEN MinCap ELSE headroom)
                               ELSE budget.bytes

\* What the loops of a push work on: a ring with its count of bytes.
Popped(r) == [fs |-> Tail(r.fs), n |-> r.n - Head(r.fs).size]

Total(fs) ==
    LET sum[i \in 0 .. Len(fs)] == IF i = 0 THEN 0 ELSE sum[i - 1] + fs[i].size
    IN  sum[Len(fs)]

\* Every other frame of the oldest third goes, the oldest stays.
Half(fs) == (Len(fs) \div 3) \div 2
Kept(fs) ==
    [j \in 1 .. Len(fs) - Half(fs) |-> fs[IF j <= Half(fs) THEN 2 * j - 1 ELSE j + Half(fs)]]
Freed(fs) == [j \in 1 .. Half(fs) |-> fs[2 * j]]

\* Mutant: the last frame of the ring is counted as freed, too.
ThinnedAndMore(r) == [fs |-> Kept(r.fs), n |-> r.n - Total(Freed(r.fs)) - 1]

Thinned(r) == [fs |-> Kept(r.fs), n |-> r.n - Total(Freed(r.fs))]

Overdue(r) == Head(r.fs).age > budget.span

\* A loop goes round as long as it has to: a round that has something to do
\* takes a frame at least, and one that has not changes nothing.
Rounds(r, Once(_)) ==
    LET after[k \in 0 .. Len(r.fs)] == IF k = 0 THEN r ELSE Once(after[k - 1])
    IN  after[Len(r.fs)]

ExpireOnce(r) == IF Len(r.fs) > 1 /\ Overdue(r) THEN Popped(r) ELSE r
Expired(r) == Rounds(r, ExpireOnce)

\* Mutant: the oldest goes whatever there is.
ShorterPopped(r) == Popped(r)

Shorter(r) ==
    IF Overdue(r) \/ Len(r.fs) < Few \/ Thinned(r).n >= r.n THEN Popped(r) ELSE Thinned(r)

FitOnce(r, limit) == IF r.n > limit /\ Len(r.fs) > 1 THEN Shorter(r) ELSE r
Fitted(r, limit) == Rounds(r, LAMBDA x : FitOnce(x, limit))

Pushed(frame, limit) ==
    Fitted(Expired([fs |-> Append(ring, frame), n |-> bytes + frame.size]), limit)

Adds(frame, limit) ==
    LET r == Pushed(frame, limit) IN ring' = r.fs /\ bytes' = r.n

\* Mutant: a pinned ring takes frames until it is over the cap.
PushWhenFull(size, headroom) ==
    /\ cap' = CapFor(headroom)
    /\ IF Pinned /\ bytes > cap' THEN UNCHANGED <<ring, bytes>>
                                 ELSE Adds([age |-> 0, size |-> size], cap')
    /\ UNCHANGED <<budget, pins>>

\* A pinned ring that is full drops the new frame.
Push(size, headroom) ==
    /\ cap' = CapFor(headroom)
    /\ IF Pinned /\ bytes + size > cap' THEN UNCHANGED <<ring, bytes>>
                                        ELSE Adds([age |-> 0, size |-> size], cap')
    /\ UNCHANGED <<budget, pins>>

-----------------------------------------------------------------------------
(* The commands, and time. *)

Buffer ==
    /\ budget' \in Budgets
    /\ UNCHANGED <<ring, bytes, pins, cap>>

PinOn(h) ==
    /\ pins' = [pins EXCEPT ![h] = 0]
    /\ UNCHANGED <<ring, bytes, budget, cap>>

PinOff(h) ==
    /\ pins' = [pins EXCEPT ![h] = Free]
    /\ UNCHANGED <<ring, bytes, budget, cap>>

\* `off` with no holder clears every lease.
PinOffAll ==
    /\ pins' = [h \in Holders |-> Free]
    /\ UNCHANGED <<ring, bytes, budget, cap>>

\* Mutant: leases end when none has been renewed.
ExpireTogether ==
    /\ \E h \in Holders : pins[h] = Timeout + 1
    /\ pins' = [h \in Holders |->
          IF \A g \in Holders : pins[g] > Timeout THEN Free ELSE pins[h]]
    /\ UNCHANGED <<ring, bytes, budget, cap>>

Expire ==
    /\ \E h \in Holders : pins[h] = Timeout + 1
    /\ pins' = [h \in Holders |-> IF pins[h] > Timeout THEN Free ELSE pins[h]]
    /\ UNCHANGED <<ring, bytes, budget, cap>>

Tick ==
    /\ ring' = [i \in DOMAIN ring |-> [ring[i] EXCEPT !.age = Aged(@, Longest + 1)]]
    /\ pins' = [h \in Holders |-> Aged(pins[h], IF pins[h] = Free THEN 0 ELSE Timeout + 1)]
    /\ UNCHANGED <<bytes, budget, cap>>

Next ==
    \/ \E size \in Sizes, headroom \in Headrooms : Push(size, headroom)
    \/ Buffer \/ PinOffAll \/ Expire \/ Tick
    \/ \E h \in Holders : PinOn(h) \/ PinOff(h)

Spec == Init /\ [][Next]_vars

\* Time passes, and the watchdog goes its rounds.
FairSpec == Spec /\ WF_vars(Tick) /\ WF_vars(Expire)

-----------------------------------------------------------------------------
(* What must hold. *)

\* The count the cap is compared with is the size of what is kept, through
\* every pop and every thinning.
BytesExact == bytes = Total(ring)

\* A push leaves a ring that fits, or one frame.
PushFits == [][Tick \/ UNCHANGED ring \/ bytes' <= cap' \/ Len(ring') = 1]_vars

\* Under a pin nothing is freed to make room: all a pinned ring loses is frames
\* of its old end that are older than the span asked for.
LosesOldOnly ==
    \E cut \in 0 .. Len(ring) :
        /\ \A i \in 1 .. cut : ring[i].age > budget.span
        /\ Len(ring') >= Len(ring) - cut
        /\ \A i \in cut + 1 .. Len(ring) : ring'[i - cut] = ring[i]
PinKeepsRecent == [][Pinned => Tick \/ LosesOldOnly]_vars

\* Room is made in the middle: "Thirty seconds of history survives in every
\* case" (vcctrld.py:4639), as long as there are frames enough to thin.
HistoryKept ==
    [][bytes' # bytes /\ Len(ring') >= Few /\ ring[1].age <= budget.span
          => ring'[1] = ring[1]]_vars

\* A lease that is not renewed ends, whoever else renews his.
AbandonedPinEnds == \A h \in Holders : <>[][~PinOn(h)]_vars => <>[](pins[h] = Free)

\* "Stop eviction so a frame cannot be freed while it is examined"
\* (vcctrld.py:4916).  Not so: under a pin frames go when they are too old.
PinStopsEviction ==
    [][Pinned => Tick \/ /\ Len(ring') >= Len(ring)
                         /\ \A i \in DOMAIN ring : ring'[i] = ring[i]]_vars
=============================================================================
