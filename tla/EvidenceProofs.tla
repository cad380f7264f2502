--------------------------- MODULE EvidenceProofs ---------------------------
(***************************************************************************)
(* Proofs about Evidence: the ring of frames, and what is told of it.      *)
(*                                                                         *)
(* Ring.  A push works in loops, and every round takes a frame or leaves   *)
(* things as they are, so as many rounds as there are frames do.  What a   *)
(* round keeps all rounds keep, by induction over the numbers of rounds    *)
(* (a set that has 0 and the successors of its members has every number):  *)
(* that the count is the sum of the sizes, that what is lost is old, that  *)
(* the oldest stays.  Thinning adds up since the sums of what is kept and  *)
(* of what is freed run beside the sum of the whole.                       *)
(*                                                                         *)
(* Timeline.  A request scores from a copy of the ring, and two requests   *)
(* can be at it.  A copy's numbers grow, and a frame the ring still has of *)
(* the copy's time is in the copy, so a neighbour in the copy is what was  *)
(* captured next among what is left.                                       *)
(*                                                                         *)
(* Recordings.  Some wait between frames is in the middle of all waits;    *)
(* when all are equal it is theirs, and every frame is written once.       *)
(*                                                                         *)
(* Bad frames.  Of the threads that have counted a failure at a place and  *)
(* read no number yet, one is not behind; what it names is newer than all  *)
(* names of that place, but for those whose number was read late.          *)
(*                                                                         *)
(* Shots.  The reason fits what was looked at from when it is found.       *)
(***************************************************************************)
EXTENDS Evidence, Integers, FiniteSets, FiniteSetTheorems, WellFoundedInduction, TLAPS

-----------------------------------------------------------------------------
(* Numbers, and steps that are repeated. *)

\* A set of numbers that has any has a least.
LEMMA LeastNumber ==
    ASSUME NEW T \in SUBSET Nat, T # {}
    PROVE  \E x \in T : \A y \in T : x <= y
<1> DEFINE R == OpToRel(<, Nat)
<1>1. IsWellFoundedOn(R, Nat)
  BY NatLessThanWellFounded
<1>2. \A x, y \in Nat : <<x, y>> \in R <=> x < y
  BY DEF OpToRel
<1> HIDE DEF R
<1>3. PICK x \in T : \A y \in T : ~ (<<y, x>> \in R)
  BY <1>1, WFMin
<1>4. \A y \in T : ~ (y < x)
  BY <1>2, <1>3
<1> QED BY <1>3, <1>4

\* Induction, over a set of numbers.
LEMMA NatSetInduction ==
    ASSUME NEW T, 0 \in T, \A n \in Nat : n \in T => n + 1 \in T
    PROVE  Nat \subseteq T
<1> SUFFICES ASSUME ~(Nat \subseteq T) PROVE FALSE
  OBVIOUS
<1>1. Nat \ T # {} /\ Nat \ T \in SUBSET Nat
  OBVIOUS
<1>2. PICK x \in Nat \ T : \A y \in Nat \ T : x <= y
  BY <1>1, LeastNumber
<1>3. x # 0 /\ x - 1 \in Nat /\ x - 1 \in T
  BY <1>2
<1> QED BY <1>2, <1>3

\* f is what comes of r, taking the step n times.
Iterates(f, r, step, n) == f[0] = r /\ \A k \in 1 .. n : f[k] = step[f[k - 1]]

\* A step that stays in a set can be repeated.
LEMMA Repeats ==
    ASSUME NEW S, NEW r \in S, NEW step \in [S -> S], NEW n \in Nat
    PROVE  \E f \in [0 .. n -> S] : Iterates(f, r, step, n)
<1> DEFINE Good(m, f) == Iterates(f, r, step, m)
           T == {m \in Nat : \E f \in [0 .. m -> S] : Good(m, f)}
<1>1. 0 \in T
  <2>1. [k \in 0 .. 0 |-> r] \in [0 .. 0 -> S] /\ Good(0, [k \in 0 .. 0 |-> r])
    BY DEF Iterates
  <2> QED BY <2>1 DEF Iterates
<1>2. \A m \in Nat : m \in T => m + 1 \in T
  <2> TAKE m \in Nat
  <2> HAVE m \in T
  <2>1. PICK f \in [0 .. m -> S] : Good(m, f)
    OBVIOUS
  <2> DEFINE g == [k \in 0 .. m + 1 |-> IF k <= m THEN f[k] ELSE step[f[m]]]
  <2>2. g \in [0 .. m + 1 -> S]
    OBVIOUS
  <2>3. Good(m + 1, g)
    BY <2>1 DEF Iterates
  <2> HIDE DEF g, Good
  <2> QED BY <2>2, <2>3
<1>3. n \in T
  <2> HIDE DEF T
  <2> QED BY <1>1, <1>2, NatSetInduction
<1> QED BY <1>3

-----------------------------------------------------------------------------
(* The sum of the sizes (FrameRing!Total). *)

\* f counts the sizes of fs up, frame by frame.
Sum(fs, f) == f[0] = 0 /\ \A i \in 0 .. Len(fs) - 1 : f[i + 1] = f[i] + fs[i + 1].size

\* Rings.
Fs == Seq([age : Nat, size : Sizes])

\* A frame of a ring has a size, which is not 0.
LEMMA FrameTypes ==
    ASSUME FrameRing!RingAssumption, NEW fs \in Fs
    PROVE  /\ Len(fs) \in Nat
           /\ \A i \in 1 .. Len(fs) : /\ fs[i] \in [age : Nat, size : Sizes]
                                      /\ fs[i].size \in Nat /\ fs[i].size > 0
<1>1. \A i \in 1 .. Len(fs) : fs[i] \in [age : Nat, size : Sizes]
  <2> DEFINE F == [age : Nat, size : Sizes]
  <2>1. fs \in Seq(F)
    BY DEF Fs
  <2> HIDE DEF F
  <2>2. \A i \in 1 .. Len(fs) : fs[i] \in F
    BY <2>1
  <2> QED BY <2>2 DEF F
<1>2. \A f \in [age : Nat, size : Sizes] : f.size \in Sizes
  OBVIOUS
<1>3. \A s \in Sizes : s \in Nat /\ s > 0
  BY DEF FrameRing!RingAssumption
<1> QED BY <1>1, <1>2, <1>3 DEF Fs

\* Every ring has a sum, by induction over its frames.
LEMMA SumExists ==
    ASSUME FrameRing!RingAssumption, NEW fs \in Fs
    PROVE  \E f \in [0 .. Len(fs) -> Nat] : Sum(fs, f)
<1> DEFINE Good(m, f) == f[0] = 0 /\ \A i \in 0 .. m - 1 : f[i + 1] = f[i] + fs[i + 1].size
           T == {m \in Nat : m <= Len(fs) => \E f \in [0 .. m -> Nat] : Good(m, f)}
<1>0. Len(fs) \in Nat /\ \A i \in 1 .. Len(fs) : fs[i].size \in Nat
  BY FrameTypes
<1>1. 0 \in T
  <2>1. [k \in 0 .. 0 |-> 0] \in [0 .. 0 -> Nat] /\ Good(0, [k \in 0 .. 0 |-> 0])
    OBVIOUS
  <2> QED BY <2>1
<1>2. \A m \in Nat : m \in T => m + 1 \in T
  <2> TAKE m \in Nat
  <2> HAVE m \in T
  <2> HIDE DEF Good
  <2>1. ASSUME m + 1 <= Len(fs) PROVE \E f \in [0 .. m + 1 -> Nat] : Good(m + 1, f)
    <3>1. PICK f \in [0 .. m -> Nat] : Good(m, f)
      BY <1>0, <2>1
    <3> DEFINE g == [k \in 0 .. m + 1 |-> IF k <= m THEN f[k] ELSE f[m] + fs[m + 1].size]
    <3>2. fs[m + 1].size \in Nat
      BY <1>0, <2>1
    <3>3. g \in [0 .. m + 1 -> Nat]
      BY <3>2
    <3>4. g[0] = f[0] /\ g[m + 1] = f[m] + fs[m + 1].size
          /\ \A i \in 0 .. m : g[i] = f[i]
      OBVIOUS
    <3>5. Good(m + 1, g)
      <4> HIDE DEF g
      <4>1. ASSUME NEW i \in 0 .. m PROVE g[i + 1] = g[i] + fs[i + 1].size
        <5>1. CASE i < m
          <6>1. g[i + 1] = f[i + 1] /\ g[i] = f[i]
            BY <3>4, <5>1
          <6>2. f[i + 1] = f[i] + fs[i + 1].size
            BY <3>1, <5>1 DEF Good
          <6> QED BY <6>1, <6>2
        <5>2. CASE i = m
          BY <3>4, <5>2
        <5> QED BY <5>1, <5>2
      <4> QED BY <3>1, <3>4, <4>1 DEF Good
    <3> HIDE DEF g
    <3> QED BY <3>3, <3>5
  <2>2. m + 1 \in Nat
    OBVIOUS
  <2> QED BY <2>1, <2>2, Zenon
<1>3. Len(fs) \in T
  <2> HIDE DEF T
  <2> QED BY <1>0, <1>1, <1>2, NatSetInduction
<1> QED BY <1>3 DEF Sum

\* Two sums of one ring are the same.
LEMMA SumUnique ==
    ASSUME FrameRing!RingAssumption, NEW fs \in Fs, NEW f, NEW g, Sum(fs, f), Sum(fs, g)
    PROVE  \A i \in 0 .. Len(fs) : f[i] = g[i]
<1> DEFINE T == {m \in Nat : m <= Len(fs) => f[m] = g[m]}
<1>1. 0 \in T
  BY DEF Sum
<1>2. \A m \in Nat : m \in T => m + 1 \in T
  BY DEF Sum, Fs
<1>3. Nat \subseteq T
  <2> HIDE DEF T
  <2> QED BY <1>1, <1>2, NatSetInduction
<1> QED BY <1>3 DEF Fs

\* The model's function is that sum.
LEMMA TotalIs ==
    ASSUME FrameRing!RingAssumption, NEW fs \in Fs, NEW f, Sum(fs, f)
    PROVE  FrameRing!Total(fs) = f[Len(fs)]
<1> DEFINE body(sum) == [i \in 0 .. Len(fs) |-> IF i = 0 THEN 0 ELSE sum[i - 1] + fs[i].size]
           sum == CHOOSE sum : sum = body(sum)
<1>0. Len(fs) \in Nat
  BY DEF Fs
<1>1. PICK g \in [0 .. Len(fs) -> Nat] : Sum(fs, g)
  BY SumExists
<1>2. g = body(g)
  <2>1. ASSUME NEW i \in 0 .. Len(fs) PROVE g[i] = IF i = 0 THEN 0 ELSE g[i - 1] + fs[i].size
    <3>1. CASE i = 0
      BY <1>1, <3>1 DEF Sum
    <3>2. CASE i # 0
      <4>1. i - 1 \in 0 .. Len(fs) - 1 /\ i - 1 + 1 = i
        BY <1>0, <3>2
      <4> QED BY <1>1, <3>2, <4>1 DEF Sum
    <3> QED BY <3>1, <3>2
  <2> QED BY <2>1
<1>3. sum = body(sum)
  BY <1>2
<1>4. Sum(fs, sum)
  <2> HIDE DEF sum
  <2>1. sum[0] = 0
    BY <1>0, <1>3
  <2>2. ASSUME NEW i \in 0 .. Len(fs) - 1 PROVE sum[i + 1] = sum[i] + fs[i + 1].size
    <3>1. i + 1 \in 0 .. Len(fs) /\ i + 1 # 0 /\ i + 1 - 1 = i
      BY <1>0
    <3> QED BY <1>3, <3>1
  <2> QED BY <2>1, <2>2 DEF Sum
<1>5. FrameRing!Total(fs) = sum[Len(fs)]
  BY DEF FrameRing!Total
<1> HIDE DEF sum
<1> QED BY <1>0, <1>4, <1>5, SumUnique

\* A frame that comes is added,
LEMMA TotalAppend ==
    ASSUME FrameRing!RingAssumption, NEW fs \in Fs, NEW x \in [age : Nat, size : Sizes]
    PROVE  Append(fs, x) \in Fs /\ FrameRing!Total(Append(fs, x)) = FrameRing!Total(fs) + x.size
<1>0. Append(fs, x) \in Fs /\ Len(fs) \in Nat /\ Len(Append(fs, x)) = Len(fs) + 1
      /\ Append(fs, x)[Len(fs) + 1] = x /\ \A i \in 1 .. Len(fs) : Append(fs, x)[i] = fs[i]
  BY DEF Fs
<1>1. PICK f \in [0 .. Len(fs) + 1 -> Nat] : Sum(Append(fs, x), f)
  BY <1>0, SumExists
<1>2. Sum(fs, f)
  BY <1>0, <1>1 DEF Sum
<1>3. FrameRing!Total(fs) = f[Len(fs)]
  BY <1>2, TotalIs
<1>4. FrameRing!Total(Append(fs, x)) = f[Len(fs) + 1]
  BY <1>0, <1>1, TotalIs
<1> QED BY <1>0, <1>1, <1>3, <1>4 DEF Sum

\* and one that goes is taken off.
LEMMA TotalTail ==
    ASSUME FrameRing!RingAssumption, NEW fs \in Fs, Len(fs) > 0
    PROVE  Tail(fs) \in Fs /\ FrameRing!Total(Tail(fs)) = FrameRing!Total(fs) - Head(fs).size
<1>0. /\ Tail(fs) \in Fs /\ Len(fs) \in Nat /\ Len(Tail(fs)) = Len(fs) - 1 /\ Head(fs) = fs[1]
      /\ \A i \in 1 .. Len(fs) - 1 : Tail(fs)[i] = fs[i + 1]
  BY DEF Fs
<1>1. PICK f \in [0 .. Len(fs) -> Nat] : Sum(fs, f)
  BY SumExists
<1> DEFINE g == [i \in 0 .. Len(fs) - 1 |-> f[i + 1] - f[1]]
<1>2. Sum(Tail(fs), g)
  <2>1. g[0] = 0
    BY <1>0, <1>1
  <2>2. ASSUME NEW i \in 0 .. Len(fs) - 2 PROVE g[i + 1] = g[i] + Tail(fs)[i + 1].size
    <3>1. /\ i + 1 \in 0 .. Len(fs) - 1 /\ i \in 0 .. Len(fs) - 1 /\ i + 2 \in 1 .. Len(fs)
          /\ i + 1 \in 1 .. Len(fs) - 1 /\ i + 1 + 1 = i + 2 /\ 1 \in 0 .. Len(fs)
          /\ i + 1 \in 0 .. Len(fs) /\ i + 2 \in 0 .. Len(fs)
      BY <1>0
    <3>2. g[i + 1] = f[i + 2] - f[1] /\ g[i] = f[i + 1] - f[1]
      BY <3>1
    <3>3. f[i + 2] = f[i + 1] + fs[i + 2].size
      BY <1>1, <3>1 DEF Sum
    <3>4. Tail(fs)[i + 1] = fs[i + 2]
      BY <1>0, <3>1
    <3>5. f[i + 1] \in Nat /\ f[1] \in Nat /\ fs[i + 2].size \in Nat
      BY <1>1, <3>1, FrameTypes
    <3> HIDE DEF g
    <3> QED BY <3>2, <3>3, <3>4, <3>5
  <2>3. Len(Tail(fs)) - 1 = Len(fs) - 2
    BY <1>0
  <2> HIDE DEF g
  <2> QED BY <2>1, <2>2, <2>3 DEF Sum
<1>3. FrameRing!Total(fs) = f[Len(fs)]
  BY <1>1, TotalIs
<1>4. FrameRing!Total(Tail(fs)) = g[Len(fs) - 1]
  <2> HIDE DEF g
  <2> QED BY <1>0, <1>2, TotalIs
<1>5. f[1] = fs[1].size /\ f[1] \in Nat /\ f[Len(fs)] \in Nat
  <2>1. 0 \in 0 .. Len(fs) - 1 /\ 0 + 1 = 1 /\ 1 \in 1 .. Len(fs)
    BY <1>0
  <2>2. f[1] = f[0] + fs[1].size /\ f[0] = 0
    BY <1>1, <2>1 DEF Sum
  <2> QED BY <1>0, <1>1, <2>1, <2>2, FrameTypes
<1>6. g[Len(fs) - 1] = f[Len(fs)] - f[1]
  BY <1>0
<1> HIDE DEF g
<1> QED BY <1>0, <1>3, <1>4, <1>5, <1>6

\* A sum of sizes is a number.
LEMMA TotalNat ==
    ASSUME FrameRing!RingAssumption, NEW fs \in Fs
    PROVE  FrameRing!Total(fs) \in Nat
<1>1. PICK f \in [0 .. Len(fs) -> Nat] : Sum(fs, f)
  BY SumExists
<1>2. Len(fs) \in Nat
  BY FrameTypes
<1> QED BY <1>1, <1>2, TotalIs

\* A ring with a frame is not empty to the count.
LEMMA TotalPositive ==
    ASSUME FrameRing!RingAssumption, NEW fs \in Fs, Len(fs) > 0
    PROVE  FrameRing!Total(fs) > 0
<1>1. FrameRing!Total(Tail(fs)) \in Nat /\ FrameRing!Total(Tail(fs)) = FrameRing!Total(fs) - Head(fs).size
  BY TotalTail, TotalNat
<1>2. Head(fs) = fs[1] /\ Head(fs).size \in Nat /\ Head(fs).size > 0
  <2>1. Head(fs) = fs[1] /\ 1 \in 1 .. Len(fs)
    BY DEF Fs
  <2> QED BY <2>1, FrameTypes
<1> QED BY <1>1, <1>2, TotalNat

\* Frames that only grow older weigh the same.
LEMMA TotalSame ==
    ASSUME FrameRing!RingAssumption, NEW fs \in Fs, NEW gs \in Fs, Len(fs) = Len(gs),
           \A i \in 1 .. Len(fs) : fs[i].size = gs[i].size
    PROVE  FrameRing!Total(fs) = FrameRing!Total(gs)
<1>1. PICK f \in [0 .. Len(fs) -> Nat] : Sum(fs, f)
  BY SumExists
<1>2. Sum(gs, f)
  BY <1>1 DEF Sum
<1> QED BY <1>1, <1>2, TotalIs

-----------------------------------------------------------------------------
(* Thinning the oldest third. *)

\* Thinning splits a ring in two, and frees something of six frames.
LEMMA Splits ==
    ASSUME FrameRing!RingAssumption, NEW fs \in Fs
    PROVE  /\ FrameRing!Half(fs) \in Nat /\ 2 * FrameRing!Half(fs) <= Len(fs) /\ (Len(fs) >= 6 => FrameRing!Half(fs) > 0)
           /\ FrameRing!Kept(fs) \in Fs /\ Len(FrameRing!Kept(fs)) = Len(fs) - FrameRing!Half(fs)
           /\ FrameRing!Freed(fs) \in Fs /\ Len(FrameRing!Freed(fs)) = FrameRing!Half(fs)
<1>1. Len(fs) \in Nat
  BY FrameTypes
<1>2. FrameRing!Half(fs) \in Nat /\ 2 * FrameRing!Half(fs) <= Len(fs) /\ (Len(fs) >= 6 => FrameRing!Half(fs) > 0)
  BY <1>1 DEF FrameRing!Half
<1> DEFINE F == [age : Nat, size : Sizes]
<1>3. fs \in Seq(F) /\ Fs = Seq(F)
  BY DEF Fs
<1> HIDE DEF F
<1>4. \A i \in 1 .. Len(fs) : fs[i] \in F
  BY <1>3
<1> DEFINE h == FrameRing!Half(fs)
<1> HIDE DEF h
<1>5. [j \in 1 .. Len(fs) - h |-> fs[IF j <= h THEN 2 * j - 1 ELSE j + h]]
        \in [1 .. Len(fs) - h -> F]
  BY <1>1, <1>2, <1>4 DEF h
<1>6. [j \in 1 .. h |-> fs[2 * j]] \in [1 .. h -> F]
  BY <1>1, <1>2, <1>4 DEF h
<1>7. FrameRing!Kept(fs) \in [1 .. Len(fs) - h -> F] /\ FrameRing!Freed(fs) \in [1 .. h -> F]
  BY <1>5, <1>6 DEF h, FrameRing!Kept, FrameRing!Freed
<1>8. Len(fs) - h \in Nat /\ h \in Nat
  BY <1>1, <1>2 DEF h
<1>9. \A n \in Nat : \A s \in [1 .. n -> F] : s \in Seq(F) /\ Len(s) = n
  OBVIOUS
<1> QED BY <1>2, <1>3, <1>7, <1>8, <1>9 DEF h

\* Thinning takes out what it counts as freed.
LEMMA ThinningAddsUp ==
    ASSUME FrameRing!RingAssumption, NEW fs \in Fs
    PROVE  FrameRing!Total(FrameRing!Kept(fs)) + FrameRing!Total(FrameRing!Freed(fs)) = FrameRing!Total(fs)
<1> DEFINE h == FrameRing!Half(fs)
           ks == FrameRing!Kept(fs)
           gs == FrameRing!Freed(fs)
<1>1. /\ h \in Nat /\ 2 * h <= Len(fs) /\ Len(fs) \in Nat
      /\ ks \in Fs /\ Len(ks) = Len(fs) - h /\ gs \in Fs /\ Len(gs) = h
  BY Splits, FrameTypes
<1>2. /\ \A j \in 1 .. h : ks[j] = fs[2 * j - 1] /\ gs[j] = fs[2 * j]
      /\ \A j \in h + 1 .. Len(fs) - h : ks[j] = fs[j + h]
  <2>1. /\ \A j \in 1 .. h : j \in 1 .. Len(fs) - h
        /\ \A j \in h + 1 .. Len(fs) - h : j \in 1 .. Len(fs) - h /\ ~ (j <= h)
    BY <1>1
  <2> QED BY <2>1 DEF FrameRing!Kept, FrameRing!Freed
<1> HIDE DEF h, ks, gs
<1>3. PICK f \in [0 .. Len(fs) -> Nat] : Sum(fs, f)
  BY SumExists
<1>4. PICK k \in [0 .. Len(ks) -> Nat] : Sum(ks, k)
  BY <1>1, SumExists
<1>5. PICK g \in [0 .. Len(gs) -> Nat] : Sum(gs, g)
  BY <1>1, SumExists
<1> DEFINE T == {m \in Nat : m <= h => k[m] + g[m] = f[2 * m]}
<1>6. 0 \in T
  BY <1>3, <1>4, <1>5 DEF Sum
<1>7. \A m \in Nat : m \in T => m + 1 \in T
  <2> TAKE m \in Nat
  <2> HAVE m \in T
  <2>1. ASSUME m + 1 <= h PROVE k[m + 1] + g[m + 1] = f[2 * (m + 1)]
    <3>1. m + 1 \in 1 .. h /\ m + 1 \in 1 .. Len(ks) /\ m + 1 \in 1 .. Len(gs)
          /\ 2 * m + 1 \in 1 .. Len(fs) /\ 2 * m + 2 \in 1 .. Len(fs)
          /\ m \in 0 .. Len(ks) /\ m \in 0 .. Len(gs) /\ 2 * m \in 0 .. Len(fs)
          /\ 2 * (m + 1) - 1 = 2 * m + 1 /\ 2 * (m + 1) = 2 * m + 2
          /\ 2 * m + 1 + 1 = 2 * m + 2 /\ 2 * m \in 0 .. Len(fs) - 1
          /\ 2 * m + 1 \in 0 .. Len(fs) - 1 /\ m \in 0 .. Len(ks) - 1 /\ m \in 0 .. Len(gs) - 1
      BY <1>1, <2>1
    <3>2. k[m + 1] = k[m] + fs[2 * m + 1].size /\ g[m + 1] = g[m] + fs[2 * m + 2].size
      <4>1. k[m + 1] = k[m] + ks[m + 1].size /\ g[m + 1] = g[m] + gs[m + 1].size
        BY <1>4, <1>5, <3>1 DEF Sum
      <4>2. ks[m + 1] = fs[2 * (m + 1) - 1] /\ gs[m + 1] = fs[2 * (m + 1)]
        BY <1>2, <3>1
      <4> QED BY <3>1, <4>1, <4>2
    <3>3. f[2 * m + 1] = f[2 * m] + fs[2 * m + 1].size
          /\ f[2 * m + 2] = f[2 * m + 1] + fs[2 * m + 2].size
      <4>1. \A i \in 0 .. Len(fs) - 1 : f[i + 1] = f[i] + fs[i + 1].size
        BY <1>3 DEF Sum
      <4>2. f[2 * m + 1 + 1] = f[2 * m + 1] + fs[2 * m + 1 + 1].size
        BY <3>1, <4>1
      <4> QED BY <3>1, <4>1, <4>2
    <3>4. k[m] + g[m] = f[2 * m]
      BY <1>1, <2>1
    <3>5. k[m] \in Nat /\ g[m] \in Nat /\ f[2 * m] \in Nat
          /\ fs[2 * m + 1].size \in Nat /\ fs[2 * m + 2].size \in Nat
      BY <1>3, <1>4, <1>5, <3>1, FrameTypes
    <3>6. f[2 * (m + 1)] = f[2 * m] + fs[2 * m + 1].size + fs[2 * m + 2].size
      BY <3>1, <3>3
    <3>7. PICK a \in Nat, b \in Nat, c \in Nat, d \in Nat, e \in Nat :
             /\ a = k[m] /\ b = g[m] /\ c = f[2 * m]
             /\ d = fs[2 * m + 1].size /\ e = fs[2 * m + 2].size
      BY <3>5
    <3>8. a + b = c
      BY <3>4, <3>7
    <3>9. k[m + 1] = a + d /\ g[m + 1] = b + e /\ f[2 * (m + 1)] = c + d + e
      BY <3>2, <3>6, <3>7
    <3> QED BY <3>8, <3>9
  <2> QED BY <2>1
<1>8. k[h] + g[h] = f[2 * h]
  <2> HIDE DEF T
  <2>1. h \in T
    BY <1>1, <1>6, <1>7, NatSetInduction
  <2> QED BY <2>1 DEF T
<1> DEFINE U == {m \in Nat : h + m <= Len(ks) => k[h + m] + g[h] = f[2 * h + m]}
<1>9. 0 \in U
  BY <1>1, <1>8
<1>10. \A m \in Nat : m \in U => m + 1 \in U
  <2> TAKE m \in Nat
  <2> HAVE m \in U
  <2>1. ASSUME h + (m + 1) <= Len(ks) PROVE k[h + (m + 1)] + g[h] = f[2 * h + (m + 1)]
    <3>1. h + m + 1 \in h + 1 .. Len(fs) - h /\ h + m + 1 \in 1 .. Len(ks)
          /\ 2 * h + m + 1 \in 1 .. Len(fs) /\ h + m \in 0 .. Len(ks) /\ h \in 0 .. Len(gs)
          /\ 2 * h + m \in 0 .. Len(fs) /\ h + m + 1 + h = 2 * h + m + 1
          /\ 2 * h + m \in 0 .. Len(fs) - 1 /\ h + m \in 0 .. Len(ks) - 1
          /\ h + (m + 1) = h + m + 1 /\ 2 * h + (m + 1) = 2 * h + m + 1
      BY <1>1, <2>1
    <3>2. k[h + m + 1] = k[h + m] + fs[2 * h + m + 1].size
      <4>1. \A i \in 0 .. Len(ks) - 1 : k[i + 1] = k[i] + ks[i + 1].size
        BY <1>4 DEF Sum
      <4>2. ks[h + m + 1] = fs[h + m + 1 + h]
        BY <1>2, <3>1
      <4> QED BY <3>1, <4>1, <4>2
    <3>3. f[2 * h + m + 1] = f[2 * h + m] + fs[2 * h + m + 1].size
      <4>1. \A i \in 0 .. Len(fs) - 1 : f[i + 1] = f[i] + fs[i + 1].size
        BY <1>3 DEF Sum
      <4> QED BY <3>1, <4>1
    <3>4. k[h + m] + g[h] = f[2 * h + m]
      BY <1>1, <2>1
    <3>5. k[h + m] \in Nat /\ g[h] \in Nat /\ f[2 * h + m] \in Nat
          /\ fs[2 * h + m + 1].size \in Nat
      BY <1>3, <1>4, <1>5, <3>1, FrameTypes
    <3> QED BY <3>1, <3>2, <3>3, <3>4, <3>5
  <2> QED BY <2>1
<1>11. k[Len(ks)] + g[h] = f[Len(fs)]
  <2> HIDE DEF U
  <2>1. Len(ks) - h \in Nat /\ h + (Len(ks) - h) = Len(ks) /\ 2 * h + (Len(ks) - h) = Len(fs)
    BY <1>1
  <2>2. Len(ks) - h \in U
    BY <2>1, <1>9, <1>10, NatSetInduction
  <2> QED BY <2>1, <2>2 DEF U
<1>12. FrameRing!Total(fs) = f[Len(fs)] /\ FrameRing!Total(ks) = k[Len(ks)] /\ FrameRing!Total(gs) = g[h]
  BY <1>1, <1>3, <1>4, <1>5, TotalIs
<1> QED BY <1>11, <1>12 DEF ks, gs

-----------------------------------------------------------------------------
(* The loops of a push. *)

\* The rounds of the loop that expires frames, one by one.
LEMMA ExpiredRuns ==
    ASSUME NEW S, NEW r \in S, Len(r.fs) \in Nat, \A x \in S : FrameRing!ExpireOnce(x) \in S
    PROVE  \E f \in [0 .. Len(r.fs) -> S] :
              /\ f[0] = r /\ FrameRing!Expired(r) = f[Len(r.fs)]
              /\ \A k \in 1 .. Len(r.fs) : f[k] = FrameRing!ExpireOnce(f[k - 1])
<1> DEFINE n == Len(r.fs)
           body(after) == [k \in 0 .. Len(r.fs) |-> IF k = 0 THEN r ELSE FrameRing!ExpireOnce(after[k - 1])]
           after == CHOOSE after : after = body(after)
           step == [x \in S |-> FrameRing!ExpireOnce(x)]
<1>1. step \in [S -> S]
  OBVIOUS
<1>2. PICK f \in [0 .. n -> S] : Iterates(f, r, step, n)
  <2> HIDE DEF step
  <2> QED BY <1>1, Repeats
<1>3. \A k \in 1 .. n : f[k] = FrameRing!ExpireOnce(f[k - 1])
  <2> TAKE k \in 1 .. n
  <2>1. k - 1 \in 0 .. n
    OBVIOUS
  <2> QED BY <1>2, <2>1 DEF Iterates
<1>4. f = body(f)
  <2>1. ASSUME NEW k \in 0 .. n PROVE f[k] = IF k = 0 THEN r ELSE FrameRing!ExpireOnce(f[k - 1])
    <3>1. CASE k = 0
      BY <1>2, <3>1 DEF Iterates
    <3>2. CASE k # 0
      BY <1>3, <3>2
    <3> QED BY <3>1, <3>2
  <2> QED BY <2>1
<1>5. after = body(after)
  BY <1>4
<1>6. FrameRing!Expired(r) = after[n]
  BY DEF FrameRing!Expired, FrameRing!Rounds
<1> HIDE DEF after
<1> DEFINE T == {k \in Nat : k <= n => after[k] = f[k]}
<1>7. 0 \in T
  BY <1>2, <1>5 DEF Iterates
<1>8. \A k \in Nat : k \in T => k + 1 \in T
  <2> TAKE k \in Nat
  <2> HAVE k \in T
  <2>1. ASSUME k + 1 <= n PROVE after[k + 1] = f[k + 1]
    <3>1. k + 1 \in 0 .. n /\ k + 1 \in 1 .. n /\ k + 1 # 0 /\ k + 1 - 1 = k /\ k <= n
      BY <2>1
    <3>2. after[k + 1] = FrameRing!ExpireOnce(after[k])
      BY <1>5, <3>1
    <3>3. f[k + 1] = FrameRing!ExpireOnce(f[k])
      BY <1>3, <3>1
    <3> QED BY <3>1, <3>2, <3>3
  <2> QED BY <2>1
<1>9. n \in T
  <2> HIDE DEF T
  <2> QED BY <1>7, <1>8, NatSetInduction
<1> QED BY <1>2, <1>3, <1>6, <1>9 DEF Iterates

\* f is what the loop of the cap goes through from r on.
FitRun(f, r, limit) ==
    /\ f[0] = r /\ FrameRing!Fitted(r, limit) = f[Len(r.fs)]
    /\ \A k \in 1 .. Len(r.fs) : f[k] = FrameRing!FitOnce(f[k - 1], limit)

\* The rounds of the loop that makes frames fit.
LEMMA FittedRuns ==
    ASSUME NEW limit, NEW S, NEW r \in S, Len(r.fs) \in Nat, \A x \in S : FrameRing!FitOnce(x, limit) \in S
    PROVE  \E f \in [0 .. Len(r.fs) -> S] : FitRun(f, r, limit)
<1> DEFINE n == Len(r.fs)
           body(after) == [k \in 0 .. Len(r.fs) |-> IF k = 0 THEN r ELSE FrameRing!FitOnce(after[k - 1], limit)]
           after == CHOOSE after : after = body(after)
           step == [x \in S |-> FrameRing!FitOnce(x, limit)]
<1>1. step \in [S -> S]
  OBVIOUS
<1>2. PICK f \in [0 .. n -> S] : Iterates(f, r, step, n)
  <2> HIDE DEF step
  <2> QED BY <1>1, Repeats
<1>3. \A k \in 1 .. n : f[k] = FrameRing!FitOnce(f[k - 1], limit)
  <2> TAKE k \in 1 .. n
  <2>1. k - 1 \in 0 .. n
    OBVIOUS
  <2> QED BY <1>2, <2>1 DEF Iterates
<1>4. f = body(f)
  <2>1. ASSUME NEW k \in 0 .. n
        PROVE  f[k] = IF k = 0 THEN r ELSE FrameRing!FitOnce(f[k - 1], limit)
    <3>1. CASE k = 0
      BY <1>2, <3>1 DEF Iterates
    <3>2. CASE k # 0
      BY <1>3, <3>2
    <3> QED BY <3>1, <3>2
  <2> QED BY <2>1
<1>5. after = body(after)
  BY <1>4
<1>6. FrameRing!Fitted(r, limit) = after[n]
  BY DEF FrameRing!Fitted, FrameRing!Rounds
<1> HIDE DEF after
<1> DEFINE T == {k \in Nat : k <= n => after[k] = f[k]}
<1>7. 0 \in T
  BY <1>2, <1>5 DEF Iterates
<1>8. \A k \in Nat : k \in T => k + 1 \in T
  <2> TAKE k \in Nat
  <2> HAVE k \in T
  <2>1. ASSUME k + 1 <= n PROVE after[k + 1] = f[k + 1]
    <3>1. k + 1 \in 0 .. n /\ k + 1 \in 1 .. n /\ k + 1 # 0 /\ k + 1 - 1 = k /\ k <= n
      BY <2>1
    <3>2. after[k + 1] = FrameRing!FitOnce(after[k], limit)
      BY <1>5, <3>1
    <3>3. f[k + 1] = FrameRing!FitOnce(f[k], limit)
      BY <1>3, <3>1
    <3> QED BY <3>1, <3>2, <3>3
  <2> QED BY <2>1
<1>9. n \in T
  <2> HIDE DEF T
  <2> QED BY <1>7, <1>8, NatSetInduction
<1> QED BY <1>2, <1>3, <1>6, <1>9 DEF Iterates, FitRun

\* A ring with frames and with the count of their bytes.
Counted == {x \in [fs : Fs, n : Nat] : x.n = FrameRing!Total(x.fs) /\ Len(x.fs) > 0}

\* What such a ring is made of.
LEMMA CountedIs ==
    ASSUME NEW fs \in Fs, NEW n \in Nat, n = FrameRing!Total(fs), Len(fs) > 0
    PROVE  [fs |-> fs, n |-> n] \in Counted
BY DEF Counted

\* Taking the oldest leaves the others, and counts it off.
LEMMA PopsOne ==
    ASSUME FrameRing!RingAssumption, NEW x \in Counted, Len(x.fs) > 1
    PROVE  /\ FrameRing!Popped(x) \in Counted /\ FrameRing!Popped(x).n < x.n
           /\ Len(FrameRing!Popped(x).fs) = Len(x.fs) - 1
           /\ \A i \in 1 .. Len(x.fs) - 1 : FrameRing!Popped(x).fs[i] = x.fs[i + 1]
<1>1. x.fs \in Fs /\ x.n = FrameRing!Total(x.fs) /\ Len(x.fs) \in Nat
  BY DEF Counted, Fs
<1>2. Tail(x.fs) \in Fs /\ FrameRing!Total(Tail(x.fs)) = x.n - Head(x.fs).size
  BY <1>1, TotalTail
<1>3. /\ Len(Tail(x.fs)) = Len(x.fs) - 1 /\ Head(x.fs) = x.fs[1] /\ 1 \in 1 .. Len(x.fs)
      /\ \A i \in 1 .. Len(x.fs) - 1 : Tail(x.fs)[i] = x.fs[i + 1]
  BY <1>1 DEF Fs
<1>4. Head(x.fs).size \in Nat /\ Head(x.fs).size > 0
  BY <1>1, <1>3, FrameTypes
<1>5. FrameRing!Total(Tail(x.fs)) \in Nat
  BY <1>2, TotalNat
<1>6. FrameRing!Popped(x) = [fs |-> Tail(x.fs), n |-> x.n - Head(x.fs).size]
  BY DEF FrameRing!Popped
<1>7. FrameRing!Popped(x) \in Counted
  <2>1. FrameRing!Popped(x) = [fs |-> Tail(x.fs), n |-> FrameRing!Total(Tail(x.fs))]
    BY <1>2, <1>6
  <2>2. Len(Tail(x.fs)) > 0
    BY <1>1, <1>3
  <2> QED BY <1>2, <1>5, <2>1, <2>2, CountedIs
<1>8. x.n \in Nat
  BY DEF Counted
<1>9. FrameRing!Popped(x).fs = Tail(x.fs) /\ FrameRing!Popped(x).n = x.n - Head(x.fs).size
  BY <1>6
<1>10. \A a, b \in Nat : b > 0 => a - b < a
  OBVIOUS
<1> QED BY <1>3, <1>4, <1>7, <1>8, <1>9, <1>10

\* Thinning counts off what it frees, and leaves the oldest.
LEMMA ThinsSome ==
    ASSUME FrameRing!RingAssumption, NEW x \in Counted
    PROVE  /\ FrameRing!Thinned(x) \in Counted
           /\ FrameRing!Thinned(x).n <= x.n /\ (FrameRing!Half(x.fs) > 0 => FrameRing!Thinned(x).n < x.n)
           /\ Len(FrameRing!Thinned(x).fs) = Len(x.fs) - FrameRing!Half(x.fs)
           /\ FrameRing!Thinned(x).fs[1] = x.fs[1]
<1>1. x.fs \in Fs /\ x.n = FrameRing!Total(x.fs) /\ x.n \in Nat /\ Len(x.fs) \in Nat /\ Len(x.fs) > 0
  BY DEF Counted, Fs
<1>2. /\ FrameRing!Half(x.fs) \in Nat /\ 2 * FrameRing!Half(x.fs) <= Len(x.fs)
      /\ FrameRing!Kept(x.fs) \in Fs /\ Len(FrameRing!Kept(x.fs)) = Len(x.fs) - FrameRing!Half(x.fs)
      /\ FrameRing!Freed(x.fs) \in Fs /\ Len(FrameRing!Freed(x.fs)) = FrameRing!Half(x.fs)
  BY <1>1, Splits
<1>3. FrameRing!Total(FrameRing!Kept(x.fs)) + FrameRing!Total(FrameRing!Freed(x.fs)) = x.n
  BY <1>1, ThinningAddsUp
<1>4. FrameRing!Total(FrameRing!Kept(x.fs)) \in Nat /\ FrameRing!Total(FrameRing!Freed(x.fs)) \in Nat
  BY <1>2, TotalNat
<1>5. FrameRing!Half(x.fs) > 0 => FrameRing!Total(FrameRing!Freed(x.fs)) > 0
  BY <1>2, TotalPositive
<1>6. x.n - FrameRing!Total(FrameRing!Freed(x.fs)) = FrameRing!Total(FrameRing!Kept(x.fs))
  BY <1>1, <1>3, <1>4
<1>7. FrameRing!Thinned(x) = [fs |-> FrameRing!Kept(x.fs), n |-> FrameRing!Total(FrameRing!Kept(x.fs))]
  BY <1>6 DEF FrameRing!Thinned
<1>8. Len(FrameRing!Kept(x.fs)) > 0
  BY <1>1, <1>2
<1>9. FrameRing!Thinned(x) \in Counted
  BY <1>2, <1>4, <1>7, <1>8, CountedIs
<1>10. FrameRing!Kept(x.fs)[1] = x.fs[1]
  <2>1. 1 \in 1 .. Len(x.fs) - FrameRing!Half(x.fs)
    BY <1>1, <1>2
  <2>2. CASE 1 <= FrameRing!Half(x.fs)
    BY <2>1, <2>2 DEF FrameRing!Kept
  <2>3. CASE ~ (1 <= FrameRing!Half(x.fs))
    <3>1. 1 + FrameRing!Half(x.fs) = 1
      BY <1>2, <2>3
    <3> QED BY <2>1, <2>3, <3>1 DEF FrameRing!Kept
  <2> QED BY <2>2, <2>3
<1>11. FrameRing!Thinned(x).fs = FrameRing!Kept(x.fs) /\ FrameRing!Thinned(x).n = FrameRing!Total(FrameRing!Kept(x.fs))
  BY <1>7
<1>12. FrameRing!Total(FrameRing!Kept(x.fs)) <= x.n /\ (FrameRing!Half(x.fs) > 0 => FrameRing!Total(FrameRing!Kept(x.fs)) < x.n)
  BY <1>3, <1>4, <1>5, <1>1
<1> QED BY <1>2, <1>9, <1>10, <1>11, <1>12

\* A round of expiry keeps the count exact, and adds nothing to it.
LEMMA ExpireOnceCounts ==
    ASSUME FrameRing!RingAssumption, NEW x \in Counted
    PROVE  FrameRing!ExpireOnce(x) \in Counted /\ FrameRing!ExpireOnce(x).n <= x.n
<1>1. x.n \in Nat
  BY DEF Counted
<1>2. Len(x.fs) > 1 => FrameRing!Popped(x) \in Counted /\ FrameRing!Popped(x).n < x.n /\ FrameRing!Popped(x).n \in Nat
  BY PopsOne DEF Counted
<1> QED BY <1>1, <1>2 DEF FrameRing!ExpireOnce

\* A round that has something to do takes a frame at least.
LEMMA FitOnceCounts ==
    ASSUME FrameRing!RingAssumption, NEW limit, NEW x \in Counted
    PROVE  /\ FrameRing!FitOnce(x, limit) \in Counted
           /\ FrameRing!FitOnce(x, limit) = x \/ Len(FrameRing!FitOnce(x, limit).fs) < Len(x.fs)
           /\ x.n > limit /\ Len(x.fs) > 1 => Len(FrameRing!FitOnce(x, limit).fs) < Len(x.fs)
<1>1. Len(x.fs) \in Nat /\ x.fs \in Fs
  BY DEF Counted, Fs
<1>2. CASE x.n > limit /\ Len(x.fs) > 1
  <2>1. FrameRing!Popped(x) \in Counted /\ Len(FrameRing!Popped(x).fs) < Len(x.fs)
    BY <1>1, <1>2, PopsOne
  <2>2. FrameRing!Thinned(x) \in Counted /\ Len(FrameRing!Thinned(x).fs) = Len(x.fs) - FrameRing!Half(x.fs)
        /\ FrameRing!Half(x.fs) \in Nat /\ (Len(x.fs) >= 6 => FrameRing!Half(x.fs) > 0)
    BY <1>1, ThinsSome, Splits
  <2>3. CASE FrameRing!Overdue(x) \/ Len(x.fs) < Few \/ FrameRing!Thinned(x).n >= x.n
    BY <1>2, <2>1, <2>3 DEF FrameRing!FitOnce, FrameRing!Shorter
  <2>4. CASE ~ (FrameRing!Overdue(x) \/ Len(x.fs) < Few \/ FrameRing!Thinned(x).n >= x.n)
    <3>1. Few \in Nat /\ Few >= 6
      BY DEF FrameRing!RingAssumption
    <3>2. Len(x.fs) >= 6
      BY <1>1, <2>4, <3>1
    <3>3. FrameRing!FitOnce(x, limit) = FrameRing!Thinned(x)
      BY <1>2, <2>4 DEF FrameRing!FitOnce, FrameRing!Shorter
    <3> QED BY <1>1, <2>2, <3>2, <3>3
  <2> QED BY <2>3, <2>4
<1>3. CASE ~ (x.n > limit /\ Len(x.fs) > 1)
  BY <1>3 DEF FrameRing!FitOnce
<1> QED BY <1>2, <1>3

\* So does the whole of it,
LEMMA ExpiredCounts ==
    ASSUME FrameRing!RingAssumption, NEW r \in Counted
    PROVE  FrameRing!Expired(r) \in Counted
<1>1. Len(r.fs) \in Nat
  BY DEF Counted, Fs
<1>2. \A x \in Counted : FrameRing!ExpireOnce(x) \in Counted
  BY ExpireOnceCounts
<1> QED BY <1>1, <1>2, ExpiredRuns

\* and the loop that makes frames fit.
LEMMA FittedCounts ==
    ASSUME FrameRing!RingAssumption, NEW limit, NEW r \in Counted
    PROVE  FrameRing!Fitted(r, limit) \in Counted
<1>1. Len(r.fs) \in Nat
  BY DEF Counted, Fs
<1>2. \A x \in Counted : FrameRing!FitOnce(x, limit) \in Counted
  BY FitOnceCounts
<1> QED BY <1>1, <1>2, FittedRuns DEF FitRun

-----------------------------------------------------------------------------
(* The count of the bytes through the steps of the ring. *)

\* A push keeps the count exact,
LEMMA PushCounts ==
    ASSUME FrameRing!RingAssumption, ring \in Fs, bytes = FrameRing!Total(ring),
           NEW size \in Sizes, NEW headroom \in Headrooms, FrameRing!Push(size, headroom)
    PROVE  ring' \in Fs /\ bytes' = FrameRing!Total(ring')
<1> DEFINE f == [age |-> 0, size |-> size]
<1>1. f \in [age : Nat, size : Sizes] /\ f.size = size /\ size \in Nat
  BY DEF FrameRing!RingAssumption
<1>2. Append(ring, f) \in Fs /\ FrameRing!Total(Append(ring, f)) = bytes + f.size
  BY <1>1, TotalAppend
<1>3. Len(Append(ring, f)) > 0
  BY DEF Fs
<1>4. bytes + f.size \in Nat
  BY <1>1, TotalNat
<1>5. [fs |-> Append(ring, f), n |-> bytes + f.size] \in Counted
  BY <1>2, <1>3, <1>4, CountedIs
<1>6. \A limit : FrameRing!Pushed(f, limit) \in Counted
  BY <1>5, ExpiredCounts, FittedCounts DEF FrameRing!Pushed
<1>7. CASE UNCHANGED <<ring, bytes>>
  BY <1>7
<1>8. CASE FrameRing!Adds(f, cap')
  <2>1. ring' = FrameRing!Pushed(f, cap').fs /\ bytes' = FrameRing!Pushed(f, cap').n
    BY <1>8 DEF FrameRing!Adds
  <2> QED BY <1>6, <2>1 DEF Counted
<1> QED BY <1>7, <1>8 DEF FrameRing!Push

\* and so does time, which changes no size.
LEMMA TickCounts ==
    ASSUME FrameRing!RingAssumption, ring \in Fs, FrameRing!Tick
    PROVE  ring' \in Fs /\ FrameRing!Total(ring') = FrameRing!Total(ring)
<1> DEFINE F == [age : Nat, size : Sizes]
           aged(i) == [ring[i] EXCEPT !.age = FrameRing!Aged(@, FrameRing!Longest + 1)]
<1>1. ring \in Seq(F) /\ Len(ring) \in Nat /\ DOMAIN ring = 1 .. Len(ring)
  BY DEF Fs
<1>2. ASSUME NEW i \in 1 .. Len(ring) PROVE aged(i) \in F /\ aged(i).size = ring[i].size
  <2>1. ring[i] \in F
    BY FrameTypes
  <2>2. \A n \in Nat : FrameRing!Aged(n, FrameRing!Longest + 1) \in Nat
    BY DEF FrameRing!Aged
  <2> QED BY <2>1, <2>2
<1>3. ring' = [i \in 1 .. Len(ring) |-> aged(i)]
  BY <1>1 DEF FrameRing!Tick
<1> HIDE DEF F, aged
<1>4. ring' \in Seq(F) /\ Len(ring') = Len(ring)
      /\ \A i \in 1 .. Len(ring) : ring'[i] = aged(i)
  BY <1>1, <1>2, <1>3
<1>5. ring' \in Fs
  BY <1>4 DEF F, Fs
<1> QED BY <1>2, <1>4, <1>5, TotalSame

\* The invariant of the count.
Exact == ring \in Fs /\ FrameRing!BytesExact

\* The count is exact in every state.
LEMMA ExactInvariant ==
    ASSUME FrameRing!RingAssumption
    PROVE  FrameRing!Spec => []Exact
<1>1. FrameRing!Init => Exact
  <2> SUFFICES ASSUME FrameRing!Init PROVE Exact
    OBVIOUS
  <2>1. ring = <<>> /\ bytes = 0
    BY DEF FrameRing!Init
  <2>2. ring \in Fs /\ Len(ring) = 0
    BY <2>1 DEF Fs
  <2>3. Sum(ring, [i \in 0 .. 0 |-> 0])
    BY <2>2 DEF Sum
  <2> QED BY <2>1, <2>2, <2>3, TotalIs DEF Exact, FrameRing!BytesExact
<1>2. ASSUME Exact, [FrameRing!Next]_FrameRing!vars PROVE Exact'
  <2>0. ring \in Fs /\ bytes = FrameRing!Total(ring)
    BY <1>2 DEF Exact, FrameRing!BytesExact
  <2>1. ASSUME ring' \in Fs, bytes' = FrameRing!Total(ring') PROVE Exact'
    BY <2>1 DEF Exact, FrameRing!BytesExact
  <2>2. ASSUME NEW size \in Sizes, NEW headroom \in Headrooms, FrameRing!Push(size, headroom)
        PROVE  Exact'
    BY <2>0, <2>1, <2>2, PushCounts
  <2>3. CASE FrameRing!Tick
    <3>1. bytes' = bytes
      BY <2>3 DEF FrameRing!Tick
    <3> QED BY <2>0, <2>1, <2>3, <3>1, TickCounts
  <2>4. CASE UNCHANGED <<ring, bytes>>
    BY <2>0, <2>1, <2>4
  <2> QED BY <1>2, <2>2, <2>3, <2>4
          DEF FrameRing!Next, FrameRing!Buffer, FrameRing!PinOffAll, FrameRing!Expire, FrameRing!PinOn, FrameRing!PinOff, FrameRing!vars
<1> QED BY <1>1, <1>2, PTL DEF FrameRing!Spec

-----------------------------------------------------------------------------
(* What a push may lose. *)

\* What x has lost of r: its old end, all of it older than the span.
LostOld(x, r) ==
    \E cut \in 0 .. Len(r.fs) - 1 :
        /\ Len(x.fs) = Len(r.fs) - cut
        /\ \A i \in 1 .. cut : r.fs[i].age > budget.span
        /\ \A i \in 1 .. Len(x.fs) : x.fs[i] = r.fs[i + cut]

\* A round of expiry takes nothing that is not old,
LEMMA ExpireOnceLosesOld ==
    ASSUME FrameRing!RingAssumption, NEW r \in Counted, NEW x \in Counted, LostOld(x, r)
    PROVE  LostOld(FrameRing!ExpireOnce(x), r)
<1>1. Len(r.fs) \in Nat /\ Len(x.fs) \in Nat /\ x.fs \in Fs
  BY DEF Counted, Fs
<1>2. PICK cut \in 0 .. Len(r.fs) - 1 :
        /\ Len(x.fs) = Len(r.fs) - cut
        /\ \A i \in 1 .. cut : r.fs[i].age > budget.span
        /\ \A i \in 1 .. Len(x.fs) : x.fs[i] = r.fs[i + cut]
  BY DEF LostOld
<1>3. CASE Len(x.fs) > 1 /\ FrameRing!Overdue(x)
  <2>1. FrameRing!ExpireOnce(x) = FrameRing!Popped(x)
    BY <1>3 DEF FrameRing!ExpireOnce
  <2>2. /\ Len(FrameRing!Popped(x).fs) = Len(x.fs) - 1
        /\ \A i \in 1 .. Len(x.fs) - 1 : FrameRing!Popped(x).fs[i] = x.fs[i + 1]
    BY <1>3, PopsOne
  <2>3. Head(x.fs) = r.fs[1 + cut]
    <3>1. 1 \in 1 .. Len(x.fs) /\ Head(x.fs) = x.fs[1]
      BY <1>1, <1>3 DEF Fs
    <3> QED BY <1>2, <3>1
  <2>4. r.fs[cut + 1].age > budget.span
    <3>1. 1 + cut = cut + 1
      OBVIOUS
    <3> QED BY <1>3, <2>3, <3>1 DEF FrameRing!Overdue
  <2>5. cut + 1 \in 0 .. Len(r.fs) - 1
    BY <1>1, <1>2, <1>3
  <2>6. \A i \in 1 .. cut + 1 : r.fs[i].age > budget.span
    <3> TAKE i \in 1 .. cut + 1
    <3>1. i \in 1 .. cut \/ i = cut + 1
      BY <1>1
    <3> QED BY <1>2, <2>4, <3>1
  <2>7. \A i \in 1 .. Len(FrameRing!Popped(x).fs) : FrameRing!Popped(x).fs[i] = r.fs[i + (cut + 1)]
    <3> TAKE i \in 1 .. Len(FrameRing!Popped(x).fs)
    <3>1. i \in 1 .. Len(x.fs) - 1 /\ i + 1 \in 1 .. Len(x.fs) /\ i + 1 + cut = i + (cut + 1)
      BY <1>1, <2>2
    <3>2. FrameRing!Popped(x).fs[i] = x.fs[i + 1] /\ x.fs[i + 1] = r.fs[i + 1 + cut]
      BY <1>2, <2>2, <3>1
    <3> QED BY <3>1, <3>2
  <2>8. Len(FrameRing!Popped(x).fs) = Len(r.fs) - (cut + 1)
    BY <1>1, <1>2, <2>2
  <2> QED BY <2>1, <2>5, <2>6, <2>7, <2>8 DEF LostOld
<1>4. CASE ~ (Len(x.fs) > 1 /\ FrameRing!Overdue(x))
  BY <1>4 DEF FrameRing!ExpireOnce
<1> QED BY <1>3, <1>4

\* nor do all rounds.
LEMMA ExpiredLosesOld ==
    ASSUME FrameRing!RingAssumption, NEW r \in Counted
    PROVE  LostOld(FrameRing!Expired(r), r) /\ FrameRing!Expired(r).n <= r.n
<1> DEFINE S == {x \in Counted : LostOld(x, r) /\ x.n <= r.n}
<1>1. Len(r.fs) \in Nat /\ Len(r.fs) > 0 /\ r.n \in Nat
  BY DEF Counted, Fs
<1>2. r \in S
  <2>1. 0 \in 0 .. Len(r.fs) - 1 /\ Len(r.fs) = Len(r.fs) - 0
    BY <1>1
  <2>2. \A i \in 1 .. Len(r.fs) : i + 0 = i
    OBVIOUS
  <2>3. LostOld(r, r)
    BY <2>1, <2>2 DEF LostOld
  <2> QED BY <1>1, <2>3
<1>3. \A x \in S : FrameRing!ExpireOnce(x) \in S
  <2> TAKE x \in S
  <2>1. x \in Counted /\ LostOld(x, r) /\ x.n <= r.n /\ x.n \in Nat
    BY DEF Counted
  <2>2. LostOld(FrameRing!ExpireOnce(x), r)
    BY <2>1, ExpireOnceLosesOld
  <2>3. FrameRing!ExpireOnce(x) \in Counted /\ FrameRing!ExpireOnce(x).n <= x.n
    BY <2>1, ExpireOnceCounts
  <2>4. FrameRing!ExpireOnce(x).n \in Nat
    BY <2>3 DEF Counted
  <2> QED BY <1>1, <2>1, <2>2, <2>3, <2>4
<1>4. FrameRing!Expired(r) \in S
  <2> HIDE DEF S
  <2> QED BY <1>1, <1>2, <1>3, ExpiredRuns
<1> QED BY <1>4

\* What fits is left alone.
LEMMA FittingStays ==
    ASSUME FrameRing!RingAssumption, NEW r \in Counted, NEW limit, ~ (r.n > limit)
    PROVE  FrameRing!Fitted(r, limit) = r
<1> DEFINE S == {r}
<1>1. Len(r.fs) \in Nat
  BY DEF Counted, Fs
<1>2. r \in S /\ \A x \in S : FrameRing!FitOnce(x, limit) \in S
  BY DEF FrameRing!FitOnce
<1>3. FrameRing!Fitted(r, limit) \in S
  <2> HIDE DEF S
  <2> QED BY <1>1, <1>2, FittedRuns DEF FitRun
<1> QED BY <1>3

\* The loop of the cap ends where it fits, or with one frame.
LEMMA FittedFits ==
    ASSUME FrameRing!RingAssumption, NEW r \in Counted, NEW limit \in Nat
    PROVE  FrameRing!Fitted(r, limit).n <= limit \/ Len(FrameRing!Fitted(r, limit).fs) = 1
<1> DEFINE N == Len(r.fs)
<1>1. N \in Nat
  BY DEF Counted, Fs
<1>2. \A x \in Counted : FrameRing!FitOnce(x, limit) \in Counted
  BY FitOnceCounts
<1>10. PICK f \in [0 .. N -> Counted] : FitRun(f, r, limit)
  BY <1>1, <1>2, FittedRuns
<1>3. /\ f[0] = r /\ FrameRing!Fitted(r, limit) = f[N]
      /\ \A k \in 1 .. N : f[k] = FrameRing!FitOnce(f[k - 1], limit)
  BY <1>10 DEF FitRun
<1> HIDE DEF N
<1> DEFINE Done(x) == x.n <= limit \/ Len(x.fs) = 1
           T == {k \in Nat : k <= N => Done(f[k]) \/ Len(f[k].fs) <= N - k}
<1>4. \A x \in Counted : x.n \in Nat /\ Len(x.fs) \in Nat /\ Len(x.fs) > 0
  BY DEF Counted, Fs
<1>5. 0 \in T
  BY <1>1, <1>3 DEF N
<1>6. \A k \in Nat : k \in T => k + 1 \in T
  <2> TAKE k \in Nat
  <2> HAVE k \in T
  <2>1. ASSUME k + 1 <= N PROVE Done(f[k + 1]) \/ Len(f[k + 1].fs) <= N - (k + 1)
    <3>1. k + 1 \in 1 .. N /\ k \in 0 .. N /\ k <= N /\ k + 1 - 1 = k
      BY <1>1, <2>1
    <3> DEFINE y == f[k]
    <3>2. y \in Counted /\ f[k + 1] = FrameRing!FitOnce(y, limit)
      BY <1>3, <3>1
    <3>3. Done(y) \/ Len(y.fs) <= N - k
      BY <3>1
    <3> HIDE DEF y
    <3>6. y.n \in Nat /\ Len(y.fs) \in Nat /\ Len(y.fs) > 0
      <4> HIDE DEF Done
      <4> QED BY <1>4, <3>2
    <3>4. CASE Done(y)
      <4>1. FrameRing!FitOnce(y, limit) = y
        <5>1. CASE y.n <= limit
          <6>1. ~ (y.n > limit)
            BY <3>6, <5>1
          <6> QED BY <6>1 DEF FrameRing!FitOnce
        <5>2. CASE Len(y.fs) = 1
          BY <5>2 DEF FrameRing!FitOnce
        <5> QED BY <3>4, <5>1, <5>2
      <4> QED BY <3>2, <3>4, <4>1
    <3>5. CASE ~ Done(y)
      <4>1. y.n > limit /\ Len(y.fs) > 1
        <5>1. ~ (y.n <= limit) /\ Len(y.fs) # 1
          BY <3>5
        <5>2. \A a, b \in Nat : ~ (a <= b) => a > b
          OBVIOUS
        <5>3. \A a \in Nat : a > 0 /\ a # 1 => a > 1
          OBVIOUS
        <5> HIDE DEF Done
        <5>4. y.n > limit
          BY <3>6, <5>1, <5>2
        <5> QED BY <3>6, <5>1, <5>3, <5>4
      <4>2. Len(FrameRing!FitOnce(y, limit).fs) < Len(y.fs) /\ FrameRing!FitOnce(y, limit) \in Counted
        BY <3>2, <4>1, FitOnceCounts
      <4>3. Len(FrameRing!FitOnce(y, limit).fs) \in Nat /\ Len(y.fs) \in Nat
        BY <1>4, <3>2, <4>2
      <4> QED BY <1>1, <3>2, <3>3, <3>5, <4>2, <4>3
    <3> QED BY <3>4, <3>5
  <2> HIDE DEF Done
  <2> QED BY <2>1
<1>7. N \in T
  <2> HIDE DEF T
  <2> QED BY <1>1, <1>5, <1>6, NatSetInduction
<1>8. f[N] \in Counted /\ N - N = 0
  BY <1>1, <1>3
<1> QED BY <1>1, <1>3, <1>4, <1>7, <1>8

\* A young frame at the old end stays there while there are frames to thin.
LEMMA FittedKeepsHead ==
    ASSUME FrameRing!RingAssumption, NEW limit, NEW r \in Counted, r.fs[1].age <= budget.span,
           budget.span \in Nat
    PROVE  Len(FrameRing!Fitted(r, limit).fs) >= Few => FrameRing!Fitted(r, limit).fs[1] = r.fs[1]
<1> DEFINE S == {x \in Counted : Len(x.fs) < Few \/ x.fs[1] = r.fs[1]}
<1>0. Few \in Nat /\ Few >= 6
  BY DEF FrameRing!RingAssumption
<1>1. Len(r.fs) \in Nat /\ r \in S
  BY DEF Counted, Fs
<1>2. \A x \in S : FrameRing!FitOnce(x, limit) \in S
  <2> TAKE x \in S
  <2>1. x \in Counted /\ x.fs \in Fs /\ Len(x.fs) \in Nat /\ Len(x.fs) > 0
    BY DEF Counted, Fs
  <2>2. /\ FrameRing!FitOnce(x, limit) \in Counted
        /\ FrameRing!FitOnce(x, limit) = x \/ Len(FrameRing!FitOnce(x, limit).fs) < Len(x.fs)
    BY <2>1, FitOnceCounts
  <2>3. Len(FrameRing!FitOnce(x, limit).fs) \in Nat
    BY <2>2 DEF Counted, Fs
  <2>4. CASE FrameRing!FitOnce(x, limit) = x
    BY <2>4
  <2>5. CASE Len(x.fs) < Few
    BY <1>0, <2>1, <2>2, <2>3, <2>5
  <2>6. CASE Len(x.fs) >= Few /\ FrameRing!FitOnce(x, limit) # x
    <3>1. x.fs[1] = r.fs[1]
      BY <1>0, <2>1, <2>6
    <3>2. Head(x.fs) = x.fs[1] /\ x.fs[1].age \in Nat
      <4>1. 1 \in 1 .. Len(x.fs) /\ Head(x.fs) = x.fs[1]
        BY <2>1 DEF Fs
      <4>2. x.fs[1] \in [age : Nat, size : Sizes]
        BY <2>1, <4>1, FrameTypes
      <4> QED BY <4>1, <4>2
    <3>3. ~ FrameRing!Overdue(x)
      BY <3>1, <3>2 DEF FrameRing!Overdue
    <3>4. FrameRing!Thinned(x).n < x.n /\ FrameRing!Thinned(x).n \in Nat /\ x.n \in Nat /\ FrameRing!Thinned(x).fs[1] = x.fs[1]
      <4>1. FrameRing!Half(x.fs) > 0
        BY <1>0, <2>1, <2>6, Splits
      <4> QED BY <2>1, <4>1, ThinsSome DEF Counted
    <3>5. FrameRing!FitOnce(x, limit) = FrameRing!Thinned(x)
      BY <1>0, <2>1, <2>6, <3>3, <3>4 DEF FrameRing!FitOnce, FrameRing!Shorter
    <3> QED BY <2>2, <3>1, <3>4, <3>5
  <2> QED BY <1>0, <2>1, <2>4, <2>5, <2>6
<1>3. FrameRing!Fitted(r, limit) \in S
  <2> HIDE DEF S
  <2> QED BY <1>1, <1>2, FittedRuns DEF FitRun
<1>4. Len(FrameRing!Fitted(r, limit).fs) \in Nat
  BY <1>3 DEF Counted, Fs
<1> QED BY <1>0, <1>3, <1>4

\* One frame is left alone.
LEMMA LoneStays ==
    ASSUME NEW r \in Counted, NEW limit, Len(r.fs) = 1
    PROVE  FrameRing!Expired(r) = r /\ FrameRing!Fitted(r, limit) = r
<1> DEFINE S == {r}
<1>1. Len(r.fs) \in Nat
  BY DEF Counted, Fs
<1>2. r \in S /\ \A x \in S : FrameRing!ExpireOnce(x) \in S /\ FrameRing!FitOnce(x, limit) \in S
  <2>1. ~ (Len(r.fs) > 1)
    OBVIOUS
  <2>2. FrameRing!ExpireOnce(r) = r /\ FrameRing!FitOnce(r, limit) = r
    BY <2>1 DEF FrameRing!ExpireOnce, FrameRing!FitOnce
  <2> QED BY <2>2
<1>3. FrameRing!Expired(r) \in S
  <2> HIDE DEF S
  <2> QED BY <1>1, <1>2, ExpiredRuns
<1>4. FrameRing!Fitted(r, limit) \in S
  <2> HIDE DEF S
  <2> QED BY <1>1, <1>2, FittedRuns DEF FitRun
<1> QED BY <1>3, <1>4

\* Nothing expires behind a young frame.
LEMMA YoungStays ==
    ASSUME FrameRing!RingAssumption, NEW r \in Counted, r.fs[1].age <= budget.span, budget.span \in Nat
    PROVE  FrameRing!Expired(r) = r
<1>1. Len(r.fs) \in Nat /\ Len(r.fs) > 0 /\ r.fs \in Fs
  BY DEF Counted, Fs
<1>2. Head(r.fs) = r.fs[1] /\ r.fs[1].age \in Nat
  <2>1. 1 \in 1 .. Len(r.fs) /\ Head(r.fs) = r.fs[1]
    BY <1>1 DEF Fs
  <2>2. r.fs[1] \in [age : Nat, size : Sizes]
    BY <1>1, <2>1, FrameTypes
  <2> QED BY <2>1, <2>2
<1>3. ~ FrameRing!Overdue(r)
  BY <1>2 DEF FrameRing!Overdue
<1> DEFINE S == {r}
<1>4. r \in S /\ \A x \in S : FrameRing!ExpireOnce(x) \in S
  BY <1>3 DEF FrameRing!ExpireOnce
<1>5. FrameRing!Expired(r) \in S
  <2> HIDE DEF S
  <2> QED BY <1>1, <1>4, ExpiredRuns
<1> QED BY <1>5

-----------------------------------------------------------------------------
(* What the ring promises. *)

\* Every variable of the ring keeps its type.
THEOREM RingTypes ==
    ASSUME FrameRing!RingAssumption
    PROVE  FrameRing!Spec => []FrameRing!TypeOK
<1>1. FrameRing!Init => FrameRing!TypeOK
  <2> SUFFICES ASSUME FrameRing!Init PROVE FrameRing!TypeOK
    OBVIOUS
  <2>1. ring = <<>> /\ ring \in Seq([age : Nat, size : Sizes])
    BY DEF FrameRing!Init
  <2>2. budget \in Budgets /\ cap \in Nat
    BY DEF FrameRing!Init, FrameRing!RingAssumption
  <2>3. pins \in [Holders -> 0 .. Timeout + 2]
    BY DEF FrameRing!Init, FrameRing!Free, FrameRing!RingAssumption
  <2> QED BY <2>1, <2>2, <2>3 DEF FrameRing!TypeOK, FrameRing!Init
<1>2. ASSUME FrameRing!TypeOK, Exact, [FrameRing!Next]_FrameRing!vars PROVE FrameRing!TypeOK'
  <2>0. /\ budget \in Budgets /\ cap \in Nat /\ pins \in [Holders -> 0 .. Timeout + 2]
        /\ ring \in Fs /\ bytes = FrameRing!Total(ring) /\ bytes \in Nat
    BY <1>2 DEF FrameRing!TypeOK, Exact, FrameRing!BytesExact
  <2>1. Timeout \in Nat /\ FrameRing!Free \in 0 .. Timeout + 2
    BY DEF FrameRing!RingAssumption, FrameRing!Free
  <2>2. ASSUME /\ budget' \in Budgets /\ cap' \in Nat /\ pins' \in [Holders -> 0 .. Timeout + 2]
               /\ ring' \in Fs /\ bytes' = FrameRing!Total(ring')
        PROVE  FrameRing!TypeOK'
    <3>1. bytes' \in Nat
      BY <2>2, TotalNat
    <3> QED BY <2>2, <3>1 DEF FrameRing!TypeOK, Fs
  <2>3. ASSUME NEW size \in Sizes, NEW headroom \in Headrooms, FrameRing!Push(size, headroom)
        PROVE  FrameRing!TypeOK'
    <3>1. ring' \in Fs /\ bytes' = FrameRing!Total(ring')
      BY <2>0, <2>3, PushCounts
    <3>2. FrameRing!CapFor(headroom) \in Nat
      BY <2>0 DEF FrameRing!CapFor, FrameRing!RingAssumption
    <3> QED BY <2>0, <2>2, <2>3, <3>1, <3>2 DEF FrameRing!Push
  <2>4. CASE FrameRing!Tick
    <3>1. ring' \in Fs /\ FrameRing!Total(ring') = FrameRing!Total(ring)
      BY <2>0, <2>4, TickCounts
    <3>2. pins' \in [Holders -> 0 .. Timeout + 2]
      BY <2>0, <2>1, <2>4 DEF FrameRing!Tick, FrameRing!Aged, FrameRing!Free
    <3> QED BY <2>0, <2>2, <2>4, <3>1, <3>2 DEF FrameRing!Tick
  <2>5. CASE FrameRing!Buffer
    BY <2>0, <2>2, <2>5 DEF FrameRing!Buffer
  <2>6. CASE FrameRing!PinOffAll \/ FrameRing!Expire
    BY <2>0, <2>1, <2>2, <2>6 DEF FrameRing!PinOffAll, FrameRing!Expire
  <2>7. ASSUME NEW h \in Holders, FrameRing!PinOn(h) \/ FrameRing!PinOff(h)
        PROVE  FrameRing!TypeOK'
    BY <2>0, <2>1, <2>2, <2>7 DEF FrameRing!PinOn, FrameRing!PinOff
  <2>8. CASE UNCHANGED FrameRing!vars
    BY <2>0, <2>2, <2>8 DEF FrameRing!vars
  <2> QED BY <1>2, <2>3, <2>4, <2>5, <2>6, <2>7, <2>8 DEF FrameRing!Next
<1> QED BY <1>1, <1>2, ExactInvariant, PTL DEF FrameRing!Spec

\* What a push is made of.
LEMMA PushIs ==
    ASSUME FrameRing!RingAssumption, FrameRing!TypeOK, Exact,
           NEW size \in Sizes, NEW headroom \in Headrooms, FrameRing!Push(size, headroom)
    PROVE  /\ cap' \in Nat /\ budget.span \in Nat
           /\ \/ UNCHANGED <<ring, bytes>>
              \/ \E r \in Counted :
                   /\ r.fs = Append(ring, [age |-> 0, size |-> size]) /\ r.n = bytes + size
                   /\ FrameRing!Pinned => ~ (r.n > cap')
                   /\ ring' = FrameRing!Fitted(FrameRing!Expired(r), cap').fs /\ bytes' = FrameRing!Fitted(FrameRing!Expired(r), cap').n
<1> DEFINE f == [age |-> 0, size |-> size]
           r == [fs |-> Append(ring, f), n |-> bytes + f.size]
<1>0. ring \in Fs /\ bytes = FrameRing!Total(ring)
  BY DEF Exact, FrameRing!BytesExact
<1>1. f \in [age : Nat, size : Sizes] /\ f.size = size /\ size \in Nat
  BY DEF FrameRing!RingAssumption
<1>2. Append(ring, f) \in Fs /\ FrameRing!Total(Append(ring, f)) = bytes + f.size
  BY <1>0, <1>1, TotalAppend
<1>3. Len(Append(ring, f)) > 0
  BY <1>0 DEF Fs
<1>4. bytes + f.size \in Nat
  BY <1>0, <1>1, TotalNat
<1>5. r \in Counted
  BY <1>2, <1>3, <1>4, CountedIs
<1>6. cap' \in Nat /\ budget.span \in Nat
  BY DEF FrameRing!Push, FrameRing!CapFor, FrameRing!TypeOK, FrameRing!RingAssumption
<1>7. r.fs = Append(ring, f) /\ r.n = bytes + size
  BY <1>1
<1>8. CASE FrameRing!Pinned /\ bytes + size > cap'
  BY <1>6, <1>8 DEF FrameRing!Push
<1>9. CASE ~ (FrameRing!Pinned /\ bytes + size > cap')
  <2>1. FrameRing!Adds(f, cap')
    BY <1>9 DEF FrameRing!Push
  <2>2. FrameRing!Pushed(f, cap') = FrameRing!Fitted(FrameRing!Expired(r), cap')
    BY DEF FrameRing!Pushed
  <2>3. ring' = FrameRing!Fitted(FrameRing!Expired(r), cap').fs /\ bytes' = FrameRing!Fitted(FrameRing!Expired(r), cap').n
    BY <2>1, <2>2 DEF FrameRing!Adds
  <2>4. FrameRing!Pinned => ~ (r.n > cap')
    BY <1>7, <1>9
  <2> HIDE DEF r
  <2> QED BY <1>5, <1>6, <1>7, <2>3, <2>4
<1> QED BY <1>8, <1>9

\* A push leaves a ring that fits, or one frame.
LEMMA PushFitsStep ==
    ASSUME FrameRing!RingAssumption, FrameRing!TypeOK, Exact, [FrameRing!Next]_FrameRing!vars
    PROVE  FrameRing!Tick \/ UNCHANGED ring \/ bytes' <= cap' \/ Len(ring') = 1
<1>1. ASSUME NEW size \in Sizes, NEW headroom \in Headrooms, FrameRing!Push(size, headroom)
      PROVE  UNCHANGED ring \/ bytes' <= cap' \/ Len(ring') = 1
  <2>1. CASE UNCHANGED <<ring, bytes>>
    BY <2>1
  <2>2. CASE ~ UNCHANGED <<ring, bytes>>
    <3>1. PICK r \in Counted :
             ring' = FrameRing!Fitted(FrameRing!Expired(r), cap').fs /\ bytes' = FrameRing!Fitted(FrameRing!Expired(r), cap').n
      BY <1>1, <2>2, PushIs
    <3>2. cap' \in Nat
      BY <1>1, PushIs
    <3>3. FrameRing!Expired(r) \in Counted
      BY ExpiredCounts
    <3> QED BY <3>1, <3>2, <3>3, FittedFits
  <2> QED BY <2>1, <2>2
<1> QED BY <1>1
           DEF FrameRing!Next, FrameRing!Buffer, FrameRing!PinOffAll, FrameRing!Expire,
               FrameRing!PinOn, FrameRing!PinOff, FrameRing!vars

\* Under a pin a step loses what is old, and nothing else.
LEMMA PinStep ==
    ASSUME FrameRing!RingAssumption, FrameRing!TypeOK, Exact, [FrameRing!Next]_FrameRing!vars, FrameRing!Pinned
    PROVE  FrameRing!Tick \/ FrameRing!LosesOldOnly
<1>0. ring \in Fs /\ Len(ring) \in Nat
  BY DEF Exact, Fs
<1>1. ASSUME UNCHANGED ring PROVE FrameRing!LosesOldOnly
  <2>1. /\ 0 \in 0 .. Len(ring) /\ Len(ring') >= Len(ring) - 0
        /\ \A i \in 1 .. 0 : ring[i].age > budget.span
        /\ \A i \in 0 + 1 .. Len(ring) : ring'[i - 0] = ring[i]
    BY <1>0, <1>1
  <2> QED BY <2>1 DEF FrameRing!LosesOldOnly
<1>2. ASSUME NEW size \in Sizes, NEW headroom \in Headrooms, FrameRing!Push(size, headroom)
      PROVE  FrameRing!LosesOldOnly
  <2>1. CASE UNCHANGED <<ring, bytes>>
    BY <1>1, <2>1
  <2>2. CASE ~ UNCHANGED <<ring, bytes>>
    <3> DEFINE f == [age |-> 0, size |-> size]
    <3>1. PICK r \in Counted :
             /\ r.fs = Append(ring, f) /\ ~ (r.n > cap')
             /\ ring' = FrameRing!Fitted(FrameRing!Expired(r), cap').fs
      BY <1>2, <2>2, PushIs
    <3>2. LostOld(FrameRing!Expired(r), r) /\ FrameRing!Expired(r).n <= r.n /\ FrameRing!Expired(r) \in Counted
      BY ExpiredLosesOld, ExpiredCounts
    <3>3. cap' \in Nat /\ r.n \in Nat /\ FrameRing!Expired(r).n \in Nat
      BY <1>2, <3>2, PushIs DEF Counted
    <3>4. ~ (FrameRing!Expired(r).n > cap')
      BY <3>1, <3>2, <3>3
    <3>5. ring' = FrameRing!Expired(r).fs
      BY <3>1, <3>2, <3>4, FittingStays
    <3>6. PICK cut \in 0 .. Len(r.fs) - 1 :
            /\ Len(FrameRing!Expired(r).fs) = Len(r.fs) - cut
            /\ \A i \in 1 .. cut : r.fs[i].age > budget.span
            /\ \A i \in 1 .. Len(FrameRing!Expired(r).fs) : FrameRing!Expired(r).fs[i] = r.fs[i + cut]
      BY <3>2 DEF LostOld
    <3>7. Len(r.fs) = Len(ring) + 1 /\ \A i \in 1 .. Len(ring) : r.fs[i] = ring[i]
      <4> HIDE DEF f
      <4> QED BY <1>0, <3>1 DEF Fs
    <3>8. cut \in 0 .. Len(ring) /\ Len(ring') >= Len(ring) - cut
      BY <1>0, <3>5, <3>6, <3>7
    <3>9. \A i \in 1 .. cut : ring[i].age > budget.span
      BY <1>0, <3>6, <3>7, <3>8
    <3>10. ASSUME NEW i \in cut + 1 .. Len(ring) PROVE ring'[i - cut] = ring[i]
      <4>1. i - cut \in 1 .. Len(FrameRing!Expired(r).fs) /\ i - cut + cut = i /\ i \in 1 .. Len(ring)
        BY <1>0, <3>6, <3>7, <3>8
      <4>2. FrameRing!Expired(r).fs[i - cut] = r.fs[i]
        BY <3>6, <4>1
      <4> QED BY <3>5, <3>7, <4>1, <4>2
    <3> QED BY <3>8, <3>9, <3>10 DEF FrameRing!LosesOldOnly
  <2> QED BY <2>1, <2>2
<1> QED BY <1>1, <1>2
           DEF FrameRing!Next, FrameRing!Buffer, FrameRing!PinOffAll, FrameRing!Expire,
               FrameRing!PinOn, FrameRing!PinOff, FrameRing!vars

\* A step that makes room leaves the oldest frame of the span.
LEMMA HistoryStep ==
    ASSUME FrameRing!RingAssumption, FrameRing!TypeOK, Exact, [FrameRing!Next]_FrameRing!vars,
           bytes' # bytes, Len(ring') >= Few, ring[1].age <= budget.span
    PROVE  ring'[1] = ring[1]
<1>0. ring \in Fs /\ Len(ring) \in Nat /\ bytes = FrameRing!Total(ring) /\ Few \in Nat /\ Few >= 6
  BY DEF Exact, FrameRing!BytesExact, Fs, FrameRing!RingAssumption
<1>1. PICK size \in Sizes, headroom \in Headrooms : FrameRing!Push(size, headroom)
  BY DEF FrameRing!Next, FrameRing!Buffer, FrameRing!PinOffAll, FrameRing!Expire,
         FrameRing!PinOn, FrameRing!PinOff, FrameRing!Tick, FrameRing!vars
<1> DEFINE f == [age |-> 0, size |-> size]
<1>2. PICK r \in Counted :
         /\ r.fs = Append(ring, f)
         /\ ring' = FrameRing!Fitted(FrameRing!Expired(r), cap').fs
  BY <1>1, PushIs
<1>3. budget.span \in Nat
  BY <1>1, PushIs
<1>4. CASE Len(ring) > 0
  <2>1. r.fs[1] = ring[1]
    <3> HIDE DEF f
    <3> QED BY <1>0, <1>2, <1>4 DEF Fs
  <2>2. FrameRing!Expired(r) = r
    BY <1>3, <2>1, YoungStays
  <2> QED BY <1>2, <1>3, <2>1, <2>2, FittedKeepsHead
<1>5. CASE Len(ring) = 0
  <2>1. Len(r.fs) = 1
    <3> HIDE DEF f
    <3> QED BY <1>0, <1>2, <1>5 DEF Fs
  <2>2. Len(ring') = 1
    BY <1>2, <2>1, LoneStays
  <2> QED BY <1>0, <2>2
<1> QED BY <1>0, <1>4, <1>5

\* What the ring's count, its cap and its leases promise.
THEOREM RingKeeps ==
    ASSUME FrameRing!RingAssumption
    PROVE  FrameRing!Spec => []FrameRing!BytesExact /\ FrameRing!PushFits /\ FrameRing!PinKeepsRecent /\ FrameRing!HistoryKept
<1>1. FrameRing!TypeOK /\ Exact /\ [FrameRing!Next]_FrameRing!vars =>
        /\ [FrameRing!Tick \/ UNCHANGED ring \/ bytes' <= cap' \/ Len(ring') = 1]_FrameRing!vars
        /\ [FrameRing!Pinned => FrameRing!Tick \/ FrameRing!LosesOldOnly]_FrameRing!vars
        /\ [bytes' # bytes /\ Len(ring') >= Few /\ ring[1].age <= budget.span
              => ring'[1] = ring[1]]_FrameRing!vars
  BY PushFitsStep, PinStep, HistoryStep
<1>2. Exact => FrameRing!BytesExact
  BY DEF Exact
<1> QED
  BY <1>1, <1>2, RingTypes, ExactInvariant, PTL
     DEF FrameRing!Spec, FrameRing!PushFits, FrameRing!PinKeepsRecent, FrameRing!HistoryKept

-----------------------------------------------------------------------------
(* The timeline. *)

\* The numbers of a copy of the ring grow, and are of frames there were.
Grows(items) ==
    /\ \A i \in DOMAIN items : items[i] <= timelineSeq
    /\ \A i, j \in DOMAIN items : i < j => items[i] < items[j]

\* A copy holds what the ring still has of the copy's time.
Covers(items) == \A f \in Timeline!Shown(timelineRing), s \in Timeline!Shown(items) : f <= s => f \in Timeline!Shown(items)

\* What is compared is the neighbour; where there is nothing to compare with,
\* there is a reason.
Compares(j) ==
    /\ j.i <= Len(j.items) + 1
    /\ j.prev # Timeline!None => j.i > 1 /\ j.prev = j.items[j.i - 1]
    /\ j.prev = Timeline!None => \/ j.i = 1 \/ j.i = Len(j.items) + 1
                                 \/ j.items[j.i] \in j.known \/ j.items[j.i - 1] \in bad

\* The invariant of the timeline.
ScoresHold ==
    /\ Grows(timelineRing) /\ bad \subseteq 1 .. timelineSeq
    /\ \A s \in DOMAIN chg : s <= timelineSeq
    /\ \A p \in Timelines : timelineJob[p] # Timeline!Idle => Grows(timelineJob[p].items) /\ Covers(timelineJob[p].items)
    /\ \A p \in Timelines : timelineJob[p].at = "scoring" => Compares(timelineJob[p])
    /\ Timeline!ScoreSkipsNothing

\* What it is to be a sequence, for a set that is not looked into.
LEMMA SeqIs ==
    ASSUME NEW S, NEW s \in Seq(S)
    PROVE  /\ Len(s) \in Nat /\ DOMAIN s = 1 .. Len(s)
           /\ \A i \in 1 .. Len(s) : s[i] \in S
OBVIOUS

\* The first frame that has no score is found, and those before it have one.
LEMMA FirstIsThere ==
    ASSUME NEW items \in Seq(Int), NEW known
    PROVE  /\ Timeline!FirstUnscored(items, known) \in 1 .. Len(items) + 1
           /\ \A j \in 1 .. Timeline!FirstUnscored(items, known) - 1 : items[j] \in known
<1> DEFINE New == {i \in 1 .. Len(items) + 1 : i <= Len(items) => items[i] \notin known}
<1>0. Len(items) \in Nat
  OBVIOUS
<1>1. New \in SUBSET Nat /\ Len(items) + 1 \in New
  BY <1>0
<1> HIDE DEF New
<1>2. PICK i \in New : \A j \in New : i <= j
  BY <1>1, LeastNumber
<1>3. i \in 1 .. Len(items) + 1 /\ (i <= Len(items) => items[i] \notin known)
  BY DEF New
<1>4. \A j \in 1 .. i - 1 : items[j] \in known
  <2> SUFFICES ASSUME NEW j \in 1 .. i - 1, items[j] \notin known PROVE FALSE
    OBVIOUS
  <2>1. j \in New /\ j < i
    BY <1>0, <1>3 DEF New
  <2> QED BY <1>1, <1>2, <2>1
<1> QED BY <1>3, <1>4 DEF Timeline!FirstUnscored

\* Scoring begins at a frame with a score, or where there is none before.
LEMMA FromIsNext ==
    ASSUME NEW items \in Seq(Int), NEW known
    PROVE  /\ Timeline!From(items, known) \in 1 .. Len(items) + 1
           /\ \/ Timeline!From(items, known) = 1 \/ Timeline!From(items, known) = Len(items) + 1
              \/ items[Timeline!From(items, known)] \in known
<1> DEFINE new == Timeline!FirstUnscored(items, known)
<1>1. /\ new \in 1 .. Len(items) + 1 /\ \A j \in 1 .. new - 1 : items[j] \in known
      /\ Len(items) \in Nat
  BY FirstIsThere
<1>2. Timeline!From(items, known) = IF new \in 2 .. Len(items) THEN new - 1 ELSE new
  BY DEF Timeline!From
<1> HIDE DEF new
<1> QED BY <1>1, <1>2

\* What a request can be at.
LEMMA JobTypes ==
    ASSUME Timeline!TypeOK, NEW p \in Timelines
    PROVE  /\ timelineJob[p] \in {Timeline!Idle} \cup Timeline!Opened \cup Timeline!Scoring
           /\ (timelineJob[p] = Timeline!Idle) <=> (timelineJob[p].at = "idle")
           /\ timelineJob[p].at \in {"idle", "opened", "scoring"}
           /\ timelineJob[p].at # "idle" => timelineJob[p].items \in Seq(1 .. Frames)
           /\ timelineJob[p].at = "scoring" => timelineJob[p] \in Timeline!Scoring
<1>1. timelineJob[p] \in {Timeline!Idle} \cup Timeline!Opened \cup Timeline!Scoring
  BY DEF Timeline!TypeOK
<1>2. CASE timelineJob[p] = Timeline!Idle
  BY <1>2 DEF Timeline!Idle
<1>3. CASE timelineJob[p] \in Timeline!Opened
  BY <1>3 DEF Timeline!Opened, Timeline!Idle
<1>4. CASE timelineJob[p] \in Timeline!Scoring
  BY <1>4 DEF Timeline!Scoring, Timeline!Idle
<1> QED BY <1>1, <1>2, <1>3, <1>4

\* A step of the timeline keeps the types.
LEMMA TypesStep ==
    ASSUME Timeline!TimelineAssumption, Timeline!TypeOK, [Timeline!Next]_Timeline!vars
    PROVE  Timeline!TypeOK'
<1> USE DEF Timeline!TimelineAssumption
<1>0. timelineRing \in Seq(1 .. Frames) /\ Frames \in Nat /\ Room \in Nat /\ timelineSeq \in 0 .. Frames
  BY DEF Timeline!TypeOK
<1>1. ASSUME NEW decodes \in BOOLEAN, Timeline!Capture(decodes) PROVE Timeline!TypeOK'
  <2>1. /\ timelineSeq + 1 \in 1 .. Frames /\ timelineSeq' = timelineSeq + 1 /\ timelineRing' = Append(timelineRing, timelineSeq + 1)
        /\ Len(timelineRing) < Room
    BY <1>0, <1>1 DEF Timeline!Capture
  <2>2. timelineRing' \in Seq(1 .. Frames) /\ Len(timelineRing') <= Room
    BY <1>0, <2>1
  <2>3. bad' \subseteq 1 .. Frames /\ timelineSeq' \in 0 .. Frames
    BY <1>1, <2>1 DEF Timeline!Capture, Timeline!TypeOK
  <2> QED BY <1>1, <2>2, <2>3 DEF Timeline!Capture, Timeline!TypeOK
<1>2. ASSUME NEW i \in 1 .. Room, Timeline!Lose(i) PROVE Timeline!TypeOK'
  <2>1. timelineRing' \in Seq(1 .. Frames) /\ Len(timelineRing') <= Room
    <3> DEFINE n == Len(timelineRing) - 1
               lost == [j \in 1 .. n |-> timelineRing[IF j < i THEN j ELSE j + 1]]
    <3>1. n \in Nat /\ i \in 1 .. n /\ timelineRing' = lost /\ Len(timelineRing) <= Room /\ Len(timelineRing) = n + 1
      BY <1>0, <1>2 DEF Timeline!Lose, Timeline!TypeOK
    <3>2. \A j \in 1 .. n : lost[j] \in 1 .. Frames
      BY <1>0, <3>1
    <3>3. lost \in [1 .. n -> 1 .. Frames]
      BY <3>2
    <3>4. lost \in Seq(1 .. Frames) /\ Len(lost) = n
      <4> HIDE DEF lost, n
      <4> QED BY <3>1, <3>3
    <3> QED BY <1>0, <3>1, <3>4
  <2> QED BY <1>2, <2>1 DEF Timeline!Lose, Timeline!TypeOK
<1>3. ASSUME NEW p \in Timelines, Timeline!Open(p) PROVE Timeline!TypeOK'
  <2>1. [at |-> "opened", items |-> timelineRing] \in Timeline!Opened
    BY <1>0 DEF Timeline!Opened
  <2>2. timelineJob' \in [Timelines -> {Timeline!Idle} \cup Timeline!Opened \cup Timeline!Scoring]
    BY <1>3, <2>1 DEF Timeline!Open, Timeline!TypeOK
  <2> QED BY <1>3, <2>2 DEF Timeline!Open, Timeline!TypeOK
<1>4. ASSUME NEW p \in Timelines, Timeline!Begin(p) PROVE Timeline!TypeOK'
  <2> DEFINE new == [at |-> "scoring", items |-> timelineJob[p].items, known |-> DOMAIN chg,
                     i |-> Timeline!From(timelineJob[p].items, DOMAIN chg), prev |-> Timeline!None]
  <2>1. timelineJob[p].items \in Seq(1 .. Frames)
    BY <1>4, JobTypes DEF Timeline!Begin
  <2>2. timelineJob[p].items \in Seq(Int)
    BY <1>0, <2>1
  <2>3. Timeline!From(timelineJob[p].items, DOMAIN chg) \in Nat \ {0}
    BY <2>2, FromIsNext
  <2>4. new \in Timeline!Scoring
    BY <1>0, <2>1, <2>3 DEF Timeline!Scoring, Timeline!None, Timeline!TypeOK
  <2>5. timelineJob' = [timelineJob EXCEPT ![p] = new]
    BY <1>4 DEF Timeline!Begin
  <2>6. timelineJob' \in [Timelines -> {Timeline!Idle} \cup Timeline!Opened \cup Timeline!Scoring]
    <3> HIDE DEF new
    <3> QED BY <2>4, <2>5 DEF Timeline!TypeOK
  <2> QED BY <1>4, <2>6 DEF Timeline!Begin, Timeline!TypeOK
<1>5. ASSUME NEW p \in Timelines, Timeline!Score(p) PROVE Timeline!TypeOK'
  <2> DEFINE s == timelineJob[p].items[timelineJob[p].i]
             new == [timelineJob[p] EXCEPT !.i = @ + 1, !.prev = Timeline!PrevOf(s, @)]
  <2>1. timelineJob[p] \in Timeline!Scoring /\ timelineJob[p].i <= Len(timelineJob[p].items)
    BY <1>5, JobTypes DEF Timeline!Score
  <2>2. s \in 1 .. Frames /\ timelineJob[p].prev \in 0 .. Frames
    BY <2>1 DEF Timeline!Scoring
  <2>3. Timeline!PrevOf(s, timelineJob[p].prev) \in 0 .. Frames
    BY <1>0, <2>2 DEF Timeline!PrevOf, Timeline!None
  <2>4. new \in Timeline!Scoring
    <3> DEFINE i == timelineJob[p].i + 1
               prev == Timeline!PrevOf(s, timelineJob[p].prev)
    <3>1. i \in Nat \ {0} /\ prev \in 0 .. Frames
      BY <2>1, <2>3 DEF Timeline!Scoring
    <3>2. new = [timelineJob[p] EXCEPT !.i = i, !.prev = prev]
      OBVIOUS
    <3> HIDE DEF s, i, prev, new
    <3> QED BY <2>1, <3>1, <3>2 DEF Timeline!Scoring
  <2>5. timelineJob' = [timelineJob EXCEPT ![p] = new]
    BY <1>5 DEF Timeline!Score
  <2>6. timelineJob' \in [Timelines -> {Timeline!Idle} \cup Timeline!Opened \cup Timeline!Scoring]
    <3> HIDE DEF new
    <3> QED BY <2>4, <2>5 DEF Timeline!TypeOK
  <2>7. DOMAIN chg' \subseteq 1 .. Frames /\ \A k \in DOMAIN chg' : chg'[k] \in 0 .. Frames
    <3> DEFINE score == IF s \in bad THEN Timeline!None ELSE timelineJob[p].prev
    <3>1. score \in 0 .. Frames
      BY <1>0, <2>2 DEF Timeline!None
    <3>2. chg' = Timeline!Noted(s, score)
      BY <1>5 DEF Timeline!Score
    <3> HIDE DEF s, score
    <3> QED BY <2>2, <3>1, <3>2 DEF Timeline!Noted, Timeline!TypeOK
  <2> QED BY <1>5, <2>6, <2>7 DEF Timeline!Score, Timeline!TypeOK
<1>6. ASSUME NEW p \in Timelines, Timeline!Answer(p) PROVE Timeline!TypeOK'
  BY <1>6 DEF Timeline!Answer, Timeline!TypeOK
<1>7. CASE UNCHANGED Timeline!vars
  BY <1>7 DEF Timeline!vars, Timeline!TypeOK
<1> QED BY <1>1, <1>2, <1>3, <1>4, <1>5, <1>6, <1>7 DEF Timeline!Next

\* Every variable of the timeline keeps its type, whatever requests overlap.
THEOREM TimelineTypes ==
    ASSUME Timeline!TimelineAssumption
    PROVE  Timeline!Spec => []Timeline!TypeOK
<1>1. Timeline!Init => Timeline!TypeOK
  BY DEF Timeline!Init, Timeline!TypeOK, Timeline!TimelineAssumption
<1>2. Timeline!TypeOK /\ [Timeline!Next]_Timeline!vars => Timeline!TypeOK'
  BY TypesStep
<1> QED BY <1>1, <1>2, PTL DEF Timeline!Spec

\* What a step may not do to the copies that are being scored.
LEMMA CopiesStay ==
    ASSUME Timeline!TypeOK, ScoresHold, timelineSeq' \in {timelineSeq, timelineSeq + 1},
           \A f \in Timeline!Shown(timelineRing)' : f \in Timeline!Shown(timelineRing) \/ f = timelineSeq + 1,
           bad \subseteq bad', NEW p \in Timelines, timelineJob'[p] = timelineJob[p]
    PROVE  /\ timelineJob'[p] # Timeline!Idle => Grows(timelineJob[p].items)' /\ Covers(timelineJob[p].items)'
           /\ timelineJob'[p].at = "scoring" => Compares(timelineJob[p])'
<1>0. timelineSeq \in Nat
  BY DEF Timeline!TypeOK
<1>1. ASSUME timelineJob[p] # Timeline!Idle
      PROVE  Grows(timelineJob[p].items)' /\ Covers(timelineJob[p].items)'
  <2> DEFINE items == timelineJob[p].items
  <2>1. Grows(items) /\ Covers(items) /\ items' = items /\ items \in Seq(1 .. Frames)
    BY <1>1, JobTypes DEF ScoresHold
  <2>2. \A i \in DOMAIN items : items[i] \in Int /\ items[i] <= timelineSeq
    <3> HIDE DEF items
    <3>1. \A i \in DOMAIN items : items[i] \in 1 .. Frames
      BY <2>1, SeqIs
    <3> QED BY <2>1, <3>1 DEF Grows
  <2>3. Grows(items)'
    <3> HIDE DEF items
    <3> QED BY <1>0, <2>1, <2>2 DEF Grows
  <2>4. \A s \in Timeline!Shown(items) : s \in Int /\ s <= timelineSeq
    BY <2>2 DEF Timeline!Shown
  <2>5. Timeline!Shown(items)' = Timeline!Shown(items)
    BY <2>1 DEF Timeline!Shown
  <2>6. Covers(items)'
    <3> SUFFICES ASSUME NEW f \in Timeline!Shown(timelineRing)', NEW s \in Timeline!Shown(items), f <= s
                 PROVE  f \in Timeline!Shown(items)
      BY <2>5 DEF Covers
    <3>1. f \in Timeline!Shown(timelineRing)
      BY <1>0, <2>4
    <3> QED BY <2>1, <3>1 DEF Covers
  <2> QED BY <2>3, <2>6
<1>2. ASSUME timelineJob[p].at = "scoring" PROVE Compares(timelineJob[p])'
  BY <1>2 DEF ScoresHold, Compares
<1> QED BY <1>1, <1>2

\* A step keeps all of ScoresHold: requests in the middle of their scoring, frames
\* that come and go, and frames found bad by another request.
LEMMA ScoresStep ==
    ASSUME Timeline!TimelineAssumption, Timeline!TypeOK, ScoresHold, [Timeline!Next]_Timeline!vars
    PROVE  ScoresHold'
<1>0. /\ timelineRing \in Seq(1 .. Frames) /\ Frames \in Nat /\ Room \in Nat /\ timelineSeq \in 0 .. Frames
      /\ DOMAIN chg \subseteq 1 .. Frames
      /\ \A s \in DOMAIN chg : chg[s] \in 0 .. Frames
      /\ bad \subseteq 1 .. Frames
  BY DEF Timeline!TypeOK, Timeline!TimelineAssumption
<1>1. /\ Len(timelineRing) \in Nat /\ DOMAIN timelineRing = 1 .. Len(timelineRing)
      /\ \A i \in 1 .. Len(timelineRing) : timelineRing[i] \in 1 .. Frames /\ timelineRing[i] <= timelineSeq
      /\ \A i, j \in 1 .. Len(timelineRing) : i < j => timelineRing[i] < timelineRing[j]
  BY <1>0 DEF ScoresHold, Grows
<1>2. ASSUME NEW decodes \in BOOLEAN, Timeline!Capture(decodes) PROVE ScoresHold'
  <2>1. /\ timelineSeq' = timelineSeq + 1 /\ timelineRing' = Append(timelineRing, timelineSeq + 1) /\ chg' = chg /\ timelineJob' = timelineJob
        /\ bad' \subseteq bad \cup {timelineSeq + 1} /\ bad \subseteq bad'
    BY <1>2 DEF Timeline!Capture
  <2>2. DOMAIN timelineRing' = 1 .. Len(timelineRing) + 1 /\ timelineRing'[Len(timelineRing) + 1] = timelineSeq + 1
        /\ \A i \in 1 .. Len(timelineRing) : timelineRing'[i] = timelineRing[i]
    BY <1>0, <1>1, <2>1
  <2>3. \A i \in DOMAIN timelineRing' : i \in 1 .. Len(timelineRing) \/ i = Len(timelineRing) + 1
    BY <1>1, <2>2
  <2>4. Grows(timelineRing)'
    BY <1>0, <1>1, <2>1, <2>2, <2>3 DEF Grows
  <2>5. \A f \in Timeline!Shown(timelineRing)' : f \in Timeline!Shown(timelineRing) \/ f = timelineSeq + 1
    BY <1>1, <2>2, <2>3 DEF Timeline!Shown
  <2>6. Timeline!ScoreSkipsNothing'
    BY <1>0, <2>1, <2>5 DEF Timeline!ScoreSkipsNothing, ScoresHold
  <2>7. bad' \subseteq 1 .. timelineSeq' /\ \A s \in DOMAIN chg' : s <= timelineSeq'
    BY <1>0, <2>1 DEF ScoresHold
  <2>8. \A p \in Timelines : /\ timelineJob'[p] # Timeline!Idle => Grows(timelineJob[p].items)' /\ Covers(timelineJob[p].items)'
                             /\ timelineJob'[p].at = "scoring" => Compares(timelineJob[p])'
    BY <2>1, <2>5, CopiesStay
  <2> QED BY <2>4, <2>6, <2>7, <2>8 DEF ScoresHold
<1>3. ASSUME NEW i \in 1 .. Room, Timeline!Lose(i) PROVE ScoresHold'
  <2>1. /\ i \in 1 .. Len(timelineRing) - 1 /\ UNCHANGED <<timelineSeq, bad, chg, timelineJob>>
        /\ timelineRing' = [j \in 1 .. Len(timelineRing) - 1 |-> timelineRing[IF j < i THEN j ELSE j + 1]]
    BY <1>3 DEF Timeline!Lose
  <2>2. DOMAIN timelineRing' = 1 .. Len(timelineRing) - 1
        /\ \A j \in 1 .. Len(timelineRing) - 1 : timelineRing'[j] = timelineRing[IF j < i THEN j ELSE j + 1]
    BY <2>1
  <2>3. \A j \in 1 .. Len(timelineRing) - 1 : (IF j < i THEN j ELSE j + 1) \in 1 .. Len(timelineRing)
    BY <1>1
  <2>4. Grows(timelineRing)'
    <3>1. ASSUME NEW j \in DOMAIN timelineRing' PROVE timelineRing'[j] <= timelineSeq'
      BY <1>1, <2>1, <2>2, <2>3, <3>1
    <3>2. ASSUME NEW j \in DOMAIN timelineRing', NEW k \in DOMAIN timelineRing', j < k
          PROVE  timelineRing'[j] < timelineRing'[k]
      <4> DEFINE a == IF j < i THEN j ELSE j + 1
                 b == IF k < i THEN k ELSE k + 1
      <4>1. a \in 1 .. Len(timelineRing) /\ b \in 1 .. Len(timelineRing) /\ a < b
        BY <1>1, <2>1, <2>2, <2>3, <3>2
      <4>2. timelineRing'[j] = timelineRing[a] /\ timelineRing'[k] = timelineRing[b]
        BY <2>2, <3>2
      <4> HIDE DEF a, b
      <4> QED BY <1>1, <4>1, <4>2
    <3> QED BY <3>1, <3>2 DEF Grows
  <2>5. \A f \in Timeline!Shown(timelineRing)' : f \in Timeline!Shown(timelineRing)
    BY <1>1, <2>2, <2>3 DEF Timeline!Shown
  <2>6. Timeline!ScoreSkipsNothing'
    BY <2>1, <2>5 DEF Timeline!ScoreSkipsNothing, ScoresHold
  <2>8. \A p \in Timelines : /\ timelineJob'[p] # Timeline!Idle => Grows(timelineJob[p].items)' /\ Covers(timelineJob[p].items)'
                             /\ timelineJob'[p].at = "scoring" => Compares(timelineJob[p])'
    BY <2>1, <2>5, CopiesStay
  <2> QED BY <2>1, <2>4, <2>6, <2>8 DEF ScoresHold
<1>4. ASSUME NEW p \in Timelines, Timeline!Open(p) PROVE ScoresHold'
  <2>1. /\ UNCHANGED <<timelineRing, timelineSeq, bad, chg>>
        /\ timelineJob'[p] = [at |-> "opened", items |-> timelineRing]
        /\ \A q \in Timelines : q # p => timelineJob'[q] = timelineJob[q]
    BY <1>4 DEF Timeline!Open, Timeline!TypeOK
  <2>2. Timeline!Shown(timelineRing)' = Timeline!Shown(timelineRing) /\ Timeline!Shown(timelineJob[p].items)' = Timeline!Shown(timelineRing)
    BY <2>1 DEF Timeline!Shown
  <2>3. Grows(timelineRing)' /\ Grows(timelineJob[p].items)' /\ Covers(timelineJob[p].items)'
    BY <2>1, <2>2 DEF Grows, Covers, ScoresHold
  <2>4. \A q \in Timelines : q # p =>
            /\ timelineJob'[q] # Timeline!Idle => Grows(timelineJob[q].items)' /\ Covers(timelineJob[q].items)'
            /\ timelineJob'[q].at = "scoring" => Compares(timelineJob[q])'
    BY <2>1, <2>2, CopiesStay
  <2>5. Timeline!ScoreSkipsNothing'
    BY <2>1, <2>2 DEF Timeline!ScoreSkipsNothing, ScoresHold
  <2> QED BY <2>1, <2>3, <2>4, <2>5 DEF ScoresHold
<1>5. ASSUME NEW p \in Timelines, Timeline!Begin(p) PROVE ScoresHold'
  <2> DEFINE items == timelineJob[p].items
             i == Timeline!From(items, DOMAIN chg)
  <2>1. /\ UNCHANGED <<timelineRing, timelineSeq, bad, chg>>
        /\ timelineJob'[p] = [at |-> "scoring", items |-> items, known |-> DOMAIN chg, i |-> i,
                      prev |-> Timeline!None]
        /\ \A q \in Timelines : q # p => timelineJob'[q] = timelineJob[q]
    BY <1>5 DEF Timeline!Begin, Timeline!TypeOK
  <2>2. items \in Seq(1 .. Frames) /\ Grows(items) /\ Covers(items)
    BY <1>5, JobTypes DEF Timeline!Begin, ScoresHold
  <2>3. Timeline!Shown(timelineRing)' = Timeline!Shown(timelineRing) /\ Timeline!Shown(timelineJob[p].items)' = Timeline!Shown(items) /\ Grows(timelineRing)'
    BY <2>1 DEF Timeline!Shown, ScoresHold, Grows
  <2>4. Grows(timelineJob[p].items)' /\ Covers(timelineJob[p].items)'
    BY <2>1, <2>2, <2>3 DEF Grows, Covers
  <2>5. /\ i \in 1 .. Len(items) + 1
        /\ i = 1 \/ i = Len(items) + 1 \/ items[i] \in DOMAIN chg
    <3>1. items \in Seq(Int)
      BY <1>0, <2>2
    <3> HIDE DEF items
    <3> QED BY <3>1, FromIsNext
  <2>6. Compares(timelineJob[p])'
    BY <2>1, <2>2, <2>5 DEF Compares
  <2>7. \A q \in Timelines : q # p =>
            /\ timelineJob'[q] # Timeline!Idle => Grows(timelineJob[q].items)' /\ Covers(timelineJob[q].items)'
            /\ timelineJob'[q].at = "scoring" => Compares(timelineJob[q])'
    BY <2>1, <2>3, CopiesStay
  <2>8. Timeline!ScoreSkipsNothing'
    BY <2>1, <2>3 DEF Timeline!ScoreSkipsNothing, ScoresHold
  <2> QED BY <2>1, <2>3, <2>4, <2>6, <2>7, <2>8 DEF ScoresHold
<1>6. ASSUME NEW p \in Timelines, Timeline!Score(p) PROVE ScoresHold'
  <2> DEFINE items == timelineJob[p].items
             i == timelineJob[p].i
             s == items[i]
             prev == timelineJob[p].prev
             score == IF s \in bad THEN Timeline!None ELSE prev
  <2>1. /\ UNCHANGED <<timelineRing, timelineSeq, bad>> /\ i <= Len(items)
        /\ timelineJob'[p] = [timelineJob[p] EXCEPT !.i = i + 1, !.prev = Timeline!PrevOf(s, prev)]
        /\ chg' = Timeline!Noted(s, score)
        /\ \A q \in Timelines : q # p => timelineJob'[q] = timelineJob[q]
    BY <1>6 DEF Timeline!Score, Timeline!TypeOK
  <2>2. timelineJob[p] \in Timeline!Scoring /\ items \in Seq(1 .. Frames) /\ i \in Nat \ {0}
        /\ prev \in 0 .. Frames /\ timelineJob[p].at = "scoring"
    BY <1>6, JobTypes DEF Timeline!Score, Timeline!Scoring
  <2>3. Grows(items) /\ Covers(items) /\ Compares(timelineJob[p])
    BY <2>2 DEF ScoresHold, Timeline!Idle
  <2>4. /\ timelineJob'[p].items = items /\ timelineJob'[p].i = i + 1 /\ timelineJob'[p].prev = Timeline!PrevOf(s, prev)
        /\ timelineJob'[p].known = timelineJob[p].known
    BY <2>1, <2>2 DEF Timeline!Scoring
  <2>5. /\ Len(items) \in Nat /\ DOMAIN items = 1 .. Len(items) /\ i \in 1 .. Len(items)
        /\ \A k \in 1 .. Len(items) : items[k] \in 1 .. Frames /\ items[k] <= timelineSeq
        /\ \A j, k \in 1 .. Len(items) : j < k => items[j] < items[k]
    <3>1. i \in Nat \ {0} /\ items \in Seq(1 .. Frames) /\ i <= Len(items) /\ Grows(items)
      BY <2>1, <2>2, <2>3
    <3> HIDE DEF i, items
    <3>2. /\ Len(items) \in Nat /\ DOMAIN items = 1 .. Len(items)
          /\ \A k \in 1 .. Len(items) : items[k] \in 1 .. Frames
      BY <3>1, SeqIs
    <3>3. i \in 1 .. Len(items)
      BY <3>1, <3>2
    <3>4. \A k \in DOMAIN items : items[k] <= timelineSeq
      BY <3>1 DEF Grows
    <3>5. \A j, k \in DOMAIN items : j < k => items[j] < items[k]
      BY <3>1 DEF Grows
    <3> QED BY <3>2, <3>3, <3>4, <3>5
  <2>6. s \in 1 .. Frames /\ s <= timelineSeq
    BY <2>5
  <2>7. Timeline!Shown(timelineRing)' = Timeline!Shown(timelineRing) /\ Timeline!Shown(timelineJob[p].items)' = Timeline!Shown(items) /\ Grows(timelineRing)'
    BY <2>1, <2>4 DEF Timeline!Shown, ScoresHold, Grows
  <2>8. Grows(timelineJob[p].items)' /\ Covers(timelineJob[p].items)'
    BY <2>1, <2>3, <2>4, <2>7 DEF Grows, Covers
  <2>9. Compares(timelineJob[p])'
    <3>1. Timeline!PrevOf(s, prev) = IF s \in bad THEN Timeline!None ELSE s
      BY DEF Timeline!PrevOf
    <3>2. i + 1 <= Len(items) + 1 /\ i + 1 > 1 /\ items[(i + 1) - 1] = s /\ s # Timeline!None
      BY <2>5, <2>6 DEF Timeline!None
    <3> HIDE DEF items, i, s, prev
    <3> QED BY <2>1, <2>4, <3>1, <3>2 DEF Compares
  <2>10. \A q \in Timelines : q # p =>
            /\ timelineJob'[q] # Timeline!Idle => Grows(timelineJob[q].items)' /\ Covers(timelineJob[q].items)'
            /\ timelineJob'[q].at = "scoring" => Compares(timelineJob[q])'
    BY <2>1, <2>7, CopiesStay
  <2>11. /\ DOMAIN chg' = DOMAIN chg \cup {s}
         /\ \A k \in DOMAIN chg : k # s => chg'[k] = chg[k]
         /\ chg'[s] = score \/ (s \in DOMAIN chg /\ chg'[s] = chg[s])
    BY <2>1 DEF Timeline!Noted
  <2>12. score # Timeline!None => \A f \in Timeline!Shown(timelineRing) : ~ (score < f /\ f < s)
    <3> SUFFICES ASSUME score # Timeline!None, NEW f \in Timeline!Shown(timelineRing), score < f, f < s PROVE FALSE
      OBVIOUS
    <3>1. prev # Timeline!None /\ score = prev
      OBVIOUS
    <3>2. i > 1 /\ score = items[i - 1]
      BY <2>3, <3>1 DEF Compares
    <3>3. f \in Int /\ s \in Timeline!Shown(items)
      BY <1>1, <2>5 DEF Timeline!Shown
    <3>4. f \in Timeline!Shown(items)
      BY <2>3, <2>6, <3>3 DEF Covers
    <3>5. PICK k \in 1 .. Len(items) : f = items[k]
      BY <2>5, <3>4 DEF Timeline!Shown
    <3> HIDE DEF items, i, prev, score
    <3>6. ~ (k < i - 1) /\ ~ (i < k) /\ k # i /\ k # i - 1
      BY <2>5, <3>2, <3>5
    <3> QED BY <2>5, <3>6
  <2>13. Timeline!ScoreSkipsNothing'
    <3> HIDE DEF items, i, s, prev, score
    <3> QED BY <2>7, <2>11, <2>12 DEF Timeline!ScoreSkipsNothing, ScoresHold
  <2>14. \A k \in DOMAIN chg' : k <= timelineSeq'
    BY <2>1, <2>6, <2>11 DEF ScoresHold
  <2> QED BY <2>1, <2>7, <2>8, <2>9, <2>10, <2>13, <2>14 DEF ScoresHold
<1>7. ASSUME NEW p \in Timelines, Timeline!Answer(p) PROVE ScoresHold'
  <2>1. /\ UNCHANGED <<timelineRing, timelineSeq, bad>> /\ timelineJob'[p] = Timeline!Idle
        /\ \A q \in Timelines : q # p => timelineJob'[q] = timelineJob[q]
        /\ DOMAIN chg' \subseteq DOMAIN chg /\ \A s \in DOMAIN chg' : chg'[s] = chg[s]
    BY <1>7 DEF Timeline!Answer, Timeline!TypeOK
  <2>2. Timeline!Shown(timelineRing)' = Timeline!Shown(timelineRing) /\ Grows(timelineRing)'
    BY <2>1 DEF Timeline!Shown, Grows, ScoresHold
  <2>3. \A q \in Timelines : q # p =>
            /\ timelineJob'[q] # Timeline!Idle => Grows(timelineJob[q].items)' /\ Covers(timelineJob[q].items)'
            /\ timelineJob'[q].at = "scoring" => Compares(timelineJob[q])'
    BY <2>1, <2>2, CopiesStay
  <2>4. Timeline!ScoreSkipsNothing'
    BY <2>1, <2>2 DEF Timeline!ScoreSkipsNothing, ScoresHold
  <2> QED BY <2>1, <2>2, <2>3, <2>4 DEF ScoresHold, Timeline!Idle
<1>8. CASE UNCHANGED Timeline!vars
  BY <1>8
     DEF Timeline!vars, ScoresHold, Grows, Covers, Compares, Timeline!Shown,
         Timeline!ScoreSkipsNothing
<1> QED BY <1>2, <1>3, <1>4, <1>5, <1>6, <1>7, <1>8 DEF Timeline!Next

\* A step that scores a frame that was not known, between two that decode, notes a
\* comparison.
LEMMA ScoredStep ==
    ASSUME Timeline!TimelineAssumption, Timeline!TypeOK, ScoresHold, [Timeline!Next]_Timeline!vars, NEW p \in Timelines,
           timelineJob[p].at = "scoring", timelineJob'[p].at = "scoring", timelineJob'[p].i # timelineJob[p].i,
           timelineJob[p].i > 1, timelineJob[p].items[timelineJob[p].i] \notin timelineJob[p].known,
           {timelineJob[p].items[timelineJob[p].i], timelineJob[p].items[timelineJob[p].i - 1]} \cap bad = {}
    PROVE  chg'[timelineJob[p].items[timelineJob[p].i]] # Timeline!None
<1>1. Timeline!Score(p)
  <2>1. timelineJob'[p] # timelineJob[p]
    OBVIOUS
  <2>2. ASSUME NEW q \in Timelines,
               Timeline!Open(q) \/ Timeline!Begin(q) \/ Timeline!Score(q) \/ Timeline!Answer(q)
        PROVE  q = p
    BY <2>1, <2>2
       DEF Timeline!Open, Timeline!Begin, Timeline!Score, Timeline!Answer, Timeline!TypeOK
  <2>3. ~ Timeline!Open(p) /\ ~ Timeline!Begin(p) /\ ~ Timeline!Answer(p)
    BY DEF Timeline!Open, Timeline!Begin, Timeline!Answer, Timeline!TypeOK, Timeline!Idle
  <2> QED BY <2>1, <2>2, <2>3 DEF Timeline!Next, Timeline!Capture, Timeline!Lose, Timeline!vars
<1> DEFINE s == timelineJob[p].items[timelineJob[p].i]
           prev == timelineJob[p].prev
<1>2. chg' = Timeline!Noted(s, IF s \in bad THEN Timeline!None ELSE prev) /\ timelineJob[p].i <= Len(timelineJob[p].items)
  BY <1>1 DEF Timeline!Score
<1>3. timelineJob[p] \in Timeline!Scoring /\ Compares(timelineJob[p])
  BY JobTypes DEF ScoresHold
<1>4. prev # Timeline!None
  BY <1>2, <1>3 DEF Compares, Timeline!Scoring
<1>5. chg' = Timeline!Noted(s, prev)
  BY <1>2
<1> HIDE DEF s, prev
<1>6. chg'[s] = prev
  BY <1>4, <1>5 DEF Timeline!Noted
<1> QED BY <1>4, <1>6 DEF s

\* No score skips a frame that was there and decodes, and none that is new goes
\* without a comparison (`_timeline`), however requests overlap.
THEOREM TimelineIsTrue ==
    ASSUME Timeline!TimelineAssumption
    PROVE  Timeline!Spec => []Timeline!ScoreSkipsNothing /\ Timeline!NewIsScored
<1>1. Timeline!Init => ScoresHold
  BY DEF Timeline!Init, ScoresHold, Grows, Covers, Compares, Timeline!Shown,
         Timeline!ScoreSkipsNothing, Timeline!Idle
<1>2. Timeline!TypeOK /\ ScoresHold /\ [Timeline!Next]_Timeline!vars => ScoresHold'
  BY ScoresStep
<1>3. Timeline!TypeOK /\ ScoresHold /\ [Timeline!Next]_Timeline!vars =>
        [\A p \in Timelines :
          timelineJob[p].at = "scoring" /\ timelineJob'[p].at = "scoring" /\ timelineJob'[p].i # timelineJob[p].i
          => LET i == timelineJob[p].i
                 items == timelineJob[p].items
             IN i > 1 /\ items[i] \notin timelineJob[p].known /\ {items[i], items[i - 1]} \cap bad = {}
                => chg'[items[i]] # Timeline!None]_Timeline!vars
  BY ScoredStep
<1>4. ScoresHold => Timeline!ScoreSkipsNothing
  BY DEF ScoresHold
<1> QED BY <1>1, <1>2, <1>3, <1>4, TimelineTypes, PTL DEF Timeline!Spec, Timeline!NewIsScored

-----------------------------------------------------------------------------
(* Recordings. *)

\* A bounded set of numbers that has any has a greatest.
LEMMA GreatestNumber ==
    ASSUME NEW n \in Nat, NEW T \in SUBSET (0 .. n), T # {}
    PROVE  \E x \in T : \A y \in T : y <= x
<1> DEFINE D == {n - x : x \in T}
<1>1. D \in SUBSET Nat /\ D # {}
  <2>1. \A x \in T : x \in Int /\ 0 <= x /\ x <= n
    OBVIOUS
  <2>2. \A x \in T : n - x \in Nat
    BY <2>1
  <2> QED BY <2>2
<1>2. PICK d \in D : \A e \in D : d <= e
  <2> HIDE DEF D
  <2> QED BY <1>1, LeastNumber
<1>3. PICK x \in T : d = n - x
  BY <1>2
<1>4. \A y \in T : n - x <= n - y
  BY <1>2, <1>3
<1> QED BY <1>4

\* A frame that is followed waits for a time.
LEMMA WaitIs ==
    ASSUME Ends \in Nat, NEW items \in SUBSET (1 .. Ends), NEW t \in Recording!Followed(items)
    PROVE  Recording!Wait(items, t) \in 1 .. Ends
<1> DEFINE L == Recording!Later(items, t)
<1>1. t \in 1 .. Ends /\ L # {} /\ L \subseteq 1 .. Ends /\ \A s \in L : s > t
  BY DEF Recording!Followed, Recording!Later
<1>2. Recording!Wait(items, t) = (CHOOSE s \in L : \A u \in L : s <= u) - t
  BY DEF Recording!Wait
<1> HIDE DEF L
<1>3. L \in SUBSET Nat
  BY <1>1
<1>4. \E s \in L : \A u \in L : s <= u
  BY <1>1, <1>3, LeastNumber
<1>5. PICK s \in L : Recording!Wait(items, t) = s - t
  BY <1>2, <1>4
<1> QED BY <1>1, <1>5

\* There is a wait in the middle of the waits.
LEMMA MedianIs ==
    ASSUME Ends \in Nat, NEW items \in SUBSET (1 .. Ends)
    PROVE  /\ Recording!Median(items) \in Nat \ {0}
           /\ Recording!Followed(items) # {} => Recording!Median(items) \in Recording!Waits(items)
<1> DEFINE F == Recording!Followed(items)
           W == Recording!Waits(items)
<1>1. F \subseteq 1 .. Ends /\ IsFiniteSet(F)
  <2>1. F \subseteq 1 .. Ends
    BY DEF Recording!Followed
  <2>2. IsFiniteSet(1 .. Ends)
    BY FS_Interval
  <2> QED BY <2>1, <2>2, FS_Subset
<1>2. W \subseteq 1 .. Ends /\ \A t \in F : Recording!Wait(items, t) \in W
  BY WaitIs DEF Recording!Waits
<1>3. CASE F = {}
  BY <1>3 DEF Recording!Median
<1>4. CASE F # {}
  <2> DEFINE T == {wait \in W : Recording!Most(items, wait)}
  <2>1. PICK x \in W : \A y \in W : y <= x
    <3>1. W # {} /\ W \in SUBSET (0 .. Ends)
      BY <1>2, <1>4 DEF Recording!Waits
    <3> HIDE DEF W
    <3> QED BY <3>1, GreatestNumber
  <2>2. x \in T
    <3>1. {t \in F : Recording!Wait(items, t) <= x} = F
      BY <1>2, <2>1
    <3>2. Cardinality(F) \in Nat /\ Cardinality(F) # 0
      BY <1>1, <1>4, FS_CardinalityType, FS_EmptySet
    <3>3. Cardinality(F) > Cardinality(F) \div 2
      BY <3>2
    <3> QED BY <2>1, <3>1, <3>3 DEF Recording!Most, Recording!Cardinality, Cardinality
  <2>3. T \in SUBSET Nat /\ T # {}
    BY <1>2, <2>2
  <2>4. PICK m \in T : \A y \in T : m <= y
    <3> HIDE DEF T
    <3> QED BY <2>3, LeastNumber
  <2>5. \E m_1 \in W : /\ Recording!Most(items, m_1)
                       /\ \A less \in W : Recording!Most(items, less) => m_1 <= less
    BY <2>4
  <2>6. Recording!Median(items) \in W
    BY <1>4, <2>5 DEF Recording!Median
  <2> QED BY <1>2, <2>6
<1> QED BY <1>3, <1>4

\* A frame is written once at least and MostRepeats times at most, and once when
\* its wait is the one in the middle.
LEMMA TimesIs ==
    ASSUME Recording!RecordingAssumption, NEW n \in Nat, NEW d \in Nat \ {0}
    PROVE  /\ Recording!Times(n, d) \in 1 .. MostRepeats
           /\ Recording!Times(d, d) = 1
<1>1. n \div d \in Int
  OBVIOUS
<1>2. Recording!Rounded(n, d) \in Int
  BY <1>1 DEF Recording!Rounded
<1>3. d \div d = 1 /\ d % d = 0
  OBVIOUS
<1>4. Recording!Rounded(d, d) = 1
  BY <1>3 DEF Recording!Rounded
<1> QED BY <1>2, <1>4 DEF Recording!Times, Recording!RecordingAssumption

\* What is written of each frame.
LEMMA RepeatedIs ==
    ASSUME Recording!RecordingAssumption, NEW items \in SUBSET (1 .. Ends)
    PROVE  /\ DOMAIN Recording!Repeated(items) = items
           /\ \A t \in items : Recording!Repeated(items)[t] \in 1 .. MostRepeats
           /\ (\A t, u \in Recording!Followed(items) : Recording!Wait(items, t) = Recording!Wait(items, u))
              => \A t \in items : Recording!Repeated(items)[t] = 1
<1> DEFINE med == Recording!Median(items)
           gap(t) == IF t \in Recording!Followed(items) THEN Recording!Wait(items, t) ELSE med
<1>0. Ends \in Nat
  BY DEF Recording!RecordingAssumption
<1>1. med \in Nat \ {0} /\ (Recording!Followed(items) # {} => med \in Recording!Waits(items))
  BY <1>0, MedianIs
<1>2. \A t \in items : gap(t) \in Nat
  BY <1>0, <1>1, WaitIs
<1>3. DOMAIN Recording!Repeated(items) = items /\ \A t \in items : Recording!Repeated(items)[t] = Recording!Times(gap(t), med)
  BY DEF Recording!Repeated
<1> HIDE DEF med
<1>4. \A t \in items : Recording!Repeated(items)[t] \in 1 .. MostRepeats
  BY <1>1, <1>2, <1>3, TimesIs
<1>5. ASSUME \A t, u \in Recording!Followed(items) : Recording!Wait(items, t) = Recording!Wait(items, u), NEW t \in items
      PROVE  Recording!Repeated(items)[t] = 1
  <2>1. gap(t) = med
    BY <1>1, <1>5 DEF Recording!Waits
  <2> QED BY <1>1, <1>3, <2>1, TimesIs
<1> QED BY <1>3, <1>4, <1>5

\* Whatever the ring holds, the recording is of what the caller asked for.
LEMMA OfTheCaller ==
    ASSUME Recording!RecordingAssumption, Recording!TypeOK
    PROVE  Recording!RecordingIsTheCallers
<1> SUFFICES ASSUME NEW since \in 1 .. Ends, NEW first \in {0, 2}, NEW clip \in BOOLEAN,
                    "written" \in DOMAIN Recording!BufferAvi(first, Ends, since, clip)
             PROVE  LET avi == Recording!BufferAvi(first, Ends, since, clip)
                        mine == {s \in recordedRing : s >= since /\ s >= first}
                    IN  /\ DOMAIN avi.written = mine
                        /\ \A t \in mine : avi.written[t] \in 1 .. MostRepeats
                        /\ (\A t, u \in Recording!Followed(mine) : Recording!Wait(mine, t) = Recording!Wait(mine, u))
                           => \A t \in mine : avi.written[t] = 1
  BY DEF Recording!RecordingIsTheCallers
<1> DEFINE mine == {s \in recordedRing : s >= since /\ s >= first}
           items == {s \in recordedRing : first <= s /\ s <= Ends}
           foreign == \E s \in items : s < since
           shown == IF foreign THEN Recording!Ours(items, since) ELSE items
           avi == Recording!BufferAvi(first, Ends, since, clip)
<1>1. recordedRing \subseteq 1 .. Ends /\ Ends \in Nat
  BY DEF Recording!TypeOK, Recording!RecordingAssumption
<1>2. shown = mine
  <2>1. \A s \in recordedRing : s \in Int /\ s <= Ends
    BY <1>1
  <2>2. \A s \in recordedRing : since \in Int /\ first \in Int
    OBVIOUS
  <2>3. Recording!Ours(items, since) = mine
    BY <2>1, <2>2 DEF Recording!Ours
  <2>4. ~foreign => items = mine
    BY <2>1, <2>2
  <2> HIDE DEF items, mine, foreign
  <2> QED BY <2>3, <2>4
<1>3. mine \in SUBSET (1 .. Ends)
  BY <1>1
<1>4. avi = [written |-> Recording!Repeated(shown)]
  <2>1. avi = CASE items = {} -> [error |-> "the buffer is empty"]
         [] foreign /\ ~clip -> [refused |-> "window_precedes_caller"]
         [] foreign /\ clip /\ Recording!Ours(items, since) = {} -> [refused |-> "nothing_after_since"]
         [] OTHER -> [written |-> Recording!Repeated(shown)]
    BY DEF Recording!BufferAvi
  <2>2. "written" \in DOMAIN avi
    OBVIOUS
  <2> HIDE DEF avi, shown, foreign, items
  <2>3. items # {} /\ ~ (foreign /\ ~clip) /\ ~ (foreign /\ clip /\ Recording!Ours(items, since) = {})
    BY <2>1, <2>2
  <2> QED BY <2>1, <2>3
<1>5. avi.written = Recording!Repeated(mine)
  <2> HIDE DEF avi, shown, mine
  <2> QED BY <1>2, <1>4
<1> HIDE DEF avi, mine
<1>6. /\ DOMAIN avi.written = mine
      /\ \A t \in mine : avi.written[t] \in 1 .. MostRepeats
      /\ (\A t, u \in Recording!Followed(mine) : Recording!Wait(mine, t) = Recording!Wait(mine, u))
         => \A t \in mine : avi.written[t] = 1
  BY <1>3, <1>5, RepeatedIs
<1> QED BY <1>6 DEF avi, mine

\* A recording holds the caller's frames and no others, each for a while that is
\* bounded, and once when they came evenly (`buffer_avi`).
THEOREM RecordingsTrue ==
    ASSUME Recording!RecordingAssumption
    PROVE  Recording!Spec => []Recording!RecordingIsTheCallers
<1>1. Recording!Init => Recording!TypeOK
  BY DEF Recording!Init, Recording!TypeOK
<1>2. Recording!TypeOK /\ [Recording!Next]_recordedRing => Recording!TypeOK'
  <2> SUFFICES ASSUME Recording!TypeOK, [Recording!Next]_recordedRing PROVE Recording!TypeOK'
    OBVIOUS
  <2>1. ASSUME NEW gap \in 1 .. Gap, Recording!Capture(gap) PROVE Recording!TypeOK'
    <3> DEFINE t == IF recordedRing = {} THEN gap ELSE Recording!Newest + gap
    <3>1. t \in 1 .. Ends
      <4>1. gap \in Nat /\ gap > 0 /\ Ends \in Nat /\ recordedRing \subseteq 1 .. Ends
        BY DEF Recording!RecordingAssumption, Recording!TypeOK
      <4>2. recordedRing # {} => Recording!Newest \in recordedRing
        <5>1. recordedRing # {} => \E x \in recordedRing : \A y \in recordedRing : y <= x
          <6>1. recordedRing \in SUBSET (0 .. Ends)
            BY <4>1
          <6> QED BY <4>1, <6>1, GreatestNumber
        <5> QED BY <5>1 DEF Recording!Newest
      <4>3. t <= Ends
        BY <2>1 DEF Recording!Capture
      <4>4. CASE recordedRing = {}
        BY <4>1, <4>3, <4>4
      <4>5. CASE recordedRing # {}
        <5>1. t = Recording!Newest + gap
          BY <4>5
        <5> HIDE DEF t
        <5>2. Recording!Newest \in 1 .. Ends
          BY <4>1, <4>2, <4>5
        <5>3. Recording!Newest \in Nat
          BY <4>1, <5>2
        <5> QED BY <4>1, <4>3, <5>1, <5>3
      <4> QED BY <4>4, <4>5
    <3>2. recordedRing' = recordedRing \cup {t}
      BY <2>1 DEF Recording!Capture
    <3> HIDE DEF t
    <3> QED BY <3>1, <3>2 DEF Recording!TypeOK
  <2>2. ASSUME NEW t \in 1 .. Ends, Recording!Lose(t) PROVE Recording!TypeOK'
    BY <2>2 DEF Recording!Lose, Recording!TypeOK
  <2>3. CASE UNCHANGED recordedRing
    BY <2>3 DEF Recording!TypeOK
  <2> QED BY <2>1, <2>2, <2>3 DEF Recording!Next
<1>3. Recording!TypeOK => Recording!RecordingIsTheCallers
  BY OfTheCaller
<1> QED BY <1>1, <1>2, <1>3, PTL DEF Recording!Spec

-----------------------------------------------------------------------------
(* The record of bad frames. *)

\* A thread that has counted a failure, and has no name yet.
Unnamed == [at : {"counted"}, place : Places, behind : BOOLEAN]

\* What a thread is at with the name it holds.
Writing(t) == badJob[t].at \in {"named", "imaged", "noted"}
Removing(t) == badJob[t].at = "removing"
Holding(t) == Writing(t) \/ Removing(t)

BadTypes == BadFrames!TypeOK /\ \A t \in Decoders : badJob[t].at = "counted" => errs > 0

\* What is on disk and not torn is on record or in some thread's hands.
InHand ==
    \A nm \in (badImages \cup notes) \ torn :
        nm \in BadFrames!OnRecord \/ \E t \in Decoders : Holding(t) /\ badJob[t].name = nm

\* The threads that will name a failure of a place, and are not behind.
Leads(t, place) == badJob[t].at = "counted" /\ badJob[t].place = place /\ ~badJob[t].behind

\* A name that no thread will give again.
Older(nm) == nm[1] <= errs /\ \A t \in Decoders : Leads(t, nm[2]) => nm[1] < errs

\* No name twice, or it is one that was read late.
Distinct(s) == \A i, j \in DOMAIN s : i # j => s[i] # s[j] \/ s[i] \in overtaken

\* At a place one thread leads.
OneLeads == \A t, u \in Decoders : \A p \in Places : Leads(t, p) /\ Leads(u, p) => t = u

\* The names on record and in hand are different ones, but for those read late.
NamesApart ==
    /\ OneLeads /\ Distinct(kept)
    /\ \A nm \in BadFrames!OnRecord \ overtaken : Older(nm)
    /\ \A t \in Decoders : Holding(t) /\ badJob[t].name \notin overtaken =>
           Older(badJob[t].name) /\ badJob[t].name \notin BadFrames!OnRecord
    /\ \A t, u \in Decoders : t # u /\ Holding(t) /\ Holding(u) /\ badJob[t].name \notin overtaken =>
           badJob[t].name # badJob[u].name

\* The files that were written are there until their name is taken off.
FilesThere ==
    /\ \A t \in Decoders : badJob[t].at \in {"imaged", "noted"} =>
           badJob[t].name \in badImages \cup overtaken
    /\ \A t \in Decoders : badJob[t].at = "noted" => badJob[t].name \in notes \cup overtaken
    /\ BadFrames!KeptIsThere

\* What a sequence holds.
Elements(s) == {s[i] : i \in DOMAIN s}

\* What a sequence holds with one more,
LEMMA AppendElements ==
    ASSUME NEW S, NEW s \in Seq(S), NEW x \in S
    PROVE  /\ Append(s, x) \in Seq(S) /\ Len(Append(s, x)) = Len(s) + 1
           /\ Elements(Append(s, x)) = Elements(s) \cup {x}
<1>0. Len(s) \in Nat /\ DOMAIN s = 1 .. Len(s)
  OBVIOUS
<1>1. /\ Append(s, x) \in Seq(S) /\ Len(Append(s, x)) = Len(s) + 1
      /\ Append(s, x)[Len(s) + 1] = x /\ \A i \in 1 .. Len(s) : Append(s, x)[i] = s[i]
  OBVIOUS
<1>2. DOMAIN Append(s, x) = 1 .. Len(s) + 1
  BY <1>1
<1>3. 1 .. Len(s) + 1 = (1 .. Len(s)) \cup {Len(s) + 1}
  BY <1>0
<1> DEFINE a == Append(s, x)
           l == Len(s)
<1>4. Elements(a) = {a[i] : i \in 1 .. l} \cup {a[l + 1]}
  <2>1. DOMAIN a = (1 .. l) \cup {l + 1}
    BY <1>2, <1>3
  <2> HIDE DEF a, l
  <2> QED BY <2>1 DEF Elements
<1>5. {a[i] : i \in 1 .. l} = {s[i] : i \in 1 .. l} /\ a[l + 1] = x
  BY <1>1
<1> QED BY <1>0, <1>1, <1>4, <1>5 DEF Elements

\* and with one less.
LEMMA TailElements ==
    ASSUME NEW S, NEW s \in Seq(S), Len(s) > 0
    PROVE  /\ Tail(s) \in Seq(S) /\ Len(Tail(s)) = Len(s) - 1 /\ Head(s) \in S
           /\ Elements(s) = Elements(Tail(s)) \cup {Head(s)}
<1>0. Len(s) \in Nat /\ DOMAIN s = 1 .. Len(s)
  OBVIOUS
<1>1. /\ Tail(s) \in Seq(S) /\ Len(Tail(s)) = Len(s) - 1 /\ Head(s) = s[1] /\ Head(s) \in S
      /\ \A i \in 1 .. Len(s) - 1 : Tail(s)[i] = s[i + 1]
  OBVIOUS
<1>2. DOMAIN Tail(s) = 1 .. Len(s) - 1
  BY <1>1
<1>3. ASSUME NEW i \in 1 .. Len(s) PROVE s[i] \in Elements(Tail(s)) \cup {Head(s)}
  <2>1. CASE i = 1
    BY <1>1, <2>1
  <2>2. CASE i # 1
    <3>1. i - 1 \in 1 .. Len(s) - 1 /\ i - 1 + 1 = i
      BY <1>0, <2>2
    <3>2. Tail(s)[i - 1] = s[i]
      BY <1>1, <3>1
    <3> QED BY <1>2, <3>1, <3>2 DEF Elements
  <2> QED BY <2>1, <2>2
<1>4. ASSUME NEW i \in 1 .. Len(s) - 1 PROVE Tail(s)[i] \in Elements(s)
  <2>1. i + 1 \in 1 .. Len(s)
    BY <1>0
  <2> QED BY <1>0, <1>1, <2>1 DEF Elements
<1>5. 1 \in 1 .. Len(s)
  BY <1>0
<1> QED BY <1>0, <1>1, <1>2, <1>3, <1>4, <1>5 DEF Elements

\* A queue with room for n that takes x: what goes is the oldest, if anything.
Rolled(s, n, x) == Append(IF Len(s) = n THEN Tail(s) ELSE s, x)

\* What a full queue is and becomes.
FullRoll(S, s, x) ==
    /\ Rolled(s, Len(s), x) = Append(Tail(s), x) /\ Tail(s) \in Seq(S) /\ Head(s) \in S
    /\ Rolled(s, Len(s), x) \in Seq(S) /\ Len(Rolled(s, Len(s), x)) = Len(s)
    /\ Elements(Rolled(s, Len(s), x)) = Elements(Tail(s)) \cup {x}
    /\ Elements(s) = Elements(Tail(s)) \cup {Head(s)}

\* A full queue loses its oldest.
LEMMA RolledFull ==
    ASSUME NEW S, NEW s \in Seq(S), NEW x \in S, Len(s) > 0
    PROVE  FullRoll(S, s, x)
<1>1. Rolled(s, Len(s), x) = Append(Tail(s), x)
  BY DEF Rolled
<1>2. Tail(s) \in Seq(S) /\ Len(Tail(s)) = Len(s) - 1 /\ Head(s) \in S
      /\ Elements(s) = Elements(Tail(s)) \cup {Head(s)}
  BY TailElements
<1> DEFINE u == Tail(s)
<1>3. u \in Seq(S)
  BY <1>2
<1> HIDE DEF u
<1>4. /\ Append(u, x) \in Seq(S) /\ Len(Append(u, x)) = Len(u) + 1
      /\ Elements(Append(u, x)) = Elements(u) \cup {x}
  BY <1>3, AppendElements
<1>5. Len(s) - 1 + 1 = Len(s)
  OBVIOUS
<1> QED BY <1>1, <1>2, <1>4, <1>5 DEF u, FullRoll

\* One with room loses nothing.
LEMMA RolledFree ==
    ASSUME NEW S, NEW s \in Seq(S), NEW x \in S, NEW n, Len(s) # n
    PROVE  /\ Rolled(s, n, x) = Append(s, x)
           /\ Rolled(s, n, x) \in Seq(S) /\ Len(Rolled(s, n, x)) = Len(s) + 1
           /\ Elements(Rolled(s, n, x)) = Elements(s) \cup {x}
<1>1. Rolled(s, n, x) = Append(s, x)
  BY DEF Rolled
<1> QED BY <1>1, AppendElements

\* Neither grows beyond its room.
LEMMA RolledTypes ==
    ASSUME NEW S, NEW s \in Seq(S), NEW x \in S, NEW n \in Nat, n > 0, Len(s) <= n
    PROVE  /\ Rolled(s, n, x) \in Seq(S) /\ Len(Rolled(s, n, x)) <= n
           /\ Len(s) = n => Head(s) \in S
<1>0. Len(s) \in Nat
  OBVIOUS
<1>1. CASE Len(s) = n
  <2>1. Len(s) > 0
    BY <1>1
  <2>2. FullRoll(S, s, x)
    BY <2>1, RolledFull
  <2> QED BY <1>1, <2>2 DEF FullRoll
<1>2. CASE Len(s) # n
  BY <1>0, <1>2, RolledFree
<1> QED BY <1>1, <1>2

\* Every variable of the record of bad frames keeps its type, and a thread that has
\* counted an error has one to its count.
THEOREM TypesHold ==
    ASSUME BadFrames!BadFramesAssumption
    PROVE  BadFrames!Spec => []BadTypes
<1> USE DEF BadTypes, BadFrames!TypeOK, BadFrames!Idle
<1>1. BadFrames!Init => BadTypes
  BY DEF BadFrames!Init, BadFrames!BadFramesAssumption
<1>2. ASSUME BadTypes, [BadFrames!Next]_BadFrames!vars PROVE BadTypes'
  <2>0. Errors \in Nat /\ KeptFrames \in Nat /\ KeptFrames > 0
    BY DEF BadFrames!BadFramesAssumption
  <2>1. ASSUME NEW t \in Decoders, BadFrames!Count(t) PROVE BadTypes'
    <3>1. PICK p \in Places :
              badJob' = [u \in Decoders |->
                          IF u = t THEN [at |-> "counted", place |-> p, behind |-> FALSE]
                                   ELSE BadFrames!Behind(u, p)]
      BY <2>1 DEF BadFrames!Count
    <3>2. [at |-> "counted", place |-> p, behind |-> FALSE] \in Unnamed
      BY DEF Unnamed
    <3>3. \A u \in Decoders : BadFrames!Behind(u, p) = badJob[u] \/ BadFrames!Behind(u, p) \in Unnamed
      BY <1>2 DEF BadFrames!Behind, Unnamed
    <3>4. /\ errs' \in 1 .. Errors /\ badImages' = badImages /\ notes' = notes /\ kept' = kept
          /\ torn' = torn /\ overtaken' = overtaken
      BY <1>2, <2>0, <2>1 DEF BadFrames!Count
    <3>5. badJob' \in [Decoders -> {BadFrames!Idle} \cup Unnamed
                \cup [at : {"named", "imaged", "noted", "removing"}, name : BadFrames!Names]]
      BY <1>2, <3>1, <3>2, <3>3 DEF Unnamed
    <3> QED BY <1>2, <3>4, <3>5 DEF Unnamed
  <2>2. ASSUME NEW t \in Decoders, BadFrames!Name(t) PROVE BadTypes'
    <3>1. BadFrames!NameFor(t) \in BadFrames!Names
      BY <1>2, <2>0, <2>2 DEF BadFrames!Name, BadFrames!NameFor, BadFrames!Names
    <3> HIDE DEF BadFrames!Names, BadFrames!NameFor
    <3> QED BY <1>2, <2>2, <3>1 DEF BadFrames!Name
  <2>3. ASSUME NEW t \in Decoders, BadFrames!WriteImage(t) \/ BadFrames!WriteNote(t)
        PROVE  BadTypes'
    <3>1. badJob[t] \in [at : {"named", "imaged", "noted", "removing"}, name : BadFrames!Names]
      BY <1>2, <2>3 DEF BadFrames!WriteImage, BadFrames!WriteNote
    <3> QED BY <1>2, <2>3, <3>1 DEF BadFrames!WriteImage, BadFrames!WriteNote
  <2>4. ASSUME NEW t \in Decoders, BadFrames!WriteFails(t) PROVE BadTypes'
    <3>1. badJob[t] \in [at : {"named", "imaged", "noted", "removing"}, name : BadFrames!Names]
      BY <1>2, <2>4 DEF BadFrames!WriteFails
    <3> QED BY <1>2, <2>4, <3>1 DEF BadFrames!WriteFails
  <2>5. ASSUME NEW t \in Decoders, BadFrames!Record(t) PROVE BadTypes'
    <3>1. badJob[t] \in [at : {"named", "imaged", "noted", "removing"}, name : BadFrames!Names]
      BY <1>2, <2>5 DEF BadFrames!Record
    <3>2. kept' = Rolled(kept, KeptFrames, badJob[t].name)
      BY <2>5 DEF BadFrames!Record, Rolled
    <3>4. kept \in Seq(BadFrames!Names) /\ Len(kept) <= KeptFrames /\ badJob[t].name \in BadFrames!Names
      BY <1>2, <3>1
    <3> HIDE DEF BadFrames!Names
    <3>3. kept' \in Seq(BadFrames!Names) /\ Len(kept') <= KeptFrames /\ (Len(kept) = KeptFrames => Head(kept) \in BadFrames!Names)
      BY <2>0, <3>2, <3>4, RolledTypes
    <3> QED BY <1>2, <2>5, <3>1, <3>3 DEF BadFrames!Record
  <2>6. ASSUME NEW t \in Decoders, BadFrames!Unlink(t) PROVE BadTypes'
    BY <1>2, <2>6 DEF BadFrames!Unlink
  <2>7. CASE UNCHANGED BadFrames!vars
    BY <1>2, <2>7 DEF BadFrames!vars
  <2> QED BY <1>2, <2>1, <2>2, <2>3, <2>4, <2>5, <2>6, <2>7 DEF BadFrames!Next
<1> QED BY <1>1, <1>2, PTL DEF BadFrames!Spec

\* Names that differ do so in the queue.
LEMMA RolledDistinct ==
    ASSUME NEW S, NEW s \in Seq(S), NEW x \in S, NEW n \in Nat, n > 0, Len(s) <= n,
           Distinct(s), x \notin Elements(s) \/ x \in overtaken
    PROVE  /\ Distinct(Rolled(s, n, x))
           /\ Len(s) = n /\ Head(s) \notin overtaken => Head(s) \notin Elements(Rolled(s, n, x))
<1>1. ASSUME NEW u \in Seq(S), Distinct(u), x \notin Elements(u) \/ x \in overtaken
      PROVE  Distinct(Append(u, x))
  <2>1. /\ Len(u) \in Nat /\ DOMAIN u = 1 .. Len(u) /\ Append(u, x)[Len(u) + 1] = x
        /\ DOMAIN Append(u, x) = 1 .. Len(u) + 1
        /\ \A i \in 1 .. Len(u) : Append(u, x)[i] = u[i]
    OBVIOUS
  <2>2. \A i \in 1 .. Len(u) + 1 : i \in 1 .. Len(u) \/ i = Len(u) + 1
    BY <2>1
  <2>3. \A i \in 1 .. Len(u) : u[i] # x \/ x \in overtaken
    BY <1>1, <2>1 DEF Elements
  <2> QED BY <1>1, <2>1, <2>2, <2>3 DEF Distinct
<1>2. ASSUME Len(s) > 0
      PROVE  /\ Distinct(Tail(s))
             /\ Head(s) \notin overtaken => Head(s) \notin Elements(Tail(s))
  <2>1. /\ Len(s) \in Nat /\ DOMAIN s = 1 .. Len(s) /\ Head(s) = s[1]
        /\ DOMAIN Tail(s) = 1 .. Len(s) - 1
        /\ \A i \in 1 .. Len(s) - 1 : Tail(s)[i] = s[i + 1]
    BY <1>2
  <2>2. \A i \in 1 .. Len(s) - 1 : i + 1 \in 1 .. Len(s) /\ i + 1 # 1
    BY <2>1
  <2>3. \A i, j \in 1 .. Len(s) - 1 : i # j => i + 1 # j + 1
    OBVIOUS
  <2>4. 1 \in 1 .. Len(s)
    BY <1>2, <2>1
  <2> QED BY <2>1, <2>2, <2>3, <2>4 DEF Distinct, Elements
<1>3. CASE Len(s) = n
  <2>1. /\ Head(s) \in S /\ Tail(s) \in Seq(S) /\ Len(s) > 0
        /\ Rolled(s, n, x) = Append(Tail(s), x)
        /\ Elements(Rolled(s, n, x)) = Elements(Tail(s)) \cup {x}
        /\ Elements(s) = Elements(Tail(s)) \cup {Head(s)}
    <3>1. Rolled(s, Len(s), x) = Rolled(s, n, x) /\ Len(s) > 0
      BY <1>3
    <3>2. /\ Head(s) \in S /\ Tail(s) \in Seq(S)
          /\ Rolled(s, Len(s), x) = Append(Tail(s), x)
          /\ Elements(Rolled(s, Len(s), x)) = Elements(Tail(s)) \cup {x}
          /\ Elements(s) = Elements(Tail(s)) \cup {Head(s)}
      <4>1. FullRoll(S, s, x)
        BY <3>1, RolledFull
      <4> QED BY <4>1 DEF FullRoll
    <3> QED BY <3>1, <3>2
  <2>2. /\ Distinct(Tail(s))
        /\ Head(s) \notin overtaken => Head(s) \notin Elements(Tail(s)) \cup {x}
        /\ x \notin Elements(Tail(s)) \/ x \in overtaken
    <3> DEFINE T == Elements(Tail(s))
               h == Head(s)
    <3>0. Len(s) > 0
      BY <2>1
    <3>1. Distinct(Tail(s)) /\ (h \notin overtaken => h \notin T)
      BY <1>2, <3>0
    <3>2. Elements(s) = T \cup {h}
      BY <2>1
    <3> HIDE DEF T, h
    <3>3. (h \notin overtaken => h \notin T \cup {x}) /\ (x \notin T \/ x \in overtaken)
      BY <3>1, <3>2
    <3> QED BY <3>1, <3>3 DEF T, h
  <2> QED BY <1>1, <2>1, <2>2
<1>4. CASE Len(s) # n
  <2>1. Rolled(s, n, x) = Append(s, x)
    BY <1>4 DEF Rolled
  <2> QED BY <1>1, <1>4, <2>1
<1> QED BY <1>3, <1>4

\* What Record does, in terms of the names on record.
LEMMA RecordIs ==
    ASSUME BadFrames!BadFramesAssumption, BadTypes, NEW t \in Decoders, BadFrames!Record(t)
    PROVE  /\ badJob[t].at = "noted" /\ badJob[t].name \in BadFrames!Names /\ kept \in Seq(BadFrames!Names)
           /\ kept' = Rolled(kept, KeptFrames, badJob[t].name) /\ KeptFrames \in Nat /\ KeptFrames > 0
           /\ Len(kept) <= KeptFrames /\ BadFrames!OnRecord = Elements(kept) /\ BadFrames!OnRecord' = Elements(kept')
           /\ \A u \in Decoders : u # t => badJob'[u] = badJob[u]
           /\ IF Len(kept) = KeptFrames
              THEN /\ badJob'[t] = [at |-> "removing", name |-> Head(kept)]
                   /\ BadFrames!OnRecord \cup {badJob[t].name} = BadFrames!OnRecord' \cup {Head(kept)}
              ELSE /\ badJob'[t] = BadFrames!Idle
                   /\ BadFrames!OnRecord' = BadFrames!OnRecord \cup {badJob[t].name}
<1>1. badJob[t] \in [at : {"named", "imaged", "noted", "removing"}, name : BadFrames!Names]
  BY DEF BadTypes, BadFrames!TypeOK, BadFrames!Record, BadFrames!Idle
<1>2. /\ kept \in Seq(BadFrames!Names) /\ Len(kept) <= KeptFrames /\ badJob[t].name \in BadFrames!Names /\ badJob[t].at = "noted"
      /\ KeptFrames \in Nat /\ KeptFrames > 0
  BY <1>1 DEF BadTypes, BadFrames!TypeOK, BadFrames!BadFramesAssumption, BadFrames!Record
<1>3. kept' = Rolled(kept, KeptFrames, badJob[t].name)
  BY DEF BadFrames!Record, Rolled
<1>4. BadFrames!OnRecord = Elements(kept) /\ BadFrames!OnRecord' = Elements(kept')
  BY DEF BadFrames!OnRecord, Elements
<1>5. /\ \A u \in Decoders : u # t => badJob'[u] = badJob[u]
      /\ badJob'[t] = IF Len(kept) = KeptFrames THEN [at |-> "removing", name |-> Head(kept)] ELSE BadFrames!Idle
  BY DEF BadFrames!Record, BadTypes, BadFrames!TypeOK
<1> DEFINE x == badJob[t].name
<1> HIDE DEF x, BadFrames!Names
<1>6. IF Len(kept) = KeptFrames
      THEN /\ Elements(Rolled(kept, KeptFrames, x)) = Elements(Tail(kept)) \cup {x}
           /\ Elements(kept) = Elements(Tail(kept)) \cup {Head(kept)}
      ELSE Elements(Rolled(kept, KeptFrames, x)) = Elements(kept) \cup {x}
  <2>1. x \in BadFrames!Names
    BY <1>2 DEF x
  <2>2. CASE Len(kept) = KeptFrames
    <3>1. kept \in Seq(BadFrames!Names) /\ Len(kept) > 0 /\ x \in BadFrames!Names
      BY <1>2, <2>1, <2>2
    <3>2. /\ Elements(Rolled(kept, Len(kept), x)) = Elements(Tail(kept)) \cup {x}
          /\ Elements(kept) = Elements(Tail(kept)) \cup {Head(kept)}
      <4>1. FullRoll(BadFrames!Names, kept, x)
        BY <3>1, RolledFull
      <4> QED BY <4>1 DEF FullRoll
    <3> QED BY <2>2, <3>2
  <2>3. CASE Len(kept) # KeptFrames
    BY <1>2, <2>1, <2>3, RolledFree
  <2> QED BY <2>2, <2>3
<1>7. IF Len(kept) = KeptFrames THEN BadFrames!OnRecord \cup {x} = BadFrames!OnRecord' \cup {Head(kept)}
                                ELSE BadFrames!OnRecord' = BadFrames!OnRecord \cup {x}
  BY <1>3, <1>4, <1>6 DEF x
<1> QED BY <1>2, <1>3, <1>4, <1>5, <1>7 DEF x

\* A step leaves no file that is neither on record nor in some thread's hands.
LEMMA InHandStep ==
    ASSUME BadFrames!BadFramesAssumption, BadTypes, InHand, [BadFrames!Next]_BadFrames!vars
    PROVE  InHand'
<1> USE DEF InHand, Holding, Writing, Removing
<1>0. badJob \in [Decoders -> {BadFrames!Idle} \cup Unnamed
               \cup [at : {"named", "imaged", "noted", "removing"}, name : BadFrames!Names]]
  BY DEF BadTypes, BadFrames!TypeOK, Unnamed
<1>1. ASSUME NEW t \in Decoders, BadFrames!Count(t) PROVE InHand'
  <2>1. \A u \in Decoders : Holding(u) => badJob'[u] = badJob[u]
    BY <1>0, <1>1 DEF BadFrames!Count, BadFrames!Idle, BadFrames!Behind
  <2> QED BY <1>1, <2>1 DEF BadFrames!Count, BadFrames!OnRecord
<1>2. ASSUME NEW t \in Decoders, BadFrames!Name(t) PROVE InHand'
  <2>1. \A u \in Decoders : Holding(u) => badJob'[u] = badJob[u]
    BY <1>0, <1>2 DEF BadFrames!Name
  <2> QED BY <1>2, <2>1 DEF BadFrames!Name, BadFrames!OnRecord
<1>3. ASSUME NEW t \in Decoders, BadFrames!WriteImage(t) \/ BadFrames!WriteNote(t) PROVE InHand'
  <2>1. /\ \A u \in Decoders : u # t => badJob'[u] = badJob[u]
        /\ badJob'[t].name = badJob[t].name /\ badJob'[t].at \in {"imaged", "noted"} /\ Holding(t)
        /\ badImages' \subseteq badImages \cup {badJob[t].name} /\ notes' \subseteq notes \cup {badJob[t].name}
        /\ torn' = torn /\ BadFrames!OnRecord' = BadFrames!OnRecord
    BY <1>0, <1>3
       DEF BadFrames!WriteImage, BadFrames!WriteNote, BadFrames!OnRecord, BadFrames!Idle, Unnamed
  <2> QED BY <2>1
<1>4. ASSUME NEW t \in Decoders, BadFrames!WriteFails(t) PROVE InHand'
  <2>1. /\ \A u \in Decoders : u # t => badJob'[u] = badJob[u]
        /\ badImages' \subseteq badImages \cup {badJob[t].name} /\ notes' \subseteq notes \cup {badJob[t].name}
        /\ torn' = torn \cup {badJob[t].name} /\ BadFrames!OnRecord' = BadFrames!OnRecord
    BY <1>0, <1>4 DEF BadFrames!WriteFails, BadFrames!OnRecord
  <2> QED BY <2>1
<1>5. ASSUME NEW t \in Decoders, BadFrames!Record(t) PROVE InHand'
  <2> HIDE DEF InHand, Holding, Writing, Removing
  <2>1. badImages' = badImages /\ notes' = notes /\ torn' = torn
    BY <1>5 DEF BadFrames!Record
  <2>2. /\ badJob[t].at = "noted" /\ \A u \in Decoders : u # t => badJob'[u] = badJob[u]
        /\ IF Len(kept) = KeptFrames
           THEN /\ badJob'[t] = [at |-> "removing", name |-> Head(kept)]
                /\ BadFrames!OnRecord \cup {badJob[t].name} = BadFrames!OnRecord' \cup {Head(kept)}
           ELSE BadFrames!OnRecord' = BadFrames!OnRecord \cup {badJob[t].name}
    BY <1>5, RecordIs
  <2>3. ASSUME NEW nm \in (badImages \cup notes) \ torn
        PROVE  nm \in BadFrames!OnRecord' \/ \E u \in Decoders : Holding(u)' /\ badJob'[u].name = nm
    <3>1. CASE \E u \in Decoders : u # t /\ Holding(u) /\ badJob[u].name = nm
      BY <2>2, <3>1 DEF Holding, Writing, Removing
    <3>2. CASE nm \in BadFrames!OnRecord \cup {badJob[t].name}
      <4>1. CASE Len(kept) = KeptFrames /\ nm = Head(kept)
        <5>1. Holding(t)' /\ badJob'[t].name = nm
          BY <2>2, <4>1 DEF Holding, Removing
        <5> QED BY <5>1
      <4>2. CASE ~ (Len(kept) = KeptFrames /\ nm = Head(kept))
        BY <2>2, <3>2, <4>2
      <4> QED BY <4>1, <4>2
    <3>3. nm \in BadFrames!OnRecord \/ \E u \in Decoders : Holding(u) /\ badJob[u].name = nm
      BY DEF InHand
    <3> QED BY <3>1, <3>2, <3>3
  <2> QED BY <2>1, <2>3 DEF InHand
<1>6. ASSUME NEW t \in Decoders, BadFrames!Unlink(t) PROVE InHand'
  <2>1. /\ \A u \in Decoders : u # t => badJob'[u] = badJob[u]
        /\ badImages' \subseteq badImages /\ notes' \subseteq notes
        /\ badJob[t].name \in badImages' \cup notes' => badJob[t].name \in torn'
        /\ torn \subseteq torn' /\ BadFrames!OnRecord' = BadFrames!OnRecord
    BY <1>0, <1>6 DEF BadFrames!Unlink, BadFrames!OnRecord
  <2> QED BY <2>1
<1>7. CASE UNCHANGED BadFrames!vars
  BY <1>7 DEF BadFrames!vars, BadFrames!OnRecord
<1> QED BY <1>1, <1>2, <1>3, <1>4, <1>5, <1>6, <1>7 DEF BadFrames!Next

\* No step mixes the names up, but for those read late.
LEMMA NamesStep ==
    ASSUME BadFrames!BadFramesAssumption, BadTypes, NamesApart, [BadFrames!Next]_BadFrames!vars
    PROVE  NamesApart'
<1>0. /\ badJob \in [Decoders -> {BadFrames!Idle} \cup Unnamed
                  \cup [at : {"named", "imaged", "noted", "removing"}, name : BadFrames!Names]]
      /\ errs \in Nat
  BY DEF BadTypes, BadFrames!TypeOK, BadFrames!BadFramesAssumption, Unnamed
<1>1. \A nm \in BadFrames!Names : nm[1] \in Nat /\ nm[2] \in Places
  BY DEF BadFrames!Names
<1>2. \A t \in Decoders : Holding(t) => badJob[t].name \in BadFrames!Names
  BY <1>0 DEF Holding, Writing, Removing, BadFrames!Idle, Unnamed
<1>3. BadFrames!OnRecord \subseteq BadFrames!Names
  BY DEF BadFrames!OnRecord, BadTypes, BadFrames!TypeOK
<1>4. ASSUME NEW t \in Decoders, BadFrames!Count(t) PROVE NamesApart'
  <2>1. PICK p \in Places :
            badJob' = [u \in Decoders |->
                        IF u = t THEN [at |-> "counted", place |-> p, behind |-> FALSE]
                                 ELSE BadFrames!Behind(u, p)]
    BY <1>4 DEF BadFrames!Count
  <2>2. /\ badJob[t].at = "decoding" /\ errs' = errs + 1 /\ overtaken' = overtaken
        /\ kept' = kept /\ BadFrames!OnRecord' = BadFrames!OnRecord
    BY <1>4 DEF BadFrames!Count, BadFrames!OnRecord, BadFrames!Idle
  <2>3. \A u \in Decoders : /\ Holding(u)' => Holding(u) /\ badJob'[u] = badJob[u]
    BY <1>0, <2>1 DEF Holding, Writing, Removing, BadFrames!Behind, Unnamed
  <2>4. \A u \in Decoders : \A q \in Places :
            Leads(u, q)' => (u = t /\ q = p) \/ (q # p /\ Leads(u, q))
    <3> TAKE u \in Decoders
    <3> TAKE q \in Places
    <3>1. CASE u = t
      BY <2>1, <3>1 DEF Leads
    <3>2. CASE u # t
      <4>1. badJob'[u] = BadFrames!Behind(u, p)
        BY <2>1, <3>2
      <4>2. CASE badJob[u].at = "counted" /\ badJob[u].place = p
        <5>1. badJob[u] \in Unnamed
          BY <1>0, <4>2 DEF BadFrames!Idle
        <5>2. badJob'[u].behind = TRUE
          BY <4>1, <4>2, <5>1 DEF BadFrames!Behind, Unnamed
        <5> QED BY <5>2 DEF Leads
      <4>3. CASE ~(badJob[u].at = "counted" /\ badJob[u].place = p)
        BY <4>1, <4>3 DEF BadFrames!Behind, Leads
      <4> QED BY <4>2, <4>3
    <3> QED BY <3>1, <3>2
  <2>5. OneLeads'
    BY <2>4 DEF NamesApart, OneLeads
  <2>6. \A nm \in BadFrames!Names : Older(nm) => Older(nm)'
    <3> SUFFICES ASSUME NEW nm \in BadFrames!Names, Older(nm),
                        NEW u \in Decoders, Leads(u, nm[2])'
                 PROVE  nm[1] < errs'
      BY <1>0, <1>1, <2>2 DEF Older
    <3> QED BY <1>0, <1>1, <2>2 DEF Older
  <2> HIDE DEF BadFrames!Names
  <2>7. Distinct(kept)' /\ \A nm \in BadFrames!OnRecord' \ overtaken' : Older(nm)'
    BY <1>3, <2>2, <2>6 DEF NamesApart, Distinct
  <2>8. \A u \in Decoders : Holding(u)' /\ badJob'[u].name \notin overtaken' =>
            Older(badJob[u].name)' /\ badJob'[u].name \notin BadFrames!OnRecord'
    BY <1>2, <2>2, <2>3, <2>6 DEF NamesApart
  <2>9. \A u, v \in Decoders :
            u # v /\ Holding(u)' /\ Holding(v)' /\ badJob'[u].name \notin overtaken' =>
                badJob'[u].name # badJob'[v].name
    BY <2>2, <2>3 DEF NamesApart
  <2> QED BY <2>5, <2>7, <2>8, <2>9 DEF NamesApart
<1>5. ASSUME NEW t \in Decoders, BadFrames!Name(t) PROVE NamesApart'
  <2>0. badJob[t] \in Unnamed /\ badJob[t].place \in Places
    BY <1>0, <1>5 DEF BadFrames!Name, BadFrames!Idle, Unnamed
  <2>p. PICK p \in Places : p = badJob[t].place
    BY <2>0
  <2>x. PICK x \in {<<errs, p>>} : TRUE
    OBVIOUS
  <2>1. /\ \A u \in Decoders : u # t => badJob'[u] = badJob[u]
        /\ badJob'[t].at = "named" /\ badJob'[t].name = x /\ badJob[t].at = "counted"
        /\ errs' = errs /\ kept' = kept /\ BadFrames!OnRecord' = BadFrames!OnRecord
        /\ overtaken' = overtaken \cup (IF badJob[t].behind THEN {x} ELSE {})
    BY <1>0, <1>5, <2>p, <2>x DEF BadFrames!Name, BadFrames!NameFor, BadFrames!OnRecord
  <2>2. x[1] = errs /\ x[2] = p /\ p \in Places /\ p = badJob[t].place /\ badJob[t] \in Unnamed
    BY <2>0, <2>p, <2>x
  <2>3. \A u \in Decoders : u # t /\ Holding(u)' => Holding(u) /\ badJob'[u] = badJob[u]
    BY <2>1 DEF Holding, Writing, Removing
  <2>4. \A u \in Decoders : \A q \in Places : Leads(u, q)' => u # t /\ Leads(u, q)
    BY <2>1 DEF Leads
  <2>5. \A nm \in BadFrames!Names : Older(nm) => Older(nm)'
    BY <1>0, <1>1, <2>1, <2>4 DEF Older
  <2>6. x \notin overtaken' => Leads(t, p)
    BY <2>1, <2>2 DEF Leads, Unnamed
  <2>7. x \notin overtaken' => \A nm \in BadFrames!Names : Older(nm) => nm # x
    <3> SUFFICES ASSUME x \notin overtaken', NEW nm \in BadFrames!Names, Older(nm), nm = x
                 PROVE  FALSE
      OBVIOUS
    <3>1. nm[1] = errs /\ nm[2] = p
      BY <2>2
    <3> QED BY <1>0, <2>6, <3>1 DEF Older
  <2>8. x \notin overtaken' => x[1] <= errs' /\ \A u \in Decoders : ~Leads(u, p)'
    BY <1>0, <2>1, <2>2, <2>4, <2>6 DEF NamesApart, OneLeads
  <2>9. x \notin overtaken' => Older(x)'
    BY <2>2, <2>8 DEF Older
  <2>10. OneLeads' /\ Distinct(kept)'
    BY <2>1, <2>4 DEF NamesApart, OneLeads, Distinct
  <2> HIDE DEF BadFrames!Names
  <2>11. \A nm \in BadFrames!OnRecord \ overtaken' :
             Older(nm)' /\ (x \notin overtaken' => nm # x)
    BY <1>3, <2>1, <2>5, <2>7 DEF NamesApart
  <2>12. \A u \in Decoders : u # t /\ Holding(u) /\ badJob[u].name \notin overtaken' =>
             Older(badJob[u].name) /\ (x \notin overtaken' => badJob[u].name # x)
    BY <1>2, <2>1, <2>7 DEF NamesApart
  <2>13. \A u \in Decoders : Holding(u)' /\ badJob'[u].name \notin overtaken' =>
             Older(badJob[u].name)' /\ badJob'[u].name \notin BadFrames!OnRecord'
    <3> TAKE u \in Decoders
    <3>1. CASE u = t
      <4>1. ASSUME x \notin overtaken' PROVE Older(x)' /\ x \notin BadFrames!OnRecord'
        BY <2>1, <2>9, <2>11, <4>1
      <4> QED BY <2>1, <3>1, <4>1
    <3>2. CASE u # t
      BY <1>2, <2>1, <2>3, <2>5, <2>12, <3>2 DEF NamesApart
    <3> QED BY <3>1, <3>2
  <2>14. \A u, v \in Decoders :
             u # v /\ Holding(u)' /\ Holding(v)' /\ badJob'[u].name \notin overtaken' =>
                 badJob'[u].name # badJob'[v].name
    <3> TAKE u, v \in Decoders
    <3>1. CASE u = t
      BY <2>1, <2>3, <2>12, <3>1
    <3>2. CASE v = t
      BY <2>1, <2>3, <2>12, <3>2
    <3>3. CASE u # t /\ v # t
      BY <2>1, <2>3, <3>3 DEF NamesApart
    <3> QED BY <3>1, <3>2, <3>3
  <2> QED BY <2>1, <2>10, <2>11, <2>13, <2>14 DEF NamesApart
<1>6. ASSUME NEW t \in Decoders,
             \/ BadFrames!WriteImage(t) \/ BadFrames!WriteNote(t)
             \/ BadFrames!WriteFails(t) \/ BadFrames!Unlink(t)
      PROVE  NamesApart'
  <2>1. /\ \A u \in Decoders : u # t => badJob'[u] = badJob[u]
        /\ \/ /\ badJob'[t].at \in {"imaged", "noted"} /\ badJob'[t].name = badJob[t].name
              /\ badJob[t].at \in {"named", "imaged"}
           \/ badJob'[t].at = "decoding"
        /\ errs' = errs /\ kept' = kept /\ BadFrames!OnRecord' = BadFrames!OnRecord
        /\ overtaken' = overtaken
    BY <1>0, <1>6
       DEF BadFrames!WriteImage, BadFrames!WriteNote, BadFrames!WriteFails, BadFrames!Unlink,
           BadFrames!OnRecord, BadFrames!Idle, Unnamed
  <2>2. \A u \in Decoders : \A q \in Places : Leads(u, q)' => Leads(u, q)
    BY <2>1 DEF Leads
  <2>3. \A u \in Decoders : Holding(u)' => Holding(u) /\ badJob'[u].name = badJob[u].name
    BY <2>1 DEF Holding, Writing, Removing
  <2>4. \A nm \in BadFrames!Names : Older(nm) => Older(nm)'
    BY <1>1, <2>1, <2>2 DEF Older
  <2>5. OneLeads' /\ Distinct(kept)'
    BY <2>1, <2>2 DEF NamesApart, OneLeads, Distinct
  <2> HIDE DEF BadFrames!Names
  <2> QED BY <1>2, <1>3, <2>1, <2>3, <2>4, <2>5 DEF NamesApart
<1>8. ASSUME NEW t \in Decoders, BadFrames!Record(t) PROVE NamesApart'
  <2> DEFINE x == badJob[t].name
  <2>1. /\ badJob[t].at = "noted" /\ x \in BadFrames!Names /\ kept \in Seq(BadFrames!Names)
        /\ kept' = Rolled(kept, KeptFrames, x) /\ KeptFrames \in Nat /\ KeptFrames > 0
        /\ Len(kept) <= KeptFrames /\ BadFrames!OnRecord = Elements(kept) /\ BadFrames!OnRecord' = Elements(kept')
        /\ \A u \in Decoders : u # t => badJob'[u] = badJob[u]
        /\ IF Len(kept) = KeptFrames
           THEN /\ badJob'[t] = [at |-> "removing", name |-> Head(kept)]
                /\ BadFrames!OnRecord \cup {x} = BadFrames!OnRecord' \cup {Head(kept)}
           ELSE /\ badJob'[t] = BadFrames!Idle
                /\ BadFrames!OnRecord' = BadFrames!OnRecord \cup {x}
    BY <1>8, RecordIs
  <2>2. errs' = errs /\ overtaken' = overtaken
    BY <1>8 DEF BadFrames!Record
  <2>3. Holding(t) /\ (x \notin overtaken => x \notin BadFrames!OnRecord /\ Older(x))
    BY <2>1 DEF NamesApart, Writing, Holding
  <2>4. \A u \in Decoders : \A q \in Places : Leads(u, q)' => Leads(u, q)
    BY <2>1 DEF Leads, BadFrames!Idle
  <2>5. \A nm \in BadFrames!Names : Older(nm) => Older(nm)'
    BY <1>1, <2>1, <2>2, <2>4 DEF Older
  <2> HIDE DEF x, BadFrames!Names
  <2>6. /\ Distinct(kept')
        /\ Len(kept) = KeptFrames /\ Head(kept) \notin overtaken => Head(kept) \notin BadFrames!OnRecord'
    <3>1. Distinct(kept) /\ (x \notin Elements(kept) \/ x \in overtaken)
      BY <2>1, <2>3 DEF NamesApart
    <3> QED BY <2>1, <3>1, RolledDistinct
  <2>7. OneLeads' /\ Distinct(kept)'
    BY <2>2, <2>4, <2>6 DEF NamesApart, OneLeads, Distinct
  <2>8. BadFrames!OnRecord' \subseteq BadFrames!OnRecord \cup {x}
    BY <2>1
  <2>9. \A nm \in BadFrames!OnRecord' \ overtaken' : Older(nm)'
    BY <1>3, <2>1, <2>2, <2>3, <2>5, <2>8 DEF NamesApart
  <2>10. \A u \in Decoders : u # t /\ Holding(u)' => Holding(u) /\ badJob'[u] = badJob[u]
    BY <2>1 DEF Holding, Writing, Removing
  <2>11. \A u \in Decoders : u # t /\ Holding(u) /\ badJob[u].name \notin overtaken =>
             badJob[u].name # x
    BY <2>3 DEF NamesApart, x
  <2>12. Holding(t)' => /\ Len(kept) = KeptFrames /\ badJob'[t].name = Head(kept)
                        /\ Head(kept) \in BadFrames!OnRecord
    <3>1. Holding(t)' => Len(kept) = KeptFrames /\ badJob'[t].name = Head(kept)
      BY <2>1 DEF Holding, Writing, Removing, BadFrames!Idle
    <3>2. Len(kept) = KeptFrames => Head(kept) \in Elements(kept)
      <4>1. Len(kept) > 0 => 1 \in DOMAIN kept /\ Head(kept) = kept[1]
        BY <2>1
      <4> QED BY <2>1, <4>1 DEF Elements
    <3> QED BY <2>1, <3>1, <3>2
  <2>13. \A u \in Decoders : Holding(u)' /\ badJob'[u].name \notin overtaken' =>
             Older(badJob[u].name)' /\ badJob'[u].name \notin BadFrames!OnRecord'
    <3> TAKE u \in Decoders
    <3>1. CASE u = t
      BY <1>3, <2>2, <2>5, <2>6, <2>12, <3>1 DEF NamesApart
    <3>2. CASE u # t
      BY <1>2, <2>2, <2>5, <2>8, <2>10, <2>11, <3>2 DEF NamesApart
    <3> QED BY <3>1, <3>2
  <2>14. \A u, v \in Decoders :
             u # v /\ Holding(u)' /\ Holding(v)' /\ badJob'[u].name \notin overtaken' =>
                 badJob'[u].name # badJob'[v].name
    <3> SUFFICES ASSUME NEW u \in Decoders, NEW v \in Decoders, u # v, Holding(u)', Holding(v)',
                        badJob'[u].name \notin overtaken', badJob'[u].name = badJob'[v].name
                 PROVE  FALSE
      OBVIOUS
    <3>1. CASE u = t
      <4>1. Holding(v) /\ badJob[v].name = Head(kept) /\ Head(kept) \in BadFrames!OnRecord
        BY <2>10, <2>12, <3>1
      <4> QED BY <2>2, <2>12, <3>1, <4>1 DEF NamesApart
    <3>2. CASE v = t
      <4>1. Holding(u) /\ badJob[u].name = Head(kept) /\ Head(kept) \in BadFrames!OnRecord
        BY <2>10, <2>12, <3>2
      <4> QED BY <2>2, <2>12, <3>2, <4>1 DEF NamesApart
    <3>3. CASE u # t /\ v # t
      BY <2>2, <2>10, <3>3 DEF NamesApart
    <3> QED BY <3>1, <3>2, <3>3
  <2> QED BY <2>7, <2>9, <2>13, <2>14 DEF NamesApart
<1>9. CASE UNCHANGED BadFrames!vars
  <2>1. UNCHANGED <<badJob, errs, kept, overtaken>> /\ BadFrames!OnRecord' = BadFrames!OnRecord
    BY <1>9 DEF BadFrames!vars, BadFrames!OnRecord
  <2> QED BY <2>1 DEF NamesApart, OneLeads, Leads, Distinct, Older, Holding, Writing, Removing
<1> QED BY <1>4, <1>5, <1>6, <1>8, <1>9 DEF BadFrames!Next

\* What is on record has its files after every step.
LEMMA FilesStep ==
    ASSUME BadFrames!BadFramesAssumption, BadTypes, NamesApart, FilesThere, [BadFrames!Next]_BadFrames!vars
    PROVE  FilesThere'
<1>0. badJob \in [Decoders -> {BadFrames!Idle} \cup Unnamed
               \cup [at : {"named", "imaged", "noted", "removing"}, name : BadFrames!Names]]
  BY DEF BadTypes, BadFrames!TypeOK, Unnamed
<1>1. ASSUME NEW t \in Decoders,
             BadFrames!Count(t) \/ BadFrames!Name(t) \/ BadFrames!WriteFails(t)
      PROVE  FilesThere'
  <2>1. /\ \A u \in Decoders : badJob'[u].at \in {"imaged", "noted"} => badJob'[u] = badJob[u]
        /\ badJob'[t].at \in {"counted", "named", "decoding"}
        /\ overtaken \subseteq overtaken' /\ badImages \subseteq badImages' /\ notes \subseteq notes' /\ BadFrames!OnRecord' = BadFrames!OnRecord
    BY <1>0, <1>1
       DEF BadFrames!Count, BadFrames!Name, BadFrames!WriteFails, BadFrames!OnRecord,
           BadFrames!Idle, BadFrames!Behind, Unnamed
  <2> QED BY <2>1 DEF FilesThere, BadFrames!KeptIsThere
<1>2. ASSUME NEW t \in Decoders, BadFrames!WriteImage(t) \/ BadFrames!WriteNote(t)
      PROVE  FilesThere'
  <2>1. /\ \A u \in Decoders : u # t => badJob'[u] = badJob[u]
        /\ badJob'[t].name = badJob[t].name
        /\ badImages \subseteq badImages' /\ notes \subseteq notes' /\ BadFrames!OnRecord' = BadFrames!OnRecord
        /\ overtaken' = overtaken
        /\ badJob'[t].at \in {"imaged", "noted"} => badJob[t].name \in badImages' \cup overtaken
        /\ badJob'[t].at = "noted" => badJob[t].name \in notes' \cup overtaken
    BY <1>0, <1>2
       DEF BadFrames!WriteImage, BadFrames!WriteNote, BadFrames!OnRecord, BadFrames!Idle,
           FilesThere, Unnamed
  <2> QED BY <2>1 DEF FilesThere, BadFrames!KeptIsThere
<1>3. ASSUME NEW t \in Decoders, BadFrames!Record(t) PROVE FilesThere'
  <2>1. /\ badJob[t].at = "noted" /\ \A u \in Decoders : u # t => badJob'[u] = badJob[u]
        /\ IF Len(kept) = KeptFrames
           THEN /\ badJob'[t] = [at |-> "removing", name |-> Head(kept)]
                /\ BadFrames!OnRecord \cup {badJob[t].name} = BadFrames!OnRecord' \cup {Head(kept)}
           ELSE /\ badJob'[t] = BadFrames!Idle
                /\ BadFrames!OnRecord' = BadFrames!OnRecord \cup {badJob[t].name}
    BY <1>3, RecordIs
  <2>2. badImages' = badImages /\ notes' = notes /\ overtaken' = overtaken
    BY <1>3 DEF BadFrames!Record
  <2>3. BadFrames!OnRecord' \subseteq BadFrames!OnRecord \cup {badJob[t].name} /\ badJob'[t].at \in {"removing", "decoding"}
    BY <2>1 DEF BadFrames!Idle
  <2> QED BY <2>1, <2>2, <2>3 DEF FilesThere, BadFrames!KeptIsThere
<1>4. ASSUME NEW t \in Decoders, BadFrames!Unlink(t) PROVE FilesThere'
  <2>1. /\ \A u \in Decoders : u # t => badJob'[u] = badJob[u]
        /\ badJob'[t].at = "decoding" /\ BadFrames!OnRecord' = BadFrames!OnRecord
        /\ badImages \ {badJob[t].name} \subseteq badImages' /\ notes \ {badJob[t].name} \subseteq notes'
        /\ overtaken' = overtaken
    BY <1>0, <1>4 DEF BadFrames!Unlink, BadFrames!OnRecord, BadFrames!Idle
  <2>2. Removing(t)
    BY <1>4 DEF BadFrames!Unlink, Removing
  <2>3. badJob[t].name \notin BadFrames!OnRecord \ overtaken
    BY <2>2 DEF NamesApart, Holding
  <2>4. \A u \in Decoders : badJob[u].at \in {"imaged", "noted"} =>
            badJob[u].name # badJob[t].name \/ badJob[u].name \in overtaken
    BY <2>2 DEF NamesApart, Writing, Holding, Removing
  <2> QED BY <2>1, <2>3, <2>4 DEF FilesThere, BadFrames!KeptIsThere
<1>5. CASE UNCHANGED BadFrames!vars
  BY <1>5 DEF BadFrames!vars, FilesThere, BadFrames!KeptIsThere, BadFrames!OnRecord
<1> QED BY <1>1, <1>2, <1>3, <1>4, <1>5 DEF BadFrames!Next

\* However the threads interleave, and wherever they decode, the files of the
\* record are there, but for a name whose number was read late.
THEOREM RecordIsThere ==
    ASSUME BadFrames!BadFramesAssumption
    PROVE  BadFrames!Spec => []BadFrames!KeptIsThere
<1>1. BadFrames!Init => NamesApart /\ FilesThere
  BY DEF BadFrames!Init, NamesApart, FilesThere, BadFrames!KeptIsThere, BadFrames!OnRecord,
         Distinct, OneLeads, Leads, Holding, Writing, Removing, BadFrames!Idle
<1>2. BadTypes /\ NamesApart /\ FilesThere /\ [BadFrames!Next]_BadFrames!vars => NamesApart' /\ FilesThere'
  BY NamesStep, FilesStep
<1>3. FilesThere => BadFrames!KeptIsThere
  BY DEF FilesThere
<1> QED BY <1>1, <1>2, <1>3, TypesHold, PTL DEF BadFrames!Spec

-----------------------------------------------------------------------------
(* The bound of the directory. *)

\* A sequence holds no more things than its length.
LEMMA ElementsFew ==
    ASSUME NEW S, NEW s \in Seq(S)
    PROVE  IsFiniteSet(Elements(s)) /\ Cardinality(Elements(s)) <= Len(s)
<1>1. Len(s) \in Nat /\ DOMAIN s = 1 .. Len(s)
  OBVIOUS
<1>2. IsFiniteSet(1 .. Len(s)) /\ Cardinality(1 .. Len(s)) = Len(s)
  <2> DEFINE n == Len(s)
  <2>1. 1 \in Int /\ n \in Nat /\ n \in Int
    BY <1>1
  <2> HIDE DEF n
  <2>2. IsFiniteSet(1 .. n) /\ Cardinality(1 .. n) = IF 1 > n THEN 0 ELSE n - 1 + 1
    BY <2>1, FS_Interval
  <2>3. (IF 1 > n THEN 0 ELSE n - 1 + 1) = n
    BY <2>1
  <2> QED BY <2>2, <2>3 DEF n
<1>3. s \in Surjection(1 .. Len(s), Elements(s))
  BY <1>1 DEF Elements, Surjection
<1> QED BY <1>2, <1>3, FS_Surjection

\* What threads hold is no more than the threads.
LEMMA HandsFew ==
    ASSUME IsFiniteSet(Decoders)
    PROVE  /\ IsFiniteSet({badJob[t].name : t \in Decoders})
           /\ Cardinality({badJob[t].name : t \in Decoders}) <= Cardinality(Decoders)
<1> DEFINE H == {badJob[t].name : t \in Decoders}
           f == [t \in Decoders |-> badJob[t].name]
<1>1. f \in Surjection(Decoders, H)
  BY DEF Surjection
<1> HIDE DEF f, H
<1>2. IsFiniteSet(H) /\ Cardinality(H) <= Cardinality(Decoders)
  BY <1>1, FS_Surjection
<1> QED BY <1>2 DEF H

\* So what is in the directory is bounded.
LEMMA FewInHand ==
    ASSUME BadFrames!BadFramesAssumption, BadTypes, InHand
    PROVE  BadFrames!DirectoryBounded
<1> DEFINE D == (badImages \cup notes) \ torn
           H == {badJob[t].name : t \in Decoders}
           K == Elements(kept)
<1>1. D \subseteq K \cup H
  <2>1. BadFrames!OnRecord = K
    BY DEF BadFrames!OnRecord, Elements
  <2> QED BY <2>1 DEF InHand
<1>2. IsFiniteSet(H) /\ Cardinality(H) <= Cardinality(Decoders) /\ IsFiniteSet(Decoders)
  BY HandsFew DEF BadFrames!BadFramesAssumption, BadFrames!IsFiniteSet, IsFiniteSet
<1>3. IsFiniteSet(K) /\ Cardinality(K) <= Len(kept) /\ Len(kept) <= KeptFrames
      /\ Len(kept) \in Nat /\ KeptFrames \in Nat
  BY ElementsFew DEF BadTypes, BadFrames!TypeOK, BadFrames!BadFramesAssumption
<1> HIDE DEF D, H, K
<1>4. IsFiniteSet(K \cup H)
      /\ Cardinality(K \cup H) = Cardinality(K) + Cardinality(H) - Cardinality(K \cap H)
  BY <1>2, <1>3, FS_Union
<1>5. IsFiniteSet(K \cap H)
  BY <1>3, FS_Intersection
<1>6. IsFiniteSet(D) /\ Cardinality(D) <= Cardinality(K \cup H)
  BY <1>1, <1>4, FS_Subset
<1>7. /\ Cardinality(K) \in Nat /\ Cardinality(H) \in Nat /\ Cardinality(K \cap H) \in Nat
      /\ Cardinality(D) \in Nat /\ Cardinality(Decoders) \in Nat
      /\ Cardinality(K \cup H) \in Nat
  BY <1>2, <1>3, <1>4, <1>5, <1>6, FS_CardinalityType
<1>8. Cardinality(D) <= KeptFrames + Cardinality(Decoders)
  BY <1>2, <1>3, <1>4, <1>6, <1>7
<1> QED BY <1>8 DEF BadFrames!DirectoryBounded, D, BadFrames!Cardinality, Cardinality

\* The directory holds no more than the record, and a file per thread.
THEOREM DirectoryIsBounded ==
    ASSUME BadFrames!BadFramesAssumption
    PROVE  BadFrames!Spec => []BadFrames!DirectoryBounded
<1>1. BadFrames!Init => InHand
  BY DEF BadFrames!Init, InHand
<1>2. BadTypes /\ InHand /\ [BadFrames!Next]_BadFrames!vars => InHand'
  BY InHandStep
<1>3. BadTypes /\ InHand => BadFrames!DirectoryBounded
  BY FewInHand
<1> QED BY <1>1, <1>2, <1>3, TypesHold, PTL DEF BadFrames!Spec

-----------------------------------------------------------------------------
(* Shots. *)

\* What the request knows is true before it is told, too.
ReasonFits(items, reason) ==
    CASE reason = "empty"   -> items = <<>>
      [] reason = "repeats" -> \A f \in Shots!Among(items) : f.look = "blank"
      [] reason = "blank"   -> \A f \in Shots!Among(items) : f.look = "blank"
      [] reason = "broken"  -> \E f \in Shots!Among(items) : f.look = "bad"

\* The invariant of the shots.
ShotsHold ==
    /\ Shots!OnlyPictures
    /\ shot.at \in {"waiting", "told"} => ReasonFits(shot.items, shot.reason)

\* The oldest of some frames is one of them.
LEMMA OldestIsOne ==
    ASSUME NEW fs \in SUBSET Shots!Frame, fs # {}
    PROVE  Shots!Oldest(fs) \in fs
<1> DEFINE T == {f.n : f \in fs}
<1>1. T \in SUBSET Nat /\ T # {}
  BY DEF Shots!Frame
<1>2. PICK x \in T : \A y \in T : x <= y
  <2> HIDE DEF T
  <2> QED BY <1>1, LeastNumber
<1>3. PICK f \in fs : f.n = x
  BY <1>2
<1>4. \A g \in fs : f.n <= g.n
  BY <1>2, <1>3
<1> QED BY <1>4 DEF Shots!Oldest

\* The best candidate shows something.
LEMMA BestShows ==
    ASSUME NEW items \in Seq(Shots!Frame), Shots!Candidates(items) # {}
    PROVE  Shots!Best(items) \in Shots!Frame /\ Shots!Shows(Shots!Best(items))
<1> DEFINE bright == {f \in Shots!Candidates(items) : f.look = "bright"}
           fs == IF bright # {} THEN bright ELSE Shots!Candidates(items)
<1>1. \A i \in DOMAIN items : items[i] \in Shots!Frame
  BY SeqIs
<1>2. Shots!Candidates(items) \subseteq Shots!Frame /\ \A f \in Shots!Candidates(items) : Shots!Shows(f)
  BY <1>1 DEF Shots!Candidates, Shots!Live, Shots!Among
<1>3. fs \subseteq Shots!Candidates(items) /\ fs # {}
  OBVIOUS
<1>4. Shots!Best(items) = Shots!Oldest(fs)
  BY DEF Shots!Best
<1> HIDE DEF fs
<1>5. Shots!Oldest(fs) \in fs
  BY <1>2, <1>3, OldestIsOne
<1> QED BY <1>2, <1>3, <1>4, <1>5

\* When there is no candidate, the reason that is told fits what was looked at.
LEMMA ReasonForFits ==
    ASSUME NEW items \in Seq(Shots!Frame), Shots!Candidates(items) = {}
    PROVE  Shots!ReasonFor(items) \in Shots!Reasons /\ ReasonFits(items, Shots!ReasonFor(items))
<1>1. \A f \in Shots!Among(items) : f.look \in Shots!Looks
  <2>1. \A i \in DOMAIN items : items[i] \in Shots!Frame
    BY SeqIs
  <2> QED BY <2>1 DEF Shots!Among, Shots!Frame
<1>2. \A f \in Shots!Live(items) : f \in Shots!Among(items) /\ f.look \in {"blank", "bad"}
  BY <1>1 DEF Shots!Candidates, Shots!Shows, Shots!Live, Shots!Looks
<1>3. \A f \in Shots!Among(items) : f \notin Shots!Live(items) => f.look = "blank"
  BY DEF Shots!Live, Shots!Same
<1>4. CASE Shots!Live(items) = {}
  BY <1>3, <1>4 DEF Shots!ReasonFor, ReasonFits, Shots!Reasons
<1>5. CASE Shots!Live(items) # {} /\ Shots!Seen(items, "blank") /\ ~ Shots!Seen(items, "bad")
  <2>1. Shots!ReasonFor(items) = "blank"
    BY <1>5 DEF Shots!ReasonFor
  <2>2. \A f \in Shots!Among(items) : f.look = "blank"
    BY <1>2, <1>3, <1>5 DEF Shots!Seen
  <2> QED BY <2>1, <2>2 DEF ReasonFits, Shots!Reasons
<1>6. CASE Shots!Live(items) # {} /\ ~ (Shots!Seen(items, "blank") /\ ~ Shots!Seen(items, "bad"))
  <2>1. Shots!ReasonFor(items) = "broken"
    BY <1>6 DEF Shots!ReasonFor
  <2>2. \E f \in Shots!Among(items) : f.look = "bad"
    BY <1>2, <1>6 DEF Shots!Seen
  <2> QED BY <2>1, <2>2 DEF ReasonFits, Shots!Reasons
<1> QED BY <1>4, <1>5, <1>6

\* What a request for a shot can be at.
LEMMA ShotTypes ==
    ASSUME Shots!TypeOK
    PROVE  /\ shot.at \in {"idle", "selecting", "waiting", "told", "found"}
           /\ (shot.at = "idle") <=> (shot = Shots!Idle)
           /\ shot.at \in {"selecting", "waiting", "told"} => shot.items \in Seq(Shots!Frame)
           /\ shot.at \in {"waiting", "told"} => shot.reason \in Shots!Reasons
           /\ shot.at = "found" => shot.frame \in Shots!Frame
<1> HIDE DEF Shots!Frame
<1>1. CASE shot = Shots!Idle
  BY <1>1 DEF Shots!Idle
<1>2. CASE shot \in [at : {"selecting"}, items : Seq(Shots!Frame), waited : BOOLEAN]
  BY <1>2 DEF Shots!Idle
<1>3. CASE shot \in [at : {"waiting", "told"}, items : Seq(Shots!Frame), reason : Shots!Reasons]
  BY <1>3 DEF Shots!Idle
<1>4. CASE shot \in [at : {"found"}, frame : Shots!Frame]
  BY <1>4 DEF Shots!Idle
<1> QED BY <1>1, <1>2, <1>3, <1>4 DEF Shots!TypeOK

\* The window is made of frames.
LEMMA RecentTypes ==
    ASSUME Shots!TypeOK, Shots!ShotsAssumption
    PROVE  Shots!Recent(Window) \in Seq(Shots!Frame)
<1>1. shotRing \in Seq(Shots!Frame) /\ Window \in Nat
  BY DEF Shots!TypeOK, Shots!ShotsAssumption
<1>2. shotRing \in Seq(Shots!Frame) /\ Len(shotRing) \in Nat
  BY <1>1, SeqIs
<1> HIDE DEF Shots!Frame
<1> DEFINE a == Len(shotRing) - Window + 1
<1>3. CASE ~ (Len(shotRing) <= Window)
  <2>1. Shots!Recent(Window) = SubSeq(shotRing, a, Len(shotRing))
    BY <1>3 DEF Shots!Recent
  <2>2. a \in 1 .. Len(shotRing) + 1
    BY <1>1, <1>2, <1>3
  <2> HIDE DEF a
  <2>3. \A i \in a .. Len(shotRing) : shotRing[i] \in Shots!Frame
    BY <1>1, <1>2, <2>2, SeqIs
  <2> QED BY <1>1, <1>2, <2>1, <2>2, <2>3
<1> QED BY <1>1, <1>3 DEF Shots!Recent

\* A step keeps the types, and what the request knows.
LEMMA PartStep ==
    ASSUME Shots!ShotsAssumption, Shots!TypeOK, ShotsHold, [Shots!Next]_Shots!vars
    PROVE  Shots!TypeOK' /\ ShotsHold'
<1>0. /\ shotRing \in Seq(Shots!Frame) /\ ShotRoom \in Nat \ {0} /\ ShotFrames \in Nat \ {0}
      /\ Len(shotRing) \in Nat /\ \A i \in 1 .. Len(shotRing) : shotRing[i] \in Shots!Frame
      /\ (shotRing # <<>> => Len(shotRing) > 0) /\ Len(shotRing) <= ShotRoom
  <2>1. shotRing \in Seq(Shots!Frame) /\ Len(shotRing) <= ShotRoom
    BY DEF Shots!TypeOK
  <2> HIDE DEF Shots!Frame
  <2> QED BY <2>1, SeqIs DEF Shots!ShotsAssumption
<1>1. ASSUME NEW look \in Shots!Looks, Shots!Capture(look) PROVE Shots!TypeOK' /\ ShotsHold'
  <2> DEFINE n == IF shotRing = <<>> THEN 1 ELSE shotRing[Len(shotRing)].n + 1
             f == [n |-> n, look |-> look]
             r == IF Len(shotRing) = ShotRoom THEN Tail(shotRing) ELSE shotRing
  <2>1. f \in Shots!Frame
    <3>1. shotRing # <<>> => shotRing[Len(shotRing)] \in Shots!Frame
      BY <1>0
    <3>2. n \in Nat /\ n > 0 /\ n <= ShotFrames
      BY <1>0, <1>1, <3>1 DEF Shots!Capture, Shots!Frame
    <3> HIDE DEF n
    <3> QED BY <1>0, <3>2 DEF Shots!Frame
  <2>2. shotRing' = Append(r, f) /\ UNCHANGED <<analog, patient, shot, watch, good>>
    BY <1>1 DEF Shots!Capture
  <2> HIDE DEF f, Shots!Frame
  <2>3. r \in Seq(Shots!Frame) /\ Len(r) < ShotRoom
    BY <1>0
  <2> HIDE DEF r
  <2>4. shotRing' \in Seq(Shots!Frame) /\ Len(shotRing') <= ShotRoom
    BY <1>0, <2>1, <2>2, <2>3
  <2> QED BY <2>2, <2>4 DEF Shots!TypeOK, ShotsHold, Shots!OnlyPictures, ReasonFits
<1>2. CASE Shots!Open
  <2>1. UNCHANGED <<analog, patient, shotRing, watch, good>>
    BY <1>2 DEF Shots!Open
  <2>2. CASE shotRing = <<>>
    <3>1. shot' = [at |-> "told", items |-> <<>>, reason |-> "empty"]
      BY <1>2, <2>2 DEF Shots!Open, Shots!Told
    <3> QED BY <2>1, <3>1
               DEF Shots!TypeOK, ShotsHold, Shots!OnlyPictures, ReasonFits, Shots!Reasons
  <2>3. CASE shotRing # <<>>
    <3>1. shot' = [at |-> "selecting", items |-> Shots!Recent(Window), waited |-> FALSE]
      BY <1>2, <2>3 DEF Shots!Open
    <3> HIDE DEF Shots!Frame
    <3> QED BY <2>1, <3>1, RecentTypes DEF Shots!TypeOK, ShotsHold, Shots!OnlyPictures
  <2> QED BY <2>2, <2>3
<1>3. CASE Shots!Select
  <2> DEFINE items == shot.items
             reason == Shots!ReasonFor(items)
  <2>1. /\ UNCHANGED <<analog, patient, shotRing, watch, good>>
        /\ items \in Seq(Shots!Frame)
    BY <1>3, ShotTypes DEF Shots!Select
  <2>2. CASE Shots!Candidates(items) # {}
    <3>1. shot' = [at |-> "found", frame |-> Shots!Best(items)]
      BY <1>3, <2>2 DEF Shots!Select
    <3>2. Shots!Best(items) \in Shots!Frame /\ Shots!Shows(Shots!Best(items))
      BY <2>1, <2>2, BestShows
    <3> HIDE DEF items, Shots!Frame
    <3> QED BY <2>1, <3>1, <3>2 DEF Shots!TypeOK, ShotsHold, Shots!OnlyPictures
  <2>3. CASE Shots!Candidates(items) = {}
    <3>1. \E at \in {"waiting", "told"} : shot' = [at |-> at, items |-> items, reason |-> reason]
      BY <1>3, <2>3 DEF Shots!Select, Shots!Told
    <3>2. reason \in Shots!Reasons /\ ReasonFits(items, reason)
      BY <2>1, <2>3, ReasonForFits
    <3>3. ReasonFits(shot.items, shot.reason)'
      <4> HIDE DEF items, reason
      <4>1. shot'.items = items /\ shot'.reason = reason
        BY <3>1
      <4> QED BY <3>2, <4>1 DEF ReasonFits, Shots!Among
    <3> HIDE DEF items, reason, Shots!Frame
    <3> QED BY <2>1, <3>1, <3>2, <3>3 DEF Shots!TypeOK, ShotsHold, Shots!OnlyPictures
  <2> QED BY <2>2, <2>3
<1>4. CASE Shots!Retry
  <2> HIDE DEF Shots!Frame
  <2> QED BY <1>4, RecentTypes DEF Shots!Retry, Shots!TypeOK, ShotsHold, Shots!OnlyPictures
<1>5. CASE Shots!GiveUp
  <2>1. /\ UNCHANGED <<analog, patient, shotRing, watch, good>> /\ shot.at = "waiting"
        /\ shot' = [at |-> "told", items |-> shot.items, reason |-> shot.reason]
        /\ shot.items \in Seq(Shots!Frame) /\ shot.reason \in Shots!Reasons
    BY <1>5, ShotTypes DEF Shots!GiveUp, Shots!Told
  <2>2. ReasonFits(shot.items, shot.reason)'
    BY <2>1 DEF ShotsHold, ReasonFits, Shots!Among
  <2> HIDE DEF Shots!Frame
  <2> QED BY <2>1, <2>2 DEF Shots!TypeOK, ShotsHold, Shots!OnlyPictures
<1>6. CASE Shots!Keep
  <2>1. shot.frame \in Shots!Frame /\ shot.at = "found"
    BY <1>6, ShotTypes DEF Shots!Keep
  <2> HIDE DEF Shots!Frame
  <2> QED BY <1>6, <2>1 DEF Shots!Keep, Shots!TypeOK, ShotsHold, Shots!OnlyPictures, Shots!Idle
<1>7. CASE Shots!Tell
  BY <1>7 DEF Shots!Tell, Shots!TypeOK, ShotsHold, Shots!OnlyPictures, Shots!Idle
<1>8. CASE Shots!WatchReads
  <2>1. watch' \in Shots!Frame
    BY <1>0, <1>8 DEF Shots!WatchReads
  <2> HIDE DEF Shots!Frame
  <2> QED BY <1>8, <2>1
             DEF Shots!WatchReads, Shots!TypeOK, ShotsHold, Shots!OnlyPictures, ReasonFits,
                 Shots!Among
<1>9. CASE Shots!WatchKeeps
  <2> HIDE DEF Shots!Frame
  <2> QED BY <1>9
             DEF Shots!WatchKeeps, Shots!TypeOK, ShotsHold, Shots!OnlyPictures, ReasonFits,
                 Shots!Among, Shots!IsPicture
<1>10. CASE UNCHANGED Shots!vars
  BY <1>10 DEF Shots!vars, Shots!TypeOK, ShotsHold, Shots!OnlyPictures, ReasonFits, Shots!Among
<1> QED BY <1>1, <1>2, <1>3, <1>4, <1>5, <1>6, <1>7, <1>8, <1>9, <1>10 DEF Shots!Next

\* A shot is a picture, or the reason why there is none is true of the frames that
\* were looked at (`_shot`).
THEOREM ShotsTrue ==
    ASSUME Shots!ShotsAssumption
    PROVE  Shots!Spec => [](Shots!OnlyPictures /\ Shots!ReasonIsTrue)
<1>1. Shots!Init => Shots!TypeOK /\ ShotsHold
  BY DEF Shots!Init, Shots!TypeOK, ShotsHold, Shots!OnlyPictures, Shots!Idle,
         Shots!ShotsAssumption
<1>2. Shots!TypeOK /\ ShotsHold /\ [Shots!Next]_Shots!vars => Shots!TypeOK' /\ ShotsHold'
  BY PartStep
<1>3. ShotsHold => Shots!OnlyPictures /\ Shots!ReasonIsTrue
  BY DEF ShotsHold, Shots!ReasonIsTrue, ReasonFits
<1> QED BY <1>1, <1>2, <1>3, PTL DEF Shots!Spec

-----------------------------------------------------------------------------
(* All of them together (Evidence). *)

\* Of a step of all the parts each part sees a step of its own, or none.
LEMMA EachItsOwn ==
    ASSUME [Next]_vars
    PROVE  /\ [FrameRing!Next]_FrameRing!vars /\ [Timeline!Next]_Timeline!vars
           /\ [Recording!Next]_recordedRing /\ [BadFrames!Next]_BadFrames!vars
           /\ [Shots!Next]_Shots!vars
<1>1. /\ UNCHANGED ringVars => UNCHANGED FrameRing!vars
      /\ UNCHANGED timelineVars => UNCHANGED Timeline!vars
      /\ UNCHANGED badVars => UNCHANGED BadFrames!vars
      /\ UNCHANGED shotVars => UNCHANGED Shots!vars
  BY DEF ringVars, timelineVars, badVars, shotVars, FrameRing!vars, Timeline!vars,
         BadFrames!vars, Shots!vars
<1>2. CASE UNCHANGED vars
  BY <1>1, <1>2 DEF vars
<1>3. CASE Next
  <2>1. /\ moving # "ring" => UNCHANGED ringVars
        /\ moving # "timeline" => UNCHANGED timelineVars
        /\ moving # "recording" => UNCHANGED recordedRing
        /\ moving # "bad frames" => UNCHANGED badVars
        /\ moving # "shots" => UNCHANGED shotVars
    BY <1>3 DEF Next, OthersStay, Stays
  <2>2. /\ moving = "ring" => FrameRing!Next
        /\ moving = "timeline" => Timeline!Next
        /\ moving = "recording" => Recording!Next
        /\ moving = "bad frames" => BadFrames!Next
        /\ moving = "shots" => Shots!Next
    BY <1>3 DEF Next
  <2> QED BY <1>1, <2>1, <2>2
<1> QED BY <1>2, <1>3

\* So what each part does in a behaviour of all is a behaviour of its own.
LEMMA PartsBehave ==
    Spec => /\ FrameRing!Spec /\ Timeline!Spec /\ Recording!Spec /\ BadFrames!Spec
            /\ Shots!Spec
<1>1. Init => /\ FrameRing!Init /\ Timeline!Init /\ Recording!Init /\ BadFrames!Init
              /\ Shots!Init
  BY DEF Init
<1> QED
  BY <1>1, EachItsOwn, PTL
     DEF Spec, FrameRing!Spec, Timeline!Spec, Recording!Spec, BadFrames!Spec, Shots!Spec

\* The ring's count of bytes is exact after every push, thinning and expiry, and a
\* push leaves it within the cap of its moment, or with one frame (RingWithinCap).
THEOREM RingStaysWithinCap == Spec => RingWithinCap
<1>1. FrameRing!RingAssumption
  BY EvidenceAssumption DEF EvidenceAssumption
<1>2. FrameRing!Spec => []FrameRing!BytesExact /\ FrameRing!PushFits
  BY <1>1, RingKeeps, PTL
<1>3. FrameRing!BytesExact => Of("ring", FrameRing!BytesExact)
  BY DEF Of
<1> QED BY PartsBehave, <1>2, <1>3, PTL DEF RingWithinCap

\* What a pinned ring loses is of its old end and older than the span asked for,
\* whoever pushes, asks for another length or lets go of a lease (PinnedIsKept).
THEOREM PinnedFramesAreKept == Spec => PinnedIsKept
<1>1. FrameRing!RingAssumption
  BY EvidenceAssumption DEF EvidenceAssumption
<1>2. FrameRing!Spec => FrameRing!PinKeepsRecent
  BY <1>1, RingKeeps, PTL
<1> QED BY PartsBehave, <1>2, PTL DEF PinnedIsKept

\* The oldest frame stays when room is made, while there are frames to thin and it
\* is within the span (HistorySurvives).
THEOREM HistoryDoesSurvive == Spec => HistorySurvives
<1>1. FrameRing!RingAssumption
  BY EvidenceAssumption DEF EvidenceAssumption
<1>2. FrameRing!Spec => FrameRing!HistoryKept
  BY <1>1, RingKeeps, PTL
<1> QED BY PartsBehave, <1>2, PTL DEF HistorySurvives

\* Scores compare neighbours and miss no new frame, a recording is the caller's, a
\* frame on record has its files, if its number was not read late, and these stay
\* few, and a shot is a picture or its reason is the true one (EvidenceIsTrue).
THEOREM EvidenceStaysTrue == Spec => EvidenceIsTrue
<1>1. /\ Timeline!TimelineAssumption /\ Recording!RecordingAssumption
      /\ BadFrames!BadFramesAssumption /\ Shots!ShotsAssumption
  BY EvidenceAssumption DEF EvidenceAssumption
<1>2. /\ Timeline!ScoreSkipsNothing => Of("timeline", Timeline!ScoreSkipsNothing)
      /\ Recording!RecordingIsTheCallers =>
             Of("recording", Recording!RecordingIsTheCallers)
      /\ BadFrames!KeptIsThere /\ BadFrames!DirectoryBounded =>
             Of("bad frames", BadFrames!KeptIsThere /\ BadFrames!DirectoryBounded)
      /\ Shots!OnlyPictures /\ Shots!ReasonIsTrue =>
             Of("shots", Shots!OnlyPictures /\ Shots!ReasonIsTrue)
  BY DEF Of
<1>3. Timeline!Spec => []Timeline!ScoreSkipsNothing /\ Timeline!NewIsScored
  BY <1>1, TimelineIsTrue
<1>4. Recording!Spec => []Recording!RecordingIsTheCallers
  BY <1>1, RecordingsTrue
<1>5. /\ BadFrames!Spec => []BadFrames!KeptIsThere
      /\ BadFrames!Spec => []BadFrames!DirectoryBounded
  BY <1>1, RecordIsThere, DirectoryIsBounded
<1>6. Shots!Spec => [](Shots!OnlyPictures /\ Shots!ReasonIsTrue)
  BY <1>1, ShotsTrue
<1> QED BY PartsBehave, <1>2, <1>3, <1>4, <1>5, <1>6, PTL DEF EvidenceIsTrue
=============================================================================
