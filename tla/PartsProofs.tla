---------------------------- MODULE PartsProofs ----------------------------
(***************************************************************************)
(* What holds of the smaller parts (Parts) for every value of their        *)
(* constants: TLC has each of them with a few names.                       *)
(*                                                                         *)
(* Each part has a section of its own with the invariant that carries its  *)
(* properties, and shares no variable with another's.  The last section    *)
(* puts them together: in a behaviour of all the parts each of them does   *)
(* what it does alone, so what holds of it alone holds there.              *)
(*                                                                         *)
(* The relay (AudioRelay) comes first.  That a listener hears a stream     *)
(* from its start is not inductive: which page may come next depends on    *)
(* the one the relay's thread reads, on whether this listener is still in  *)
(* the snapshot it works through, and on what the replay has sent before   *)
(* the listener was on the list.  So the invariant says where each         *)
(* listener is in the stream: one that joins has the headers up to a       *)
(* number it remembers, one on the list has everything up to the page in   *)
(* hand.                                                                   *)
(***************************************************************************)
EXTENDS Parts, Integers, FiniteSets, SequenceTheorems, FiniteSetTheorems, TLAPS

-----------------------------------------------------------------------------
(* The relay of sound to the listeners of the public page. *)

\* s is a stream of epoch e from its first header on, without the page numbers
\* between two audio pages going astray.
Whole(s, e) ==
    \A i \in DOMAIN s :
        /\ s[i][1] = e
        /\ i <= Headers => s[i][2] = i
        /\ i > Headers + 1 => s[i][2] = s[i - 1][2] + 1
        /\ i > Headers => s[i][2] > Headers

\* Page p is the last on s, or s has just the headers and p is later than these.
Follows(s, p) ==
    /\ Len(s) < Headers => p = Len(s)
    /\ Len(s) >= Headers => p >= Headers
    /\ Len(s) > Headers => s[Len(s)][2] = p

Streaming == {"reading", "sending", "deserted"}
Between == {"checking", "connecting", "dropping"}

\* The relay's thread has in the cache the headers among the pages it has read.
RelayOK ==
    /\ loop \in Streaming =>
          /\ headers = IF page.n < Headers THEN page.n ELSE Headers
          /\ page.audio = (page.n > Headers)
    /\ loop \in Between => headers = 0
    /\ loop \in Streaming \cup {"connecting", "over"} => epoch < Streams
    /\ loop \notin {"sending", "dropping"} => sending = AudioRelay!Nobody
    /\ loop = "sending" => page.n > 0
    /\ loop = "dropping" => sending.dead = {}
    /\ sending.to \cap sending.dead = {}

\* A listener that is not on the list yet has as many headers as it counts.
JoiningOK(l) ==
    /\ l \notin attached /\ l \notin sending.to /\ l \notin sending.dead
    /\ Len(got[l]) = mine[l].sent
    /\ mine[l].epoch = epoch => mine[l].sent <= headers
    /\ relayAt[l] = "replaying" =>
          /\ mine[l].sent <= mine[l].upto
          /\ mine[l].epoch = epoch => mine[l].upto <= headers

\* One that is on it has what the thread has read, but for the page in hand.
OnTheList(l) ==
    /\ mine[l].epoch # epoch => loop = "dropping" /\ l \in sending.to
    /\ mine[l].epoch = epoch /\ loop \in Between => got[l] = <<>>
    /\ loop \in Streaming /\ l \notin sending.dead =>
          Follows(got[l], IF l \in sending.to THEN page.n - 1 ELSE page.n)

ListenerOK(l) ==
    /\ relayAt[l] = "away" =>
          got[l] = <<>> /\ l \notin attached /\ sock[l] = "up" /\ mine[l].sent = 0
    /\ Whole(got[l], mine[l].epoch) /\ mine[l].epoch <= epoch
    /\ relayAt[l] \in {"joining", "replaying"} => JoiningOK(l)
    /\ l \in sending.to \cup sending.dead => l \in attached \/ relayAt[l] = "away"
    /\ l \in attached /\ sock[l] # "shut" => OnTheList(l)

RelayInv == AudioRelay!TypeOK /\ RelayOK /\ \A l \in Listeners : ListenerOK(l)

\* t is s with the page x after it.
Adds(s, x, t) ==
    /\ Len(s) \in Nat /\ DOMAIN s = 1 .. Len(s) /\ \A i \in 1 .. Len(s) : s[i] \in Nat \X Nat
    /\ Len(t) = Len(s) + 1 /\ DOMAIN t = 1 .. Len(s) + 1
    /\ \A i \in 1 .. Len(s) : t[i] = s[i]
    /\ t[Len(s) + 1] = x

LEMMA OnePageMore ==
    ASSUME NEW s \in Seq(Nat \X Nat), NEW x \in Nat \X Nat
    PROVE  Adds(s, x, s \o <<x>>)
<1>1. Append(s, x) = s \o <<x>>
    BY AppendIsConcat
<1>2. \A i \in 1 .. Len(s) : s[i] \in Nat \X Nat
    BY ElementOfSeq
<1> QED BY <1>1, <1>2, AppendProperties, LenProperties DEF Adds

LEMMA NextPageFollows ==
    ASSUME Headers \in Nat, Headers > 0, NEW e \in Nat, NEW p \in Nat, NEW s, NEW t,
           Whole(s, e), Follows(s, p), Adds(s, <<e, p + 1>>, t)
    PROVE  Whole(t, e) /\ Follows(t, p + 1)
<1> SUFFICES ASSUME NEW n \in Nat,
                    Len(s) = n, DOMAIN s = 1 .. n, Len(t) = n + 1, DOMAIN t = 1 .. n + 1,
                    \A i \in 1 .. n : s[i] \in Nat \X Nat, \A i \in 1 .. n : t[i] = s[i],
                    t[n + 1] = <<e, p + 1>>
             PROVE  Whole(t, e) /\ Follows(t, p + 1)
    BY DEF Adds
<1>1. Follows(t, p + 1)
    BY DEF Follows
<1>2. ASSUME NEW i \in 1 .. n + 1
      PROVE  /\ t[i][1] = e
             /\ i <= Headers => t[i][2] = i
             /\ i > Headers + 1 => t[i][2] = t[i - 1][2] + 1
             /\ i > Headers => t[i][2] > Headers
  <2>1. CASE i <= n
    <3>1. i \in 1 .. n /\ t[i] = s[i]
        BY <2>1
    <3>2. i > Headers + 1 => i - 1 \in 1 .. n /\ t[i - 1] = s[i - 1]
        BY <2>1
    <3> QED BY <3>1, <3>2 DEF Whole
  <2>2. CASE i = n + 1
    <3>1. i > Headers + 1 => t[i - 1] = s[n] /\ n > Headers
        BY <2>2
    <3>2. t[i][1] = e /\ t[i][2] = p + 1
        BY <2>2
    <3>3. i <= Headers => p + 1 = i
        BY <2>2 DEF Follows
    <3>4. i > Headers => p >= Headers
        BY <2>2 DEF Follows
    <3>5. i > Headers + 1 => s[n][2] = p
        BY <2>2 DEF Follows
    <3>6. (i <= Headers => t[i][2] = i) /\ (i > Headers => t[i][2] > Headers)
        BY <3>2, <3>3, <3>4
    <3>7. i > Headers + 1 => t[i][2] = t[i - 1][2] + 1
        BY <3>1, <3>2, <3>5
    <3> QED BY <3>2, <3>6, <3>7
  <2> QED BY <2>1, <2>2
<1>3. Whole(t, e)
    BY <1>2 DEF Whole
<1> QED BY <1>1, <1>3

\* A replay: k headers were sent, and the next ones up to u are.
Replayed(s, e, k, u) == s \o [i \in 1 .. u - k |-> <<e, k + i>>]

LEMMA ReplayIsWhole ==
    ASSUME Headers \in Nat, NEW e \in Nat, NEW k \in 0 .. Headers, NEW u \in k .. Headers,
           NEW s \in Seq(Nat \X Nat), Whole(s, e), Len(s) = k
    PROVE  Whole(Replayed(s, e, k, u), e) /\ Len(Replayed(s, e, k, u)) = u
<1> DEFINE R == [i \in 1 .. u - k |-> <<e, k + i>>]
<1>1. R \in Seq(Nat \X Nat) /\ Len(R) = u - k
  <2>1. u - k \in Nat /\ \A i \in 1 .. u - k : <<e, k + i>> \in Nat \X Nat
      OBVIOUS
  <2> QED BY <2>1
<1> HIDE DEF R
<1>2. PICK t : t = s \o R
    OBVIOUS
<1>3. DOMAIN s = 1 .. k
    BY LenProperties
<1>4. t \in Seq(Nat \X Nat) /\ Len(t) = u /\ DOMAIN t = 1 .. u
  <2>1. t \in Seq(Nat \X Nat) /\ Len(t) = k + (u - k)
    <3>1. s \o R \in Seq(Nat \X Nat) /\ Len(s \o R) = Len(s) + Len(R)
        BY <1>1, ConcatProperties
    <3> QED BY <3>1, <1>1, <1>2
  <2>2. k + (u - k) = u
      OBVIOUS
  <2> QED BY <2>1, <2>2, LenProperties
<1>5. \A i \in 1 .. u : t[i] = IF i <= k THEN s[i] ELSE R[i - k]
  <2>1. \A i \in 1 .. Len(s) + Len(R) :
            (s \o R)[i] = IF i <= Len(s) THEN s[i] ELSE R[i - Len(s)]
      BY <1>1, ConcatProperties, SMTT(30)
  <2>2. Len(s) + Len(R) = u /\ Len(s) = k
      BY <1>1
  <2> QED BY <2>1, <2>2, <1>2
<1>6. \A i \in 1 .. u - k : R[i] = <<e, k + i>>
    BY DEF R
<1>7. ASSUME NEW i \in 1 .. u PROVE t[i][1] = e /\ t[i][2] = i
  <2>1. CASE i <= k
    <3>1. i \in DOMAIN s /\ i <= Headers
        BY <2>1, <1>3
    <3>2. s[i][1] = e /\ s[i][2] = i
        BY <3>1 DEF Whole
    <3> QED BY <3>2, <1>5, <2>1
  <2>2. CASE i > k
    <3>1. i - k \in 1 .. u - k /\ k + (i - k) = i /\ ~(i <= k)
        BY <2>2
    <3>2. R[i - k] = <<e, i>>
        BY <3>1, <1>6
    <3>3. t[i] = <<e, i>>
        BY <3>1, <3>2, <1>5
    <3> QED BY <3>3
  <2> QED BY <2>1, <2>2
<1>8. \A i \in DOMAIN t : i <= Headers /\ ~(i > Headers) /\ ~(i > Headers + 1)
    BY <1>4
<1>9. Whole(t, e)
    BY <1>4, <1>7, <1>8 DEF Whole
<1> QED BY <1>2, <1>4, <1>9 DEF R, Replayed

\* The ranges of the variables; a listener's pages need the thread's place.
LEMMA RelayTypes ==
    ASSUME AudioRelay!RelayAssumption, RelayInv, AudioRelay!Next
    PROVE  AudioRelay!TypeOK'
<1> USE DEF AudioRelay!TypeOK, AudioRelay!Places, AudioRelay!Nobody, AudioRelay!NoPage, AudioRelay!ours, AudioRelay!theirs
<1>a. /\ Headers \in Nat /\ Headers > 0 /\ Pages \in Nat /\ Streams \in Nat
      /\ AudioRelay!TypeOK /\ RelayOK /\ \A l \in Listeners : ListenerOK(l)
    BY DEF AudioRelay!RelayAssumption, RelayInv
<1>1. CASE AudioRelay!Wanted
    BY <1>a, <1>1 DEF AudioRelay!Wanted
<1>2. CASE AudioRelay!Connects
    BY <1>a, <1>2 DEF AudioRelay!Connects
<1>3. CASE AudioRelay!Reads
  <2>1. headers' \in 0 .. Headers
      BY <1>a, <1>3 DEF AudioRelay!Reads, AudioRelay!IsHeader, RelayOK, Streaming
  <2>2. page' \in [n : 0 .. Headers + Pages, audio : BOOLEAN]
      BY <1>a, <1>3 DEF AudioRelay!Reads, AudioRelay!IsHeader
  <2> QED BY <1>a, <1>3, <2>1, <2>2 DEF AudioRelay!Reads
<1>4. CASE AudioRelay!Bury
    BY <1>a, <1>4 DEF AudioRelay!Bury, AudioRelay!Shut
<1>5. CASE AudioRelay!Deserted
    BY <1>a, <1>5 DEF AudioRelay!Deserted
<1>6. CASE AudioRelay!UpstreamFails
    BY <1>a, <1>6 DEF AudioRelay!UpstreamFails
<1>7. CASE AudioRelay!Over
    BY <1>a, <1>7 DEF AudioRelay!Over, RelayOK
<1>8. CASE AudioRelay!Drop
    BY <1>a, <1>8 DEF AudioRelay!Drop, AudioRelay!Shut
<1>9. ASSUME NEW l \in Listeners, AudioRelay!Sends(l) PROVE AudioRelay!TypeOK'
  <2> DEFINE S == (0 .. Streams) \X (1 .. Headers + Pages)
  <2>1. got[l] \o <<<<epoch, page.n>>>> \in Seq(S)
    <3>1. <<<<epoch, page.n>>>> \in Seq(S)
        BY <1>a, <1>9 DEF AudioRelay!Sends, RelayOK
    <3> QED BY <1>a, <3>1, ConcatProperties
  <2>2. got' = [got EXCEPT ![l] = got[l] \o <<<<epoch, page.n>>>>]
      BY <1>9 DEF AudioRelay!Sends, AudioRelay!Sent
  <2>3. got' \in [Listeners -> Seq(S)]
      BY <1>a, <2>1, <2>2
  <2> QED BY <1>a, <1>9, <2>3 DEF AudioRelay!Sends
<1>10. ASSUME NEW l \in Listeners, AudioRelay!SendFails(l) PROVE AudioRelay!TypeOK'
    BY <1>a, <1>10 DEF AudioRelay!SendFails
<1>11. ASSUME NEW l \in Listeners, AudioRelay!Joins(l) PROVE AudioRelay!TypeOK'
  <2>1. mine[l] \in [epoch : 0 .. Streams, sent : 0 .. Headers, upto : 0 .. Headers]
      BY <1>a
  <2>2. mine' = [mine EXCEPT ![l] = [mine[l] EXCEPT !.epoch = epoch]]
      BY <1>11 DEF AudioRelay!Joins
  <2>3. mine' \in [Listeners -> [epoch : 0 .. Streams, sent : 0 .. Headers, upto : 0 .. Headers]]
      BY <1>a, <2>1, <2>2
  <2> QED BY <1>a, <1>11, <2>3 DEF AudioRelay!Joins, AudioRelay!Goes
<1>12. ASSUME NEW l \in Listeners, AudioRelay!TurnedAway(l) PROVE AudioRelay!TypeOK'
    BY <1>a, <1>12 DEF AudioRelay!TurnedAway, AudioRelay!Goes
<1>13. ASSUME NEW l \in Listeners, AudioRelay!HasUnsent(l) PROVE AudioRelay!TypeOK'
  <2>1. mine[l] \in [epoch : 0 .. Streams, sent : 0 .. Headers, upto : 0 .. Headers]
      BY <1>a
  <2>2. mine' = [mine EXCEPT ![l] = [mine[l] EXCEPT !.upto = headers]]
      BY <1>13 DEF AudioRelay!HasUnsent
  <2>3. mine' \in [Listeners -> [epoch : 0 .. Streams, sent : 0 .. Headers, upto : 0 .. Headers]]
      BY <1>a, <2>1, <2>2
  <2> QED BY <1>a, <1>13, <2>3 DEF AudioRelay!HasUnsent, AudioRelay!Goes
<1>14. ASSUME NEW l \in Listeners, AudioRelay!Replays(l) PROVE AudioRelay!TypeOK'
  <2> DEFINE S == (0 .. Streams) \X (1 .. Headers + Pages)
             k == mine[l].sent
             u == mine[l].upto
             R == [i \in 1 .. u - k |-> <<mine[l].epoch, k + i>>]
  <2>1. /\ mine[l] \in [epoch : 0 .. Streams, sent : 0 .. Headers, upto : 0 .. Headers]
        /\ k <= u /\ u - k \in Nat
      BY <1>a, <1>14 DEF AudioRelay!Replays, AudioRelay!Goes, ListenerOK, JoiningOK
  <2>2. \A i \in 1 .. u - k : <<mine[l].epoch, k + i>> \in S
      BY <1>a, <2>1
  <2>3. R \in Seq(S)
      BY <2>1, <2>2
  <2>4. got[l] \o R \in Seq(S)
      BY <1>a, <2>3, ConcatProperties
  <2>5. got' = [got EXCEPT ![l] = got[l] \o R] /\ mine' = [mine EXCEPT ![l] = [mine[l] EXCEPT !.sent = u]]
      BY <1>14 DEF AudioRelay!Replays, AudioRelay!Sent
  <2>6. got' \in [Listeners -> Seq(S)]
      BY <1>a, <2>4, <2>5
  <2>7. mine' \in [Listeners -> [epoch : 0 .. Streams, sent : 0 .. Headers, upto : 0 .. Headers]]
      BY <1>a, <2>1, <2>5
  <2> QED BY <1>a, <1>14, <2>6, <2>7 DEF AudioRelay!Replays, AudioRelay!Goes
<1>15. ASSUME NEW l \in Listeners, AudioRelay!Attaches(l) PROVE AudioRelay!TypeOK'
    BY <1>a, <1>15 DEF AudioRelay!Attaches, AudioRelay!Goes
<1>16. ASSUME NEW l \in Listeners, AudioRelay!Ends(l) PROVE AudioRelay!TypeOK'
    BY <1>a, <1>16 DEF AudioRelay!Ends, AudioRelay!Goes
<1>17. ASSUME NEW l \in Listeners, AudioRelay!Leaves(l) PROVE AudioRelay!TypeOK'
    BY <1>a, <1>17 DEF AudioRelay!Leaves, AudioRelay!Goes, AudioRelay!NotJoined
<1>18. ASSUME NEW l \in Listeners, AudioRelay!PeerGoes(l) PROVE AudioRelay!TypeOK'
    BY <1>a, <1>18 DEF AudioRelay!PeerGoes
<1> QED BY <1>1, <1>2, <1>3, <1>4, <1>5, <1>6, <1>7, <1>8, <1>9, <1>10, <1>11, <1>12,
           <1>13, <1>14, <1>15, <1>16, <1>17, <1>18 DEF AudioRelay!Next

\* The steps of the relay's thread keep its own part of the invariant.  No step
\* of a listener but those of a send touches what that part is about.
LEMMA RelayThread ==
    ASSUME AudioRelay!RelayAssumption, RelayInv, AudioRelay!Next
    PROVE  RelayOK'
<1> USE DEF RelayOK, Streaming, Between, AudioRelay!Nobody, AudioRelay!ours, AudioRelay!theirs
<1>a. /\ Headers \in Nat /\ Headers > 0 /\ Streams \in Nat
      /\ RelayOK /\ headers \in Nat /\ epoch \in Nat /\ loop \in AudioRelay!Places
      /\ page \in [n : Nat, audio : BOOLEAN]
      /\ sending \in [to : SUBSET Listeners, dead : SUBSET Listeners]
    BY DEF AudioRelay!RelayAssumption, RelayInv, AudioRelay!TypeOK
<1>1. CASE AudioRelay!Wanted
    BY <1>a, <1>1 DEF AudioRelay!Wanted
<1>2. CASE AudioRelay!Connects
  <2>1. page'.n = 0 /\ page'.audio = FALSE /\ (page'.n > Headers) = FALSE
      BY <1>a, <1>2 DEF AudioRelay!Connects, AudioRelay!NoPage
  <2>2. loop' = "reading" /\ UNCHANGED <<headers, epoch, sending>> /\ headers = 0
        /\ sending = AudioRelay!Nobody /\ epoch < Streams
      BY <1>a, <1>2 DEF AudioRelay!Connects
  <2> QED BY <1>a, <2>1, <2>2
<1>3. CASE AudioRelay!Reads
  <2>1. /\ page' = [n |-> page.n + 1, audio |-> ~(~page.audio /\ page.n + 1 <= Headers)]
        /\ headers' = IF ~page.audio /\ page.n + 1 <= Headers THEN headers + 1 ELSE headers
        /\ loop = "reading" /\ epoch' = epoch
      BY <1>3 DEF AudioRelay!Reads, AudioRelay!IsHeader
  <2>2. headers' = IF page'.n < Headers THEN page'.n ELSE Headers
      BY <1>a, <2>1
  <2>3. page'.audio = (page'.n > Headers) /\ page'.n > 0
      BY <1>a, <2>1
  <2> QED BY <1>a, <1>3, <2>1, <2>2, <2>3 DEF AudioRelay!Reads
<1>4. CASE AudioRelay!Bury
    BY <1>a, <1>4 DEF AudioRelay!Bury
<1>5. CASE AudioRelay!Deserted
    BY <1>a, <1>5 DEF AudioRelay!Deserted
<1>6. CASE AudioRelay!UpstreamFails
    BY <1>a, <1>6 DEF AudioRelay!UpstreamFails
<1>7. CASE AudioRelay!Over
    BY <1>a, <1>7 DEF AudioRelay!Over
<1>8. CASE AudioRelay!Drop
    BY <1>a, <1>8 DEF AudioRelay!Drop
<1>9. ASSUME NEW l \in Listeners, AudioRelay!Sends(l) PROVE RelayOK'
    BY <1>a, <1>9 DEF AudioRelay!Sends
<1>10. ASSUME NEW l \in Listeners, AudioRelay!SendFails(l) PROVE RelayOK'
    BY <1>a, <1>10 DEF AudioRelay!SendFails
<1>11. ASSUME NEW l \in Listeners,
              \/ AudioRelay!Joins(l) \/ AudioRelay!TurnedAway(l) \/ AudioRelay!HasUnsent(l)
              \/ AudioRelay!Replays(l) \/ AudioRelay!Attaches(l) \/ AudioRelay!Ends(l)
              \/ AudioRelay!Leaves(l) \/ AudioRelay!PeerGoes(l)
       PROVE  RelayOK'
  <2>1. UNCHANGED <<headers, epoch, loop, page, sending>>
      BY <1>11
         DEF AudioRelay!Joins, AudioRelay!TurnedAway, AudioRelay!HasUnsent, AudioRelay!Replays,
                   AudioRelay!Attaches, AudioRelay!Ends, AudioRelay!Leaves, AudioRelay!PeerGoes
  <2> QED BY <1>a, <2>1
<1> QED BY <1>1, <1>2, <1>3, <1>4, <1>5, <1>6, <1>7, <1>8, <1>9, <1>10, <1>11
           DEF AudioRelay!Next

\* What a listener is told of depends on what is its own and on the thread.
LEMMA OthersUntouched ==
    ASSUME NEW x \in Listeners, ListenerOK(x),
           relayAt'[x] = relayAt[x], mine'[x] = mine[x], sock'[x] = sock[x], got'[x] = got[x],
           x \in attached' <=> x \in attached,
           x \in sending'.to <=> x \in sending.to,
           x \in sending'.dead <=> x \in sending.dead,
           UNCHANGED <<headers, epoch, loop, page>>
    PROVE  ListenerOK(x)'
BY DEF ListenerOK, JoiningOK, OnTheList, Whole, Follows, Streaming, Between

\* The steps of the relay's thread, but for a send, move no listener along its
\* stream: it is the page in hand that moves.
LEMMA ThreadKeepsListeners ==
    ASSUME AudioRelay!RelayAssumption, RelayInv, NEW x \in Listeners,
           \/ AudioRelay!Wanted \/ AudioRelay!Connects \/ AudioRelay!Reads \/ AudioRelay!Bury
           \/ AudioRelay!Deserted \/ AudioRelay!UpstreamFails \/ AudioRelay!Over \/ AudioRelay!Drop
    PROVE  ListenerOK(x)'
<1> USE DEF Streaming, Between, AudioRelay!Nobody, AudioRelay!ours, AudioRelay!theirs,
            ListenerOK, JoiningOK, OnTheList
<1>a. /\ Headers \in Nat /\ Headers > 0 /\ Streams \in Nat
      /\ RelayOK /\ ListenerOK(x) /\ headers \in Nat /\ epoch \in Nat
      /\ page \in [n : Nat, audio : BOOLEAN]
      /\ sending \in [to : SUBSET Listeners, dead : SUBSET Listeners]
      /\ mine[x] \in [epoch : Nat, sent : Nat, upto : Nat]
      /\ sock \in [Listeners -> {"up", "gone", "shut"}]
    BY DEF AudioRelay!RelayAssumption, RelayInv, AudioRelay!TypeOK
<1>1. CASE AudioRelay!Wanted
    BY <1>a, <1>1 DEF AudioRelay!Wanted, RelayOK
<1>2. CASE AudioRelay!Connects
  <2>1. Follows(<<>>, 0)
      BY <1>a DEF Follows
  <2>2. page'.n = 0
      BY <1>2 DEF AudioRelay!Connects, AudioRelay!NoPage
  <2> QED BY <1>a, <1>2, <2>1, <2>2 DEF AudioRelay!Connects, RelayOK
<1>3. CASE AudioRelay!Reads
  <2>1. page'.n = page.n + 1 /\ headers <= headers' /\ page'.n - 1 = page.n
      BY <1>a, <1>3 DEF AudioRelay!Reads
  <2>2. sending = AudioRelay!Nobody /\ sending' = [to |-> attached, dead |-> {}]
      BY <1>a, <1>3 DEF AudioRelay!Reads, RelayOK
  <2> QED BY <1>a, <1>3, <2>1, <2>2 DEF AudioRelay!Reads, RelayOK
<1>4. CASE AudioRelay!Bury
    BY <1>a, <1>4 DEF AudioRelay!Bury, AudioRelay!Shut, RelayOK
<1>5. CASE AudioRelay!Deserted
    BY <1>a, <1>5 DEF AudioRelay!Deserted, RelayOK
<1>6. CASE AudioRelay!UpstreamFails
    BY <1>a, <1>6 DEF AudioRelay!UpstreamFails, RelayOK
<1>7. CASE AudioRelay!Over
    BY <1>a, <1>7 DEF AudioRelay!Over, RelayOK
<1>8. CASE AudioRelay!Drop
    BY <1>a, <1>8 DEF AudioRelay!Drop, AudioRelay!Shut, RelayOK
<1> QED BY <1>1, <1>2, <1>3, <1>4, <1>5, <1>6, <1>7, <1>8

\* The types a step of listener l needs.
LEMMA ListenerTypes ==
    ASSUME AudioRelay!RelayAssumption, RelayInv, NEW l \in Listeners
    PROVE  /\ Headers \in Nat /\ Headers > 0
           /\ RelayOK /\ ListenerOK(l) /\ epoch \in Nat /\ headers \in 0 .. Headers
           /\ page.n \in Nat /\ loop \in AudioRelay!Places
           /\ sending \in [to : SUBSET Listeners, dead : SUBSET Listeners]
           /\ mine \in [Listeners -> [epoch : Nat, sent : 0 .. Headers, upto : 0 .. Headers]]
           /\ relayAt[l] \in {"away", "joining", "replaying", "listening", "leaving"}
           /\ DOMAIN relayAt = Listeners /\ DOMAIN sock = Listeners /\ DOMAIN got = Listeners
           /\ got[l] \in Seq(Nat \X Nat)
<1>1. AudioRelay!TypeOK /\ RelayOK /\ ListenerOK(l)
    BY DEF RelayInv
<1>2. Headers \in Nat /\ Headers > 0 /\ Pages \in Nat /\ Streams \in Nat
    BY DEF AudioRelay!RelayAssumption
<1>3. got[l] \in Seq(Nat \X Nat)
  <2>1. got[l] \in Seq((0 .. Streams) \X (1 .. Headers + Pages))
      BY <1>1 DEF AudioRelay!TypeOK
  <2>2. (0 .. Streams) \X (1 .. Headers + Pages) \subseteq Nat \X Nat
      BY <1>2
  <2> QED BY <2>1, <2>2, SeqMonotonic
<1>4. mine \in [Listeners -> [epoch : Nat, sent : 0 .. Headers, upto : 0 .. Headers]]
    BY <1>1, <1>2 DEF AudioRelay!TypeOK
<1> QED BY <1>1, <1>2, <1>3, <1>4 DEF AudioRelay!TypeOK

\* A page that is sent is the one after what the listener has: it is still in
\* the snapshot, so the page in hand has not reached it.
LEMMA SendKeepsListener ==
    ASSUME AudioRelay!RelayAssumption, RelayInv, NEW l \in Listeners, AudioRelay!Sends(l)
    PROVE  ListenerOK(l)'
<1>1. /\ l \in attached /\ mine[l].epoch = epoch /\ l \notin sending.dead
      /\ Whole(got[l], epoch) /\ Follows(got[l], page.n - 1) /\ page.n - 1 \in Nat
    BY ListenerTypes DEF AudioRelay!Sends, RelayOK, ListenerOK, OnTheList, Streaming
<1>2. PICK s : s = got[l]
    OBVIOUS
<1>3. PICK t : t = s \o <<<<epoch, page.n>>>>
    OBVIOUS
<1>4. got'[l] = t
    BY <1>2, <1>3, ListenerTypes DEF AudioRelay!Sends, AudioRelay!Sent
<1>5. Whole(t, epoch) /\ Follows(t, page.n)
  <2>1. PICK p \in Nat, e \in Nat : p = page.n - 1 /\ e = epoch
      BY <1>1, ListenerTypes
  <2>2. <<epoch, page.n>> = <<e, p + 1>> /\ <<e, p + 1>> \in Nat \X Nat /\ p + 1 = page.n
    <3>1. page.n \in Nat
        BY ListenerTypes
    <3>2. p + 1 = page.n /\ p + 1 \in Nat
        BY <2>1, <3>1
    <3> QED BY <2>1, <3>2
  <2>3. Adds(s, <<e, p + 1>>, t)
    <3>1. s \in Seq(Nat \X Nat)
        BY <1>2, ListenerTypes
    <3>2. PICK x : x = <<e, p + 1>>
        OBVIOUS
    <3>3. x \in Nat \X Nat /\ t = s \o <<x>>
        BY <1>3, <2>2, <3>2
    <3> QED BY <3>1, <3>2, <3>3, OnePageMore
  <2>5. Headers \in Nat /\ Headers > 0
      BY ListenerTypes
  <2>6. Whole(s, e) /\ Follows(s, p)
      BY <1>1, <1>2, <2>1
  <2>7. Whole(t, e) /\ Follows(t, p + 1)
      BY <2>3, <2>5, <2>6, NextPageFollows
  <2> QED BY <2>1, <2>2, <2>7
<1>6. /\ relayAt[l] # "away" /\ relayAt[l] \notin {"joining", "replaying"}
      /\ UNCHANGED <<attached, headers, epoch, loop, page, sock, relayAt, mine>>
      /\ l \notin sending'.to /\ sending'.dead = sending.dead /\ loop = "sending"
    BY <1>1, ListenerTypes DEF AudioRelay!Sends, ListenerOK, JoiningOK
<1> QED BY <1>1, <1>4, <1>5, <1>6, ListenerTypes
        DEF ListenerOK, OnTheList, Streaming, Between

\* After a replay the listener has as many headers as it counts.
LEMMA ReplayKeepsListener ==
    ASSUME AudioRelay!RelayAssumption, RelayInv, NEW l \in Listeners, AudioRelay!Replays(l)
    PROVE  ListenerOK(l)'
<1> DEFINE k == mine[l].sent
           u == mine[l].upto
<1>1. /\ mine[l] \in [epoch : Nat, sent : 0 .. Headers, upto : 0 .. Headers]
      /\ relayAt[l] = "replaying" /\ JoiningOK(l) /\ k <= u /\ Whole(got[l], mine[l].epoch)
      /\ Len(got[l]) = k /\ mine[l].epoch <= epoch
    BY ListenerTypes DEF AudioRelay!Replays, AudioRelay!Goes, ListenerOK, JoiningOK
<1>2. mine[l].epoch \in Nat /\ k \in 0 .. Headers /\ u \in k .. Headers
    BY <1>1, ListenerTypes
<1>3. LET t == Replayed(got[l], mine[l].epoch, k, u)
      IN  Whole(t, mine[l].epoch) /\ Len(t) = u
  <2>1. PICK s, e, m, w : s = got[l] /\ e = mine[l].epoch /\ m = k /\ w = u
      OBVIOUS
  <2>2. Whole(Replayed(s, e, m, w), e) /\ Len(Replayed(s, e, m, w)) = w
    <3>1. /\ Headers \in Nat /\ e \in Nat /\ m \in 0 .. Headers /\ w \in m .. Headers
          /\ s \in Seq(Nat \X Nat) /\ Whole(s, e) /\ Len(s) = m
        BY <1>1, <1>2, <2>1, ListenerTypes
    <3> HIDE DEF k, u
    <3> QED BY <3>1, ReplayIsWhole
  <2> QED BY <2>1, <2>2
<1>4. /\ got'[l] = Replayed(got[l], mine[l].epoch, k, u)
      /\ mine'[l] = [mine[l] EXCEPT !.sent = u]
      /\ relayAt'[l] = "joining"
      /\ UNCHANGED <<attached, headers, epoch, loop, page, sending, sock>>
    BY ListenerTypes
       DEF AudioRelay!Replays, AudioRelay!Goes, AudioRelay!Sent, AudioRelay!ours, Replayed
<1>5. Whole(got'[l], mine'[l].epoch) /\ Len(got'[l]) = mine'[l].sent
      /\ mine'[l].epoch = mine[l].epoch /\ mine'[l].sent = u
    BY <1>1, <1>3, <1>4
<1> HIDE DEF k, u
<1>6. JoiningOK(l)'
    BY <1>1, <1>4, <1>5 DEF JoiningOK, u
<1>7. l \notin attached /\ l \notin sending.to /\ l \notin sending.dead
    BY <1>1 DEF JoiningOK
<1> QED BY <1>1, <1>4, <1>5, <1>6, <1>7 DEF ListenerOK

\* The lock hold that puts a listener on the list shows it has what is cached,
\* which is what the thread has read, or all the headers.
LEMMA AttachKeepsListener ==
    ASSUME AudioRelay!RelayAssumption, RelayInv, NEW l \in Listeners, AudioRelay!Attaches(l)
    PROVE  ListenerOK(l)'
<1>1. /\ relayAt[l] = "joining" /\ JoiningOK(l) /\ mine[l].epoch = epoch /\ headers = mine[l].sent
      /\ Whole(got[l], mine[l].epoch)
      /\ relayAt'[l] = "listening" /\ l \in attached'
      /\ UNCHANGED <<headers, epoch, loop, page, sending, mine, sock, got>>
    BY ListenerTypes DEF AudioRelay!Attaches, AudioRelay!Goes, AudioRelay!ours, ListenerOK
<1>2. /\ l \notin sending.to /\ l \notin sending.dead /\ Len(got[l]) = headers
    BY <1>1 DEF JoiningOK
<1>3. loop \in Between => got[l] = <<>>
    BY <1>2, ListenerTypes, EmptySeq DEF RelayOK
<1>4. loop \in Streaming => Follows(got[l], page.n)
    BY <1>2, ListenerTypes DEF RelayOK, Follows
<1>5. OnTheList(l)'
    BY <1>1, <1>2, <1>3, <1>4 DEF OnTheList, Between, Streaming, Follows
<1> QED BY <1>1, <1>2, <1>5, ListenerTypes DEF ListenerOK, Whole

\* The other steps of and for a listener send it nothing.
LEMMA QuietStepsKeepListener ==
    ASSUME AudioRelay!RelayAssumption, RelayInv, NEW l \in Listeners,
           \/ AudioRelay!SendFails(l) \/ AudioRelay!Joins(l) \/ AudioRelay!TurnedAway(l)
           \/ AudioRelay!HasUnsent(l) \/ AudioRelay!Ends(l) \/ AudioRelay!Leaves(l) \/ AudioRelay!PeerGoes(l)
    PROVE  ListenerOK(l)'
<1> USE DEF AudioRelay!Goes, AudioRelay!ours, AudioRelay!theirs, Streaming, Between,
            ListenerOK, JoiningOK, OnTheList
<1>1. CASE AudioRelay!SendFails(l)
    BY <1>1, ListenerTypes DEF AudioRelay!SendFails
<1>2. CASE AudioRelay!Joins(l)
  <2>1. Whole(<<>>, epoch) /\ Len(<<>>) = 0
      BY DEF Whole
  <2>2. relayAt[l] = "away" /\ got[l] = <<>> /\ mine'[l] = [mine[l] EXCEPT !.epoch = epoch]
      BY <1>2, ListenerTypes DEF AudioRelay!Joins
  <2> QED BY <1>2, <2>1, <2>2, ListenerTypes DEF AudioRelay!Joins
<1>3. CASE AudioRelay!TurnedAway(l)
    BY <1>3, ListenerTypes DEF AudioRelay!TurnedAway
<1>4. CASE AudioRelay!HasUnsent(l)
    BY <1>4, ListenerTypes DEF AudioRelay!HasUnsent
<1>5. CASE AudioRelay!Ends(l)
    BY <1>5, ListenerTypes DEF AudioRelay!Ends
<1>6. CASE AudioRelay!Leaves(l)
  <2>1. Whole(<<>>, 0)
      BY DEF Whole
  <2> QED BY <1>6, <2>1, ListenerTypes DEF AudioRelay!Leaves, AudioRelay!NotJoined
<1>7. CASE AudioRelay!PeerGoes(l)
    BY <1>7, ListenerTypes DEF AudioRelay!PeerGoes
<1> QED BY <1>1, <1>2, <1>3, <1>4, <1>5, <1>6, <1>7

\* Every step keeps what is true of every listener.
LEMMA ListenersStep ==
    ASSUME AudioRelay!RelayAssumption, RelayInv, AudioRelay!Next, NEW x \in Listeners
    PROVE  ListenerOK(x)'
<1>0. ListenerOK(x)
    BY DEF RelayInv
<1>1. CASE \/ AudioRelay!Wanted \/ AudioRelay!Connects \/ AudioRelay!Reads \/ AudioRelay!Bury
           \/ AudioRelay!Deserted \/ AudioRelay!UpstreamFails \/ AudioRelay!Over \/ AudioRelay!Drop
    BY <1>1, ThreadKeepsListeners
<1>2. ASSUME NEW l \in Listeners,
             \/ AudioRelay!Sends(l) \/ AudioRelay!SendFails(l) \/ AudioRelay!Joins(l) \/ AudioRelay!TurnedAway(l)
             \/ AudioRelay!HasUnsent(l) \/ AudioRelay!Replays(l) \/ AudioRelay!Attaches(l) \/ AudioRelay!Ends(l)
             \/ AudioRelay!Leaves(l) \/ AudioRelay!PeerGoes(l)
      PROVE  ListenerOK(x)'
  <2>1. CASE x = l
      BY <1>2, <2>1, SendKeepsListener, ReplayKeepsListener, AttachKeepsListener,
         QuietStepsKeepListener
  <2>2. CASE x # l
    <3> USE <1>0, <2>2, ListenerTypes, OthersUntouched
        DEF AudioRelay!ours, AudioRelay!theirs, AudioRelay!Goes, AudioRelay!Sent
    <3>1. CASE AudioRelay!Sends(l)
        BY <3>1 DEF AudioRelay!Sends
    <3>2. CASE AudioRelay!SendFails(l)
        BY <3>2 DEF AudioRelay!SendFails
    <3>3. CASE AudioRelay!Joins(l)
        BY <3>3 DEF AudioRelay!Joins
    <3>4. CASE AudioRelay!TurnedAway(l)
        BY <3>4 DEF AudioRelay!TurnedAway
    <3>5. CASE AudioRelay!HasUnsent(l)
        BY <3>5 DEF AudioRelay!HasUnsent
    <3>6. CASE AudioRelay!Replays(l)
        BY <3>6 DEF AudioRelay!Replays
    <3>7. CASE AudioRelay!Attaches(l)
        BY <3>7 DEF AudioRelay!Attaches
    <3>8. CASE AudioRelay!Ends(l)
        BY <3>8 DEF AudioRelay!Ends
    <3>9. CASE AudioRelay!Leaves(l)
        BY <3>9 DEF AudioRelay!Leaves
    <3>10. CASE AudioRelay!PeerGoes(l)
        BY <3>10 DEF AudioRelay!PeerGoes
    <3> QED BY <1>2, <3>1, <3>2, <3>3, <3>4, <3>5, <3>6, <3>7, <3>8, <3>9, <3>10
  <2> QED BY <2>1, <2>2
<1> QED BY <1>1, <1>2 DEF AudioRelay!Next

LEMMA RelayInductive ==
    ASSUME AudioRelay!RelayAssumption
    PROVE  AudioRelay!Spec => []RelayInv
<1>1. AudioRelay!Init => RelayInv
  <2> SUFFICES ASSUME AudioRelay!Init PROVE RelayInv
      OBVIOUS
  <2> USE DEF AudioRelay!Init, AudioRelay!Nobody, AudioRelay!NotJoined, AudioRelay!NoPage
  <2>1. AudioRelay!TypeOK
    <3>1. <<>> \in Seq((0 .. Streams) \X (1 .. Headers + Pages))
        BY EmptySeq
    <3> QED BY <3>1 DEF AudioRelay!TypeOK, AudioRelay!RelayAssumption, AudioRelay!Places
  <2>2. RelayOK
      BY DEF RelayOK, Streaming, Between, AudioRelay!RelayAssumption
  <2>3. ASSUME NEW l \in Listeners PROVE ListenerOK(l)
      BY <2>3 DEF ListenerOK, Whole
  <2> QED BY <2>1, <2>2, <2>3 DEF RelayInv
<1>2. RelayInv /\ [AudioRelay!Next]_AudioRelay!vars => RelayInv'
  <2> SUFFICES ASSUME RelayInv, [AudioRelay!Next]_AudioRelay!vars PROVE RelayInv'
      OBVIOUS
  <2>1. CASE AudioRelay!Next
      BY <2>1, RelayTypes, RelayThread, ListenersStep DEF RelayInv
  <2>2. CASE UNCHANGED AudioRelay!vars
    <3>1. UNCHANGED <<attached, headers, epoch, loop, page, sending, relayAt, mine, sock, got>>
        BY <2>2 DEF AudioRelay!vars
    <3>2. AudioRelay!TypeOK'
        BY <3>1 DEF RelayInv, AudioRelay!TypeOK
    <3>3. RelayOK'
        BY <3>1 DEF RelayInv, RelayOK, Streaming, Between
    <3>4. ASSUME NEW l \in Listeners PROVE ListenerOK(l)'
        BY <3>1, OthersUntouched DEF RelayInv
    <3> QED BY <3>2, <3>3, <3>4 DEF RelayInv
  <2> QED BY <2>1, <2>2
<1> QED BY <1>1, <1>2, PTL DEF AudioRelay!Spec

\* A listener hears one stream, from its first header on and with no page
\* missing, however its replay meets the pages that come meanwhile, the end of
\* the stream and the failures of other listeners.
THEOREM RelayHeardFromTheStart ==
    ASSUME AudioRelay!RelayAssumption
    PROVE  AudioRelay!Spec => []AudioRelay!HeardFromTheStart
<1>1. RelayInv => AudioRelay!HeardFromTheStart
  <2> SUFFICES ASSUME RelayInv, NEW l \in Listeners, NEW i \in DOMAIN got[l]
               PROVE  /\ got[l][i][1] = got[l][1][1]
                      /\ i <= Headers => got[l][i][2] = i
                      /\ i > Headers + 1 => got[l][i][2] = got[l][i - 1][2] + 1
                      /\ i > Headers => got[l][i][2] > Headers
      BY DEF AudioRelay!HeardFromTheStart
  <2>1. Whole(got[l], mine[l].epoch)
      BY DEF RelayInv, ListenerOK
  <2>2. 1 \in DOMAIN got[l]
      BY ListenerTypes, LenProperties
  <2> QED BY <2>1, <2>2 DEF Whole
<1> QED BY <1>1, RelayInductive, PTL

\* Between two pages whoever is on the list and was not shut out is on it for
\* this stream: nobody is kept from an earlier one or after a failed send.
THEOREM RelayListIsOfThisStream ==
    ASSUME AudioRelay!RelayAssumption
    PROVE  AudioRelay!Spec => []AudioRelay!ListIsOfThisStream
<1>1. RelayInv => AudioRelay!ListIsOfThisStream
  <2> SUFFICES ASSUME RelayInv, loop = "reading", NEW l \in attached, sock[l] # "shut"
               PROVE  mine[l].epoch = epoch /\ relayAt[l] \in {"listening", "leaving"}
      BY DEF AudioRelay!ListIsOfThisStream
  <2>1. l \in Listeners
      BY DEF RelayInv, AudioRelay!TypeOK
  <2> QED BY <2>1, ListenerTypes DEF ListenerOK, OnTheList, JoiningOK
<1> QED BY <1>1, RelayInductive, PTL

-----------------------------------------------------------------------------
(* The harness that boots the target (HarnessBoot).                        *)

WasLit == numWas = <<TRUE>>
WasDark == numWas = <<FALSE>>

KeysOK ==
    /\ keys \in Seq(HarnessBoot!Lamps) /\ val \in BOOLEAN
    /\ since \in {"nothing", "post", "booted"}
    /\ numWas = <<>> \/ WasLit \/ WasDark

\* A machine that does not run serves no key, and what the Pi shows of one that
\* is off is what it showed last.
DownOK ==
    /\ phase \in {"off", "post"} => keys = <<>>
    /\ phase = "off" => led = node

\* Between its POST and the end of a start a machine does not light the lamp
\* that says it is up, and nobody has pressed its key.
PostOK ==
    since = "post" /\ phase # "off" =>
        phase # "prompt" /\ "scroll" \notin led /\ keys \in Seq({"caps", "num"})

Arming == {"proving", "caps", "capsAgain", "capsWait", "scroll", "scrollAgain", "scrollWait",
           "checkCaps", "checkCapsAgain", "checkScroll", "checkScrollAgain", "combo", "edge",
           "menu", "pulse"}
Probing == {"num", "numAgain", "numWait", "numBack", "numRest"}

\* Once Caps Lock was seen armed it is lit until a POST, so that it goes out
\* only for one; a Scroll Lock that is lit then was shown before it, together
\* with the Caps Lock.
ArmedOK ==
    /\ bootPc \in {"checkScroll", "checkScrollAgain", "combo", "edge"} /\ since = "nothing" =>
          "caps" \in led /\ "caps" \in node /\ keys = <<>>
    /\ bootPc \in {"combo", "edge"} /\ since = "post" => "caps" \in node \/ "scroll" \notin node
    /\ bootPc \in {"menu", "pulse"} => since # "nothing" /\ (since = "post" => "scroll" \notin node)
    /\ bootPc \in Probing => since = "booted"

\* A machine that was switched on shows what it showed before until its POST.
ColdOK ==
    /\ bootPc \in {"cold", "coldPulse"} /\ since = "nothing" => led = node /\ phase \in {"off", "post"}
    /\ bootPc = "coldPulse" /\ since # "booted" => "scroll" \notin node

\* Num Lock once the n keys that were pressed are served.
WillBeLit(n) == IF n = 1 THEN "num" \notin led ELSE "num" \in led

\* The keys a probe has pressed and the machine has not served say what becomes
\* of Num Lock: the other way during the probe, as it was after it.
NumOK ==
    /\ bootPc \in Arming => numWas = <<>>
    /\ phase \in {"boot", "prompt"} /\ numWas # <<>> =>
          /\ Len(keys) <= 2 /\ keys \in Seq({"num"})
          /\ bootPc = "numWait" =>
                /\ Len(keys) <= 1
                /\ WasLit => ~WillBeLit(Len(keys))
                /\ WasDark => WillBeLit(Len(keys))
          /\ bootPc # "numWait" =>
                /\ WasLit => WillBeLit(Len(keys))
                /\ WasDark => ~WillBeLit(Len(keys))

BootInv == KeysOK /\ DownOK /\ PostOK /\ ArmedOK /\ ColdOK /\ NumOK

\* A key that is pressed is served later, if the machine runs.
LEMMA PressAdds ==
    ASSUME NEW l, HarnessBoot!Press(l), NEW S, keys \in Seq(S), l \in S
    PROVE  /\ keys' \in Seq(S)
           /\ phase \in {"boot", "prompt"} => Len(keys') = Len(keys) + 1
           /\ phase \notin {"boot", "prompt"} => keys' = keys
BY AppendProperties DEF HarnessBoot!Press, HarnessBoot!Alive

\* The keys after a step that may press one.
LEMMA PressFits ==
    ASSUME KeysOK, NEW l \in HarnessBoot!Lamps, keys' = keys \/ HarnessBoot!Press(l)
    PROVE  /\ keys' \in Seq(HarnessBoot!Lamps) /\ Len(keys) \in Nat
           /\ phase \notin {"boot", "prompt"} => keys' = keys
           /\ l # "scroll" /\ keys \in Seq({"caps", "num"}) => keys' \in Seq({"caps", "num"})
           /\ l = "num" /\ keys \in Seq({"num"}) => keys' \in Seq({"num"})
           /\ HarnessBoot!Press(l) /\ phase \in {"boot", "prompt"} => Len(keys') = Len(keys) + 1
<1>1. keys \in Seq(HarnessBoot!Lamps)
    BY DEF KeysOK
<1>2. l \in {"caps", "scroll", "num"}
    BY DEF HarnessBoot!Lamps
<1> QED BY <1>1, <1>2, PressAdds, LenProperties

\* And after one in which the machine serves one.
LEMMA ServedTakes ==
    ASSUME NEW S, keys \in Seq(S), keys # <<>>, keys' = Tail(keys)
    PROVE  /\ keys' \in Seq(S) /\ Head(keys) \in S
           /\ Len(keys) \in Nat \ {0} /\ Len(keys') = Len(keys) - 1
BY HeadTailProperties, LenProperties, EmptySeq

\* A reading is of the lamp that was asked for, and a second one agrees with it.
LEMMA FirstReadOf ==
    ASSUME val \in BOOLEAN, NEW l, NEW again, HarnessBoot!FirstRead(l, again)
    PROVE  val' \in BOOLEAN /\ bootPc' \in {again, "refused"}
<1>1. (val' = val) \/ (val' = (l \in node))
    BY DEF HarnessBoot!FirstRead, HarnessBoot!Lit
<1>2. val' \in BOOLEAN
  <2>1. CASE val' = val
      BY <2>1
  <2>2. CASE val' = (l \in node)
      BY <2>2
  <2> QED BY <1>1, <2>1, <2>2
<1>3. bootPc' \in {again, "refused"}
    BY DEF HarnessBoot!FirstRead, HarnessBoot!GoesTo, HarnessBoot!Refuses
<1> QED BY <1>2, <1>3

LEMMA AgreedReading ==
    ASSUME val \in BOOLEAN, NEW l, HarnessBoot!Agrees(l)
    PROVE  /\ keys = <<>> /\ (phase # "off" => node = led)
           /\ val = TRUE => l \in node
           /\ val = FALSE => l \notin node
<1>1. keys = <<>> /\ (phase # "off" => node = led) /\ (l \in node) = val
    BY DEF HarnessBoot!Agrees, HarnessBoot!Steady, HarnessBoot!Lit
<1>2. CASE val = TRUE
    BY <1>1, <1>2
<1>3. CASE val = FALSE
    BY <1>1, <1>3
<1> QED BY <1>2, <1>3

LEMMA BootStep ==
    ASSUME BootInv, HarnessBoot!Next
    PROVE  BootInv'
<1> USE DEF Arming, Probing, WillBeLit
<1>a. KeysOK /\ DownOK /\ PostOK /\ ArmedOK /\ ColdOK /\ NumOK
    BY DEF BootInv
<1>b. HarnessBoot!Lamps = {"caps", "scroll", "num"}
    BY DEF HarnessBoot!Lamps
<1>1. CASE HarnessBoot!Upset
  <2>1. /\ UNCHANGED <<node, bootPc, since, numWas, val>> /\ keys' = <<>> /\ phase' \in {"post", "off"}
        /\ phase' = "off" => led' = node
        /\ phase' = "post" => led' = led /\ phase # "off"
      BY <1>a, <1>1 DEF HarnessBoot!Upset, HarnessBoot!Restarts, HarnessBoot!local
  <2>2. KeysOK'
      BY <1>a, <2>1, EmptySeq DEF KeysOK, WasLit, WasDark
  <2>3. DownOK'
      BY <1>a, <2>1 DEF DownOK
  <2>4. PostOK'
      BY <1>a, <2>1, EmptySeq DEF PostOK
  <2>5. ArmedOK'
      BY <1>a, <2>1 DEF ArmedOK
  <2>6. ColdOK'
      BY <1>a, <2>1 DEF ColdOK
  <2>7. NumOK'
      BY <1>a, <2>1, EmptySeq DEF NumOK, WasLit, WasDark
  <2> QED BY <2>2, <2>3, <2>4, <2>5, <2>6, <2>7 DEF BootInv
<1>2. CASE HarnessBoot!Posts
  <2>1. /\ phase = "post" /\ phase' = "boot" /\ led' = {} /\ numWas' = <<>>
        /\ since' = IF since = "nothing" THEN "post" ELSE since
        /\ UNCHANGED <<keys, node, bootPc, val>>
      BY <1>a, <1>2 DEF HarnessBoot!Posts, HarnessBoot!local
  <2>2. KeysOK'
      BY <1>a, <2>1 DEF KeysOK, WasLit, WasDark
  <2>3. DownOK'
      BY <1>a, <2>1 DEF DownOK
  <2>4. PostOK'
      BY <1>a, <2>1, EmptySeq DEF PostOK, DownOK
  <2>5. ArmedOK'
      BY <1>a, <2>1 DEF ArmedOK
  <2>6. ColdOK'
      BY <1>a, <2>1 DEF ColdOK
  <2>7. NumOK'
      BY <1>a, <2>1 DEF NumOK, WasLit, WasDark
  <2> QED BY <2>2, <2>3, <2>4, <2>5, <2>6, <2>7 DEF BootInv
<1>3. CASE HarnessBoot!Pulses
  <2>1. /\ phase = "boot" /\ phase' = "prompt" /\ led' = led \cup {"scroll"}
        /\ since' = IF since = "post" THEN "booted" ELSE since
        /\ UNCHANGED <<keys, node, bootPc, val, numWas>>
      BY <1>a, <1>3 DEF HarnessBoot!Pulses, HarnessBoot!local
  <2>2. KeysOK'
      BY <1>a, <2>1 DEF KeysOK, WasLit, WasDark
  <2>3. DownOK'
      BY <1>a, <2>1 DEF DownOK
  <2>4. PostOK'
      BY <1>a, <2>1 DEF PostOK
  <2>5. ArmedOK'
      BY <1>a, <2>1 DEF ArmedOK
  <2>6. ColdOK'
      BY <1>a, <2>1 DEF ColdOK
  <2>7. NumOK'
      BY <1>a, <2>1 DEF NumOK, WasLit, WasDark
  <2> QED BY <2>2, <2>3, <2>4, <2>5, <2>6, <2>7 DEF BootInv
<1>4. CASE HarnessBoot!Served
  <2>1. /\ phase \in {"boot", "prompt"} /\ keys # <<>> /\ keys' = Tail(keys)
        /\ led' = HarnessBoot!Toggled(led, Head(keys))
        /\ UNCHANGED <<phase, node, bootPc, val, since, numWas>>
      BY <1>a, <1>4 DEF HarnessBoot!Served, HarnessBoot!Alive, HarnessBoot!local
  <2>2. KeysOK'
      BY <1>a, <2>1, ServedTakes, <1>b DEF KeysOK, WasLit, WasDark
  <2>3. DownOK'
      BY <1>a, <2>1 DEF DownOK, KeysOK
  <2>4. PostOK'
    <3> SUFFICES ASSUME since = "post"
                 PROVE  phase # "prompt" /\ "scroll" \notin led' /\ keys' \in Seq({"caps", "num"})
        BY <2>1 DEF PostOK
    <3>1. phase # "prompt" /\ "scroll" \notin led /\ keys \in Seq({"caps", "num"})
        BY <1>a, <2>1 DEF PostOK
    <3>2. keys' \in Seq({"caps", "num"}) /\ Head(keys) \in {"caps", "num"}
        BY <2>1, <3>1, ServedTakes
    <3> QED BY <2>1, <3>1, <3>2 DEF HarnessBoot!Toggled
  <2>5. ArmedOK'
      BY <1>a, <2>1 DEF ArmedOK, KeysOK
  <2>6. ColdOK'
      BY <1>a, <2>1 DEF ColdOK, KeysOK
  <2>7. NumOK'
    <3>1. CASE numWas = <<>>
        BY <1>a, <2>1, <3>1 DEF NumOK
    <3>2. CASE numWas # <<>>
      <4>1. keys \in Seq({"num"}) /\ Len(keys) <= 2
          BY <1>a, <2>1, <3>2 DEF NumOK
      <4>2. /\ keys' \in Seq({"num"}) /\ Head(keys) = "num"
            /\ Len(keys) \in Nat \ {0} /\ Len(keys') = Len(keys) - 1
          BY <2>1, <4>1, ServedTakes
      <4>3. "num" \in led' <=> "num" \notin led
          BY <2>1, <4>2 DEF HarnessBoot!Toggled
      <4>4. (Len(keys) = 1 /\ Len(keys') = 0) \/ (Len(keys) = 2 /\ Len(keys') = 1)
          BY <4>1, <4>2
      <4>5. CASE bootPc = "numWait"
        <5>0. (WasLit' <=> WasLit) /\ (WasDark' <=> WasDark)
            BY <2>1 DEF WasLit, WasDark
        <5>1. /\ Len(keys) <= 1
              /\ WasLit => ~WillBeLit(Len(keys))
              /\ WasDark => WillBeLit(Len(keys))
            BY <1>a, <2>1, <3>2, <4>5 DEF NumOK
        <5>4. Len(keys) <= 1
            BY <5>1
        <5>2. /\ WasLit => ~WillBeLit(Len(keys))'
              /\ WasDark => WillBeLit(Len(keys))'
          <6>1. CASE Len(keys) = 1 /\ Len(keys') = 0
              BY <4>3, <5>1, <6>1
          <6>2. CASE Len(keys) = 2 /\ Len(keys') = 1
              BY <5>4, <6>2
          <6> QED BY <4>4, <6>1, <6>2
        <5>3. Len(keys') = 0 /\ Len(keys') <= 1 /\ Len(keys') <= 2
          <6>1. CASE Len(keys) = 1 /\ Len(keys') = 0
              BY <6>1
          <6>2. CASE Len(keys) = 2 /\ Len(keys') = 1
              BY <5>4, <6>2
          <6> QED BY <4>4, <6>1, <6>2
        <5> QED BY <2>1, <4>2, <4>5, <5>0, <5>2, <5>3 DEF NumOK
      <4>6. CASE bootPc # "numWait"
        <5>0. (WasLit' <=> WasLit) /\ (WasDark' <=> WasDark)
            BY <2>1 DEF WasLit, WasDark
        <5>1. /\ WasLit => WillBeLit(Len(keys))
              /\ WasDark => ~WillBeLit(Len(keys))
            BY <1>a, <2>1, <3>2, <4>6 DEF NumOK
        <5>2. /\ WasLit => WillBeLit(Len(keys))'
              /\ WasDark => ~WillBeLit(Len(keys))'
            BY <4>3, <4>4, <5>1
        <5>3. keys' \in Seq({"num"}) /\ Len(keys') <= 2
            BY <4>2, <4>4
        <5>4. bootPc \notin Arming
            BY <1>a, <3>2 DEF NumOK
        <5> QED BY <2>1, <4>6, <5>0, <5>2, <5>3, <5>4 DEF NumOK
      <4> QED BY <4>5, <4>6
    <3> QED BY <3>1, <3>2
  <2> QED BY <2>2, <2>3, <2>4, <2>5, <2>6, <2>7 DEF BootInv
<1>5. CASE HarnessBoot!Published
  <2>1. /\ phase # "off" /\ node' = led
        /\ UNCHANGED <<phase, led, keys, bootPc, val, since, numWas>>
      BY <1>a, <1>5 DEF HarnessBoot!Published, HarnessBoot!machine, HarnessBoot!local
  <2>2. KeysOK'
      BY <1>a, <2>1 DEF KeysOK, WasLit, WasDark
  <2>3. DownOK'
      BY <1>a, <2>1 DEF DownOK
  <2>4. PostOK'
      BY <1>a, <2>1 DEF PostOK
  <2>5. ArmedOK'
      BY <1>a, <2>1 DEF ArmedOK, PostOK
  <2>6. ColdOK'
      BY <1>a, <2>1 DEF ColdOK, PostOK, KeysOK
  <2>7. NumOK'
      BY <1>a, <2>1 DEF NumOK, WasLit, WasDark
  <2> QED BY <2>2, <2>3, <2>4, <2>5, <2>6, <2>7 DEF BootInv
<1>6. CASE HarnessBoot!ChannelChanges
  <2>1. UNCHANGED <<phase, led, keys, node, bootPc, val, since, numWas>>
      BY <1>a, <1>6 DEF HarnessBoot!ChannelChanges, HarnessBoot!machine, HarnessBoot!local
  <2>2. KeysOK'
      BY <1>a, <2>1 DEF KeysOK, WasLit, WasDark
  <2>3. DownOK'
      BY <1>a, <2>1 DEF DownOK
  <2>4. PostOK'
      BY <1>a, <2>1 DEF PostOK
  <2>5. ArmedOK'
      BY <1>a, <2>1 DEF ArmedOK
  <2>6. ColdOK'
      BY <1>a, <2>1 DEF ColdOK
  <2>7. NumOK'
      BY <1>a, <2>1 DEF NumOK, WasLit, WasDark
  <2> QED BY <2>2, <2>3, <2>4, <2>5, <2>6, <2>7 DEF BootInv
<1>7. CASE HarnessBoot!SelectBegins
  <2>1. /\ bootPc # "numWait" /\ bootPc' = "proof" /\ since' = "nothing"
        /\ UNCHANGED <<phase, led, keys, node, val, numWas>>
      BY <1>a, <1>7
         DEF HarnessBoot!SelectBegins, HarnessBoot!machine, HarnessBoot!local,
             HarnessBoot!GoesTo
  <2>2. KeysOK'
      BY <1>a, <2>1 DEF KeysOK, WasLit, WasDark
  <2>3. DownOK'
      BY <1>a, <2>1 DEF DownOK
  <2>4. PostOK'
      BY <1>a, <2>1 DEF PostOK
  <2>5. ArmedOK'
      BY <1>a, <2>1 DEF ArmedOK
  <2>6. ColdOK'
      BY <1>a, <2>1 DEF ColdOK
  <2>7. NumOK'
      BY <1>a, <2>1 DEF NumOK, WasLit, WasDark
  <2> QED BY <2>2, <2>3, <2>4, <2>5, <2>6, <2>7 DEF BootInv
<1>8. CASE HarnessBoot!Prove
  <2>1. /\ bootPc = "proof" /\ bootPc' \in {"caps", "proving", "refused"} /\ numWas' = <<>>
        /\ keys' = keys \/ HarnessBoot!Press("num")
        /\ UNCHANGED <<phase, led, node, val, since>>
      BY <1>a, <1>8
         DEF HarnessBoot!Prove, HarnessBoot!Press, HarnessBoot!machine, HarnessBoot!local,
             HarnessBoot!Refuses,
             HarnessBoot!GoesTo
  <2>2. KeysOK'
      BY <1>a, <2>1, <1>b, PressFits DEF KeysOK, WasLit, WasDark
  <2>3. DownOK'
      BY <1>a, <2>1, <1>b, PressFits DEF DownOK
  <2>4. PostOK'
      BY <1>a, <2>1, <1>b, PressFits DEF PostOK
  <2>5. ArmedOK'
      BY <1>a, <2>1 DEF ArmedOK
  <2>6. ColdOK'
      BY <1>a, <2>1 DEF ColdOK
  <2>7. NumOK'
      BY <1>a, <2>1, <1>b, PressFits DEF NumOK, WasLit, WasDark
  <2> QED BY <2>2, <2>3, <2>4, <2>5, <2>6, <2>7 DEF BootInv
<1>9. CASE HarnessBoot!Proven
  <2>1. /\ bootPc = "proving" /\ bootPc' \in {"caps", "refused"}
        /\ UNCHANGED <<phase, led, keys, node, val, since, numWas>>
      BY <1>a, <1>9
         DEF HarnessBoot!Proven, HarnessBoot!machine, HarnessBoot!local, HarnessBoot!Refuses,
             HarnessBoot!GoesTo
  <2>2. KeysOK'
      BY <1>a, <2>1 DEF KeysOK, WasLit, WasDark
  <2>3. DownOK'
      BY <1>a, <2>1 DEF DownOK
  <2>4. PostOK'
      BY <1>a, <2>1 DEF PostOK
  <2>5. ArmedOK'
      BY <1>a, <2>1 DEF ArmedOK
  <2>6. ColdOK'
      BY <1>a, <2>1 DEF ColdOK
  <2>7. NumOK'
      BY <1>a, <2>1 DEF NumOK, WasLit, WasDark
  <2> QED BY <2>2, <2>3, <2>4, <2>5, <2>6, <2>7 DEF BootInv
<1>10. CASE HarnessBoot!ArmCaps
  <2>1. /\ bootPc \in {"caps", "capsAgain", "capsWait"}
        /\ bootPc' \in {"capsAgain", "capsWait", "scroll", "refused"} /\ val' \in BOOLEAN
        /\ keys' = keys \/ HarnessBoot!Press("caps")
        /\ UNCHANGED <<phase, led, node, since, numWas>>
    <3>1. CASE bootPc = "caps"
        BY <1>a, <1>10, <3>1, FirstReadOf
           DEF HarnessBoot!ArmCaps, HarnessBoot!Armed, HarnessBoot!machine, KeysOK
    <3>2. CASE bootPc = "capsAgain"
        BY <1>a, <1>10, <3>2
           DEF HarnessBoot!ArmCaps, HarnessBoot!Armed, HarnessBoot!SecondRead,
               HarnessBoot!GoesTo,
            HarnessBoot!Refuses, KeysOK
    <3>3. CASE bootPc = "capsWait"
        BY <1>a, <1>10, <3>3
           DEF HarnessBoot!ArmCaps, HarnessBoot!Armed, HarnessBoot!WaitsFor, HarnessBoot!GoesTo,
            HarnessBoot!machine, KeysOK
    <3> QED BY <1>10, <3>1, <3>2, <3>3 DEF HarnessBoot!ArmCaps, HarnessBoot!Armed
  <2>2. KeysOK'
      BY <1>a, <2>1, <1>b, PressFits DEF KeysOK, WasLit, WasDark
  <2>3. DownOK'
      BY <1>a, <2>1, <1>b, PressFits DEF DownOK
  <2>4. PostOK'
      BY <1>a, <2>1, <1>b, PressFits DEF PostOK
  <2>5. ArmedOK'
      BY <1>a, <2>1 DEF ArmedOK
  <2>6. ColdOK'
      BY <1>a, <2>1 DEF ColdOK
  <2>7. NumOK'
      BY <1>a, <2>1, <1>b, PressFits DEF NumOK, WasLit, WasDark
  <2> QED BY <2>2, <2>3, <2>4, <2>5, <2>6, <2>7 DEF BootInv
<1>11. CASE HarnessBoot!ArmScroll
  <2>1. /\ bootPc \in {"scroll", "scrollAgain", "scrollWait"}
        /\ bootPc' \in {"scrollAgain", "scrollWait", "checkCaps", "refused"} /\ val' \in BOOLEAN
        /\ keys' = keys \/ (HarnessBoot!Press("scroll") /\ "scroll" \in node /\ (phase # "off" => node = led))
        /\ UNCHANGED <<phase, led, node, since, numWas>>
    <3>1. CASE bootPc = "scroll"
        BY <1>a, <1>11, <3>1, FirstReadOf
           DEF HarnessBoot!ArmScroll, HarnessBoot!Armed, HarnessBoot!machine, KeysOK
    <3>2. CASE bootPc = "scrollAgain"
        BY <1>a, <1>11, <3>2, AgreedReading
           DEF HarnessBoot!ArmScroll, HarnessBoot!Armed, HarnessBoot!SecondRead,
            HarnessBoot!GoesTo, HarnessBoot!Refuses, KeysOK
    <3>3. CASE bootPc = "scrollWait"
        BY <1>a, <1>11, <3>3
           DEF HarnessBoot!ArmScroll, HarnessBoot!Armed, HarnessBoot!WaitsFor,
               HarnessBoot!GoesTo,
            HarnessBoot!machine, KeysOK
    <3> QED BY <1>11, <3>1, <3>2, <3>3 DEF HarnessBoot!ArmScroll, HarnessBoot!Armed
  <2>2. KeysOK'
      BY <1>a, <2>1, <1>b, PressFits DEF KeysOK, WasLit, WasDark
  <2>3. DownOK'
      BY <1>a, <2>1, <1>b, PressFits DEF DownOK
  <2>4. PostOK'
      BY <1>a, <2>1, <1>b, PressFits DEF PostOK
  <2>5. ArmedOK'
      BY <1>a, <2>1 DEF ArmedOK
  <2>6. ColdOK'
      BY <1>a, <2>1 DEF ColdOK
  <2>7. NumOK'
      BY <1>a, <2>1, <1>b, PressFits DEF NumOK, WasLit, WasDark
  <2> QED BY <2>2, <2>3, <2>4, <2>5, <2>6, <2>7 DEF BootInv
<1>12. CASE HarnessBoot!CheckArmed
  <2>1. /\ bootPc \in {"checkCaps", "checkCapsAgain", "checkScroll", "checkScrollAgain"}
        /\ bootPc' \in {"checkCapsAgain", "checkScroll", "checkScrollAgain", "combo", "refused"}
        /\ bootPc' = "checkScroll" =>
              keys = <<>> /\ "caps" \in node /\ (phase # "off" => node = led)
        /\ bootPc' = "checkScrollAgain" => bootPc = "checkScroll"
        /\ bootPc' = "combo" => bootPc = "checkScrollAgain" /\ "scroll" \notin node
        /\ val' \in BOOLEAN /\ UNCHANGED <<phase, led, keys, node, since, numWas>>
    <3>1. CASE bootPc \in {"checkCaps", "checkScroll"}
        BY <1>a, <1>12, <3>1, FirstReadOf
           DEF HarnessBoot!CheckArmed, HarnessBoot!Checked, HarnessBoot!machine, KeysOK
    <3>2. CASE bootPc = "checkCapsAgain"
        BY <1>a, <1>12, <3>2, AgreedReading
           DEF HarnessBoot!CheckArmed, HarnessBoot!Checked, HarnessBoot!SecondRead,
            HarnessBoot!GoesTo, HarnessBoot!Refuses, KeysOK
    <3>3. CASE bootPc = "checkScrollAgain"
        BY <1>a, <1>12, <3>3, AgreedReading
           DEF HarnessBoot!CheckArmed, HarnessBoot!Checked, HarnessBoot!SecondRead,
            HarnessBoot!GoesTo, HarnessBoot!Refuses, KeysOK
    <3> QED BY <1>12, <3>1, <3>2, <3>3 DEF HarnessBoot!CheckArmed, HarnessBoot!Checked
  <2>2. KeysOK'
      BY <1>a, <2>1 DEF KeysOK, WasLit, WasDark
  <2>3. DownOK'
      BY <1>a, <2>1 DEF DownOK
  <2>4. PostOK'
      BY <1>a, <2>1 DEF PostOK
  <2>5. ArmedOK'
      BY <1>a, <2>1 DEF ArmedOK, DownOK
  <2>6. ColdOK'
      BY <1>a, <2>1 DEF ColdOK
  <2>7. NumOK'
      BY <1>a, <2>1 DEF NumOK, WasLit, WasDark
  <2> QED BY <2>2, <2>3, <2>4, <2>5, <2>6, <2>7 DEF BootInv
<1>13. CASE HarnessBoot!Combo
  <2>1. /\ bootPc = "combo" /\ bootPc' = "edge"
        /\ \/ phase \in {"boot", "prompt"} /\ phase' = "post" /\ keys' = <<>> /\ led' = led
           \/ UNCHANGED <<phase, led, keys>>
        /\ UNCHANGED <<node, val, since, numWas>>
      BY <1>a, <1>13
         DEF HarnessBoot!Combo, HarnessBoot!Restarts, HarnessBoot!Alive, HarnessBoot!local,
             HarnessBoot!GoesTo
  <2>2. KeysOK'
      BY <1>a, <2>1, EmptySeq DEF KeysOK, WasLit, WasDark
  <2>3. DownOK'
      BY <1>a, <2>1 DEF DownOK
  <2>4. PostOK'
      BY <1>a, <2>1, EmptySeq DEF PostOK
  <2>5. ArmedOK'
      BY <1>a, <2>1 DEF ArmedOK
  <2>6. ColdOK'
      BY <1>a, <2>1 DEF ColdOK
  <2>7. NumOK'
      BY <1>a, <2>1 DEF NumOK, WasLit, WasDark
  <2> QED BY <2>2, <2>3, <2>4, <2>5, <2>6, <2>7 DEF BootInv
<1>14. CASE HarnessBoot!Edge
  <2>1. /\ bootPc = "edge" /\ bootPc' \in {"menu", "refused"} /\ (bootPc' = "menu" => "caps" \notin node)
        /\ UNCHANGED <<phase, led, keys, node, val, since, numWas>>
      BY <1>a, <1>14
         DEF HarnessBoot!Edge, HarnessBoot!WaitsFor, HarnessBoot!Lit, HarnessBoot!machine,
             HarnessBoot!local,
             HarnessBoot!GoesTo
  <2>2. KeysOK'
      BY <1>a, <2>1 DEF KeysOK, WasLit, WasDark
  <2>3. DownOK'
      BY <1>a, <2>1 DEF DownOK
  <2>4. PostOK'
      BY <1>a, <2>1 DEF PostOK
  <2>5. ArmedOK'
      BY <1>a, <2>1 DEF ArmedOK
  <2>6. ColdOK'
      BY <1>a, <2>1 DEF ColdOK
  <2>7. NumOK'
      BY <1>a, <2>1 DEF NumOK, WasLit, WasDark
  <2> QED BY <2>2, <2>3, <2>4, <2>5, <2>6, <2>7 DEF BootInv
<1>15. CASE HarnessBoot!SpamMenu
  <2>1. /\ bootPc = "menu" /\ bootPc' = "pulse"
        /\ UNCHANGED <<phase, led, keys, node, val, since, numWas>>
      BY <1>a, <1>15
         DEF HarnessBoot!SpamMenu, HarnessBoot!machine, HarnessBoot!local, HarnessBoot!GoesTo
  <2>2. KeysOK'
      BY <1>a, <2>1 DEF KeysOK, WasLit, WasDark
  <2>3. DownOK'
      BY <1>a, <2>1 DEF DownOK
  <2>4. PostOK'
      BY <1>a, <2>1 DEF PostOK
  <2>5. ArmedOK'
      BY <1>a, <2>1 DEF ArmedOK
  <2>6. ColdOK'
      BY <1>a, <2>1 DEF ColdOK
  <2>7. NumOK'
      BY <1>a, <2>1 DEF NumOK, WasLit, WasDark
  <2> QED BY <2>2, <2>3, <2>4, <2>5, <2>6, <2>7 DEF BootInv
<1>16. CASE HarnessBoot!ReadySeen
  <2>1. /\ bootPc = "pulse" /\ bootPc' \in {"num", "refused"} /\ (bootPc' = "num" => "scroll" \in node)
        /\ UNCHANGED <<phase, led, keys, node, val, since, numWas>>
      BY <1>a, <1>16
         DEF HarnessBoot!ReadySeen, HarnessBoot!WaitsFor, HarnessBoot!Lit, HarnessBoot!machine,
             HarnessBoot!local, HarnessBoot!GoesTo
  <2>2. KeysOK'
      BY <1>a, <2>1 DEF KeysOK, WasLit, WasDark
  <2>3. DownOK'
      BY <1>a, <2>1 DEF DownOK
  <2>4. PostOK'
      BY <1>a, <2>1 DEF PostOK
  <2>5. ArmedOK'
      BY <1>a, <2>1 DEF ArmedOK, KeysOK
  <2>6. ColdOK'
      BY <1>a, <2>1 DEF ColdOK
  <2>7. NumOK'
      BY <1>a, <2>1 DEF NumOK, WasLit, WasDark
  <2> QED BY <2>2, <2>3, <2>4, <2>5, <2>6, <2>7 DEF BootInv
<1>17. CASE HarnessBoot!ProbeReads
  <2>1. /\ bootPc \in {"num", "numAgain"} /\ bootPc' \in {"numAgain", "numWait", "refused"}
        /\ bootPc' # "numWait" => keys' = keys /\ numWas' = numWas
        /\ bootPc' = "numWait" =>
              /\ HarnessBoot!Press("num") /\ keys = <<>> /\ (phase # "off" => node = led)
              /\ numWas' = <<val>> /\ (val <=> "num" \in node)
        /\ val' \in BOOLEAN /\ UNCHANGED <<phase, led, node, since>>
    <3>1. CASE bootPc = "num"
        BY <1>a, <1>17, <3>1, FirstReadOf
           DEF HarnessBoot!ProbeReads, HarnessBoot!machine, KeysOK
    <3>2. CASE bootPc = "numAgain"
        BY <1>a, <1>17, <3>2, AgreedReading DEF HarnessBoot!ProbeReads, HarnessBoot!SecondRead,
            HarnessBoot!GoesTo, HarnessBoot!Refuses, KeysOK
    <3> QED BY <1>17, <3>1, <3>2 DEF HarnessBoot!ProbeReads
  <2>2. KeysOK'
      BY <1>a, <2>1, <1>b, PressFits DEF KeysOK, WasLit, WasDark
  <2>3. DownOK'
      BY <1>a, <2>1, <1>b, PressFits DEF DownOK
  <2>4. PostOK'
      BY <1>a, <2>1, <1>b, PressFits DEF PostOK
  <2>5. ArmedOK'
      BY <1>a, <2>1 DEF ArmedOK
  <2>6. ColdOK'
      BY <1>a, <2>1 DEF ColdOK
  <2>7. NumOK'
    <3>1. CASE bootPc' # "numWait"
        BY <1>a, <2>1, <3>1 DEF NumOK, WasLit, WasDark
    <3>2. CASE bootPc' = "numWait"
      <4>1. /\ HarnessBoot!Press("num") /\ keys = <<>> /\ (phase # "off" => node = led)
            /\ numWas' = <<val>> /\ (val <=> "num" \in node) /\ led' = led /\ phase' = phase
          BY <2>1, <3>2
      <4>2. keys \in Seq({"num"}) /\ Len(keys) = 0
          BY <4>1, EmptySeq
      <4>3. keys' \in Seq({"num"}) /\ (phase \in {"boot", "prompt"} => Len(keys') = 1)
          BY <4>1, <4>2, PressAdds
      <4>4. val = TRUE \/ val = FALSE
          BY <1>a DEF KeysOK
      <4>5. phase \in {"boot", "prompt"} =>
               /\ WasLit' => "num" \in led
               /\ WasDark' => "num" \notin led
        <5>2. CASE val = TRUE
            BY <4>1, <5>2 DEF WasLit, WasDark
        <5>3. CASE val = FALSE
            BY <4>1, <5>3 DEF WasLit, WasDark
        <5> QED BY <4>4, <5>2, <5>3
      <4>6. phase \in {"boot", "prompt"} =>
               /\ WasLit' => ~WillBeLit(Len(keys))'
               /\ WasDark' => WillBeLit(Len(keys))'
          BY <4>1, <4>3, <4>5
      <4>7. phase \in {"boot", "prompt"} => Len(keys') <= 1 /\ Len(keys') <= 2
        <5>1. PICK n \in Nat : n = Len(keys')
            BY <4>3, LenProperties
        <5>2. n = 1 => n <= 1 /\ n <= 2
            OBVIOUS
        <5> QED BY <4>3, <5>1, <5>2
      <4> QED BY <3>2, <4>1, <4>3, <4>6, <4>7 DEF NumOK
    <3> QED BY <3>1, <3>2
  <2> QED BY <2>2, <2>3, <2>4, <2>5, <2>6, <2>7 DEF BootInv
<1>18. CASE HarnessBoot!ProbeFlips
  <2>1. /\ bootPc = "numWait" /\ bootPc' \in {"numBack", "numRest"} /\ HarnessBoot!Press("num")
        /\ UNCHANGED <<phase, led, node, val, since, numWas>>
      BY <1>a, <1>18
         DEF HarnessBoot!ProbeFlips, HarnessBoot!WaitsFor, HarnessBoot!Press, HarnessBoot!local,
             HarnessBoot!GoesTo
  <2>2. KeysOK'
      BY <1>a, <2>1, <1>b, PressFits DEF KeysOK, WasLit, WasDark
  <2>3. DownOK'
      BY <1>a, <2>1, <1>b, PressFits DEF DownOK
  <2>4. PostOK'
      BY <1>a, <2>1, <1>b, PressFits DEF PostOK
  <2>5. ArmedOK'
      BY <1>a, <2>1 DEF ArmedOK
  <2>6. ColdOK'
      BY <1>a, <2>1 DEF ColdOK
  <2>7. NumOK'
    <3>1. CASE phase \in {"boot", "prompt"} /\ numWas # <<>>
      <4>1. /\ keys \in Seq({"num"}) /\ Len(keys) <= 1
            /\ WasLit => ~WillBeLit(Len(keys))
            /\ WasDark => WillBeLit(Len(keys))
          BY <1>a, <2>1, <3>1 DEF NumOK
      <4>2. keys' \in Seq({"num"}) /\ Len(keys') = Len(keys) + 1 /\ Len(keys) \in Nat
          BY <2>1, <3>1, <4>1, PressAdds, LenProperties
      <4>3. (Len(keys) = 0 /\ Len(keys') = 1) \/ (Len(keys) = 1 /\ Len(keys') = 2)
        <5>1. PICK n \in Nat : n = Len(keys)
            BY <4>2
        <5>2. n <= 1 /\ Len(keys') = n + 1
            BY <4>1, <4>2, <5>1
        <5>3. n = 0 \/ n = 1
            BY <5>2
        <5> QED BY <5>1, <5>2, <5>3
      <4>4. bootPc' # "numWait" /\ bootPc' \notin Arming
          BY <2>1
      <4>6. (WasLit' <=> WasLit) /\ (WasDark' <=> WasDark)
          BY <2>1 DEF WasLit, WasDark
      <4>5. /\ WasLit => WillBeLit(Len(keys))'
            /\ WasDark => ~WillBeLit(Len(keys))'
          BY <2>1, <4>1, <4>3
      <4>7. Len(keys') <= 2
        <5>1. PICK n \in Nat : n = Len(keys')
            BY <4>2, LenProperties
        <5>2. n = 1 \/ n = 2
            BY <4>3, <5>1
        <5>3. n <= 2
            BY <5>2
        <5> QED BY <5>1, <5>3
      <4> QED BY <2>1, <4>2, <4>4, <4>5, <4>6, <4>7 DEF NumOK
    <3>2. CASE ~ (phase \in {"boot", "prompt"} /\ numWas # <<>>)
        BY <1>a, <2>1, <3>2 DEF NumOK, WasLit, WasDark
    <3> QED BY <3>1, <3>2
  <2> QED BY <2>2, <2>3, <2>4, <2>5, <2>6, <2>7 DEF BootInv
<1>19. CASE HarnessBoot!ProbeRestored
  <2>1. /\ bootPc \in {"numBack", "numRest"} /\ bootPc' \in {"ready", "num", "refused"}
        /\ UNCHANGED <<phase, led, keys, node, val, since, numWas>>
      BY <1>a, <1>19
         DEF HarnessBoot!ProbeRestored, HarnessBoot!machine, HarnessBoot!local,
             HarnessBoot!GoesTo
  <2>2. KeysOK'
      BY <1>a, <2>1 DEF KeysOK, WasLit, WasDark
  <2>3. DownOK'
      BY <1>a, <2>1 DEF DownOK
  <2>4. PostOK'
      BY <1>a, <2>1 DEF PostOK
  <2>5. ArmedOK'
      BY <1>a, <2>1 DEF ArmedOK
  <2>6. ColdOK'
      BY <1>a, <2>1 DEF ColdOK
  <2>7. NumOK'
      BY <1>a, <2>1 DEF NumOK, WasLit, WasDark
  <2> QED BY <2>2, <2>3, <2>4, <2>5, <2>6, <2>7 DEF BootInv
<1>20. CASE HarnessBoot!PowerOn
  <2>1. /\ phase = "off" /\ phase' = "post" /\ keys' = <<>> /\ bootPc' = "cold" /\ since' = "nothing"
        /\ UNCHANGED <<led, node, val, numWas>>
      BY <1>a, <1>20 DEF HarnessBoot!PowerOn, HarnessBoot!local, HarnessBoot!GoesTo
  <2>2. KeysOK'
      BY <1>a, <2>1, EmptySeq DEF KeysOK, WasLit, WasDark
  <2>3. DownOK'
      BY <1>a, <2>1 DEF DownOK
  <2>4. PostOK'
      BY <1>a, <2>1, EmptySeq DEF PostOK
  <2>5. ArmedOK'
      BY <1>a, <2>1 DEF ArmedOK
  <2>6. ColdOK'
      BY <1>a, <2>1 DEF ColdOK, DownOK
  <2>7. NumOK'
      BY <1>a, <2>1 DEF NumOK, WasLit, WasDark
  <2> QED BY <2>2, <2>3, <2>4, <2>5, <2>6, <2>7 DEF BootInv
<1>21. CASE HarnessBoot!ColdBoot
  <2>1. /\ \/ bootPc = "cold" /\ bootPc' \in {"coldPulse", "refused"} /\ (bootPc' = "coldPulse" => "scroll" \notin node)
           \/ bootPc = "coldPulse" /\ bootPc' \in {"ready", "refused"} /\ (bootPc' = "ready" => "scroll" \in node)
        /\ UNCHANGED <<phase, led, keys, node, val, since, numWas>>
      BY <1>a, <1>21
         DEF HarnessBoot!ColdBoot, HarnessBoot!WaitsFor, HarnessBoot!Lit, HarnessBoot!machine,
             HarnessBoot!local, HarnessBoot!GoesTo
  <2>2. KeysOK'
      BY <1>a, <2>1 DEF KeysOK, WasLit, WasDark
  <2>3. DownOK'
      BY <1>a, <2>1 DEF DownOK
  <2>4. PostOK'
      BY <1>a, <2>1 DEF PostOK
  <2>5. ArmedOK'
      BY <1>a, <2>1 DEF ArmedOK
  <2>6. ColdOK'
      BY <1>a, <2>1 DEF ColdOK
  <2>7. NumOK'
      BY <1>a, <2>1 DEF NumOK, WasLit, WasDark
  <2> QED BY <2>2, <2>3, <2>4, <2>5, <2>6, <2>7 DEF BootInv
<1> QED BY <1>1, <1>2, <1>3, <1>4, <1>5, <1>6, <1>7, <1>8, <1>9, <1>10, <1>11,
           <1>12, <1>13, <1>14, <1>15, <1>16, <1>17, <1>18, <1>19, <1>20, <1>21 DEF HarnessBoot!Next

LEMMA BootStarts == HarnessBoot!Init => BootInv
<1> SUFFICES ASSUME HarnessBoot!Init PROVE BootInv
    OBVIOUS
<1>1. /\ phase \in {"off", "boot", "prompt"} /\ node = led /\ keys = <<>> /\ bootPc = "idle"
      /\ val = FALSE /\ since = "nothing" /\ numWas = <<>>
    BY DEF HarnessBoot!Init
<1>2. KeysOK
    BY <1>1, EmptySeq DEF KeysOK, WasLit, WasDark
<1> QED BY <1>1, <1>2
        DEF BootInv, DownOK, PostOK, ArmedOK, ColdOK, NumOK, Arming, Probing

LEMMA BootInductive == HarnessBoot!Spec => []BootInv
<1>1. BootInv /\ [HarnessBoot!Next]_HarnessBoot!vars => BootInv'
  <2>1. CASE HarnessBoot!Next
      BY <2>1, BootStep
  <2>2. CASE UNCHANGED HarnessBoot!vars
    <3>1. (KeysOK <=> KeysOK') /\ (DownOK <=> DownOK') /\ (PostOK <=> PostOK')
        BY <2>2 DEF HarnessBoot!vars, KeysOK, DownOK, PostOK, WasLit, WasDark
    <3>2. (ArmedOK <=> ArmedOK') /\ (ColdOK <=> ColdOK')
        BY <2>2 DEF HarnessBoot!vars, ArmedOK, ColdOK, Probing
    <3>3. NumOK <=> NumOK'
        BY <2>2 DEF HarnessBoot!vars, NumOK, Arming, WasLit, WasDark, WillBeLit
    <3> QED BY <3>1, <3>2, <3>3 DEF BootInv
  <2> QED BY <2>1, <2>2
<1> QED BY BootStarts, <1>1, PTL DEF HarnessBoot!Spec

\* A start that the harness reports is one that happened
\* (HarnessBoot!ReadyMeansBooted): whatever the lamps showed of an earlier
\* start, and whoever resets the machine meanwhile, between the first look at
\* the lamps and the report the machine went through a POST and came up, for
\* any number of resets and of keys not served yet.
THEOREM ReportedStartHappened == HarnessBoot!Spec => HarnessBoot!ReadyMeansBooted
<1>1. BootInv /\ HarnessBoot!Next => (bootPc' = "ready" /\ bootPc # "ready" => since = "booted")
  <2> SUFFICES ASSUME BootInv, HarnessBoot!Next, bootPc' = "ready", bootPc # "ready"
               PROVE  since = "booted"
      OBVIOUS
  <2>1. CASE bootPc' = bootPc
      BY <2>1
  <2>2. CASE HarnessBoot!ProbeRestored
    <3>1. bootPc = "numBack"
        BY <2>2 DEF HarnessBoot!ProbeRestored, HarnessBoot!GoesTo
    <3> QED BY <3>1 DEF BootInv, ArmedOK, Probing
  <2>3. CASE HarnessBoot!ColdBoot
    <3>1. bootPc = "coldPulse" /\ "scroll" \in node
        BY <2>3
           DEF HarnessBoot!ColdBoot, HarnessBoot!WaitsFor, HarnessBoot!GoesTo, HarnessBoot!Lit
    <3> QED BY <3>1 DEF BootInv, ColdOK
  <2>4. CASE HarnessBoot!Upset \/ HarnessBoot!Posts \/ HarnessBoot!Pulses \/ HarnessBoot!Served
             \/ HarnessBoot!Published \/ HarnessBoot!ChannelChanges
    <3>1. bootPc' = bootPc
        BY <2>4
           DEF HarnessBoot!Upset, HarnessBoot!Posts, HarnessBoot!Pulses, HarnessBoot!Served,
               HarnessBoot!Published,
            HarnessBoot!ChannelChanges
    <3> QED BY <2>1, <3>1
  <2>5. CASE HarnessBoot!SelectBegins \/ HarnessBoot!Prove \/ HarnessBoot!Proven
             \/ HarnessBoot!Combo \/ HarnessBoot!Edge \/ HarnessBoot!SpamMenu \/ HarnessBoot!ReadySeen
             \/ HarnessBoot!ProbeFlips \/ HarnessBoot!PowerOn
      BY <2>5
         DEF HarnessBoot!SelectBegins, HarnessBoot!Prove, HarnessBoot!Proven, HarnessBoot!Combo,
             HarnessBoot!Edge,
          HarnessBoot!SpamMenu, HarnessBoot!ReadySeen, HarnessBoot!ProbeFlips, HarnessBoot!PowerOn, HarnessBoot!WaitsFor,
          HarnessBoot!Refuses, HarnessBoot!GoesTo
  <2>6. CASE HarnessBoot!ArmCaps \/ HarnessBoot!ArmScroll
      BY <2>6
         DEF HarnessBoot!ArmCaps, HarnessBoot!ArmScroll, HarnessBoot!Armed,
             HarnessBoot!FirstRead, HarnessBoot!SecondRead,
          HarnessBoot!WaitsFor, HarnessBoot!Refuses, HarnessBoot!GoesTo
  <2>7. CASE HarnessBoot!CheckArmed \/ HarnessBoot!ProbeReads
      BY <2>7
         DEF HarnessBoot!CheckArmed, HarnessBoot!Checked, HarnessBoot!ProbeReads,
             HarnessBoot!FirstRead,
          HarnessBoot!SecondRead, HarnessBoot!Refuses, HarnessBoot!GoesTo
  <2> QED BY <2>2, <2>3, <2>4, <2>5, <2>6, <2>7 DEF HarnessBoot!Next
<1>2. BootInv /\ [HarnessBoot!Next]_HarnessBoot!vars
         => [bootPc' = "ready" /\ bootPc # "ready" => since = "booted"]_HarnessBoot!vars
    BY <1>1
<1> QED BY BootInductive, <1>2, PTL DEF HarnessBoot!Spec, HarnessBoot!ReadyMeansBooted

\* A probe of the prompt leaves Num Lock as it was (HarnessBoot!ProbeRestores):
\* whatever the harness saw of the first press, once the machine has served the
\* two it shows the lamp it showed before.
THEOREM ProbeLeavesNoTrace == HarnessBoot!Spec => []HarnessBoot!ProbeRestores
<1>1. BootInv => HarnessBoot!ProbeRestores
  <2> SUFFICES ASSUME BootInv, bootPc \notin {"numWait", "numBack"}, numWas # <<>>,
                      phase \in {"boot", "prompt"}, keys = <<>>
               PROVE  <<"num" \in led>> = numWas
      BY DEF HarnessBoot!ProbeRestores, HarnessBoot!Alive
  <2>1. Len(keys) = 0
      BY EmptySeq
  <2>2. (WasLit => WillBeLit(Len(keys))) /\ (WasDark => ~WillBeLit(Len(keys)))
      BY DEF BootInv, NumOK
  <2>3. (WasLit => "num" \in led) /\ (WasDark => "num" \notin led)
      BY <2>1, <2>2 DEF WillBeLit
  <2>4. WasLit \/ WasDark
      BY DEF BootInv, KeysOK
  <2>5. CASE WasLit
    <3>1. ("num" \in led) = TRUE
        BY <2>3, <2>5
    <3> QED BY <2>5, <3>1 DEF WasLit
  <2>6. CASE WasDark
    <3>1. ("num" \in led) = FALSE
        BY <2>3, <2>6
    <3> QED BY <2>6, <3>1 DEF WasDark
  <2> QED BY <2>4, <2>5, <2>6
<1> QED BY BootInductive, <1>1, PTL

-----------------------------------------------------------------------------
(* The emulated drive (MsdLun).                                            *)

\* An attribute left over from another mount is written while no image is shown.
LunOK ==
    /\ file \in Images \cup {NoImage} /\ cdrom \in BOOLEAN /\ ro \in BOOLEAN
    /\ file # NoImage => [file |-> file, cdrom |-> cdrom, ro |-> ro] \in asked

\* Where a mount is: which of its four attributes are written.
MountAt(m) ==
    \/ work = MsdLun!Writes(m)
    \/ /\ file = NoImage
       /\ work = << <<"cdrom", m.cdrom>>, <<"ro", m.ro>>, <<"file", m.file>> >>
    \/ /\ file = NoImage /\ cdrom = m.cdrom
       /\ work = << <<"ro", m.ro>>, <<"file", m.file>> >>
    \/ /\ file = NoImage /\ cdrom = m.cdrom /\ ro = m.ro
       /\ work = << <<"file", m.file>> >>

LunInv ==
    /\ LunOK
    /\ lock # NoCaller => work = << <<"file", NoImage>> >> \/ \E m \in MsdLun!Mounts : MountAt(m)

LEMMA LunWrites ==
    ASSUME LunInv, MsdLun!Write
    PROVE  LunInv'
<1>1. lock # NoCaller /\ UNCHANGED lunImages
    BY DEF MsdLun!Write
<1>2. CASE work = << <<"file", NoImage>> >>
  <2>1. Head(work) = <<"file", NoImage>> /\ Tail(work) = <<>>
      BY <1>2
  <2>2. file' = NoImage /\ cdrom' = cdrom /\ ro' = ro /\ lock' = NoCaller
      BY <2>1 DEF MsdLun!Write, MsdLun!Done
  <2> QED BY <2>2 DEF LunInv, LunOK
<1>3. ASSUME NEW m \in MsdLun!Mounts, MountAt(m) PROVE LunInv'
  <2>0. m.file \in Images /\ m.cdrom \in BOOLEAN /\ m.ro \in BOOLEAN
      BY DEF MsdLun!Mounts
  <2>1. CASE work = MsdLun!Writes(m)
    <3>1. /\ Head(work) = <<"file", NoImage>>
          /\ Tail(work) = << <<"cdrom", m.cdrom>>, <<"ro", m.ro>>, <<"file", m.file>> >>
        BY <2>1 DEF MsdLun!Writes
    <3>2. file' = NoImage /\ cdrom' = cdrom /\ ro' = ro /\ work' = Tail(work)
        BY <3>1 DEF MsdLun!Write, MsdLun!Done
    <3>3. MountAt(m)'
        BY <3>1, <3>2 DEF MountAt
    <3> QED BY <3>2, <3>3 DEF LunInv, LunOK
  <2>2. CASE /\ file = NoImage
             /\ work = << <<"cdrom", m.cdrom>>, <<"ro", m.ro>>, <<"file", m.file>> >>
    <3>1. /\ Head(work) = <<"cdrom", m.cdrom>>
          /\ Tail(work) = << <<"ro", m.ro>>, <<"file", m.file>> >>
        BY <2>2
    <3>2. file' = NoImage /\ cdrom' = m.cdrom /\ ro' = ro /\ work' = Tail(work)
        BY <2>2, <3>1 DEF MsdLun!Write, MsdLun!Done
    <3>3. MountAt(m)'
        BY <3>1, <3>2 DEF MountAt
    <3> QED BY <2>0, <3>2, <3>3 DEF LunInv, LunOK
  <2>3. CASE /\ file = NoImage /\ cdrom = m.cdrom
             /\ work = << <<"ro", m.ro>>, <<"file", m.file>> >>
    <3>1. Head(work) = <<"ro", m.ro>> /\ Tail(work) = << <<"file", m.file>> >>
        BY <2>3
    <3>2. file' = NoImage /\ cdrom' = m.cdrom /\ ro' = m.ro /\ work' = Tail(work)
        BY <2>3, <3>1 DEF MsdLun!Write, MsdLun!Done
    <3>3. MountAt(m)'
        BY <3>1, <3>2 DEF MountAt
    <3> QED BY <2>0, <3>2, <3>3 DEF LunInv, LunOK
  <2>4. CASE /\ file = NoImage /\ cdrom = m.cdrom /\ ro = m.ro
             /\ work = << <<"file", m.file>> >>
    <3>1. Head(work) = <<"file", m.file>> /\ Tail(work) = <<>>
        BY <2>4
    <3>2. /\ file' = m.file /\ cdrom' = m.cdrom /\ ro' = m.ro /\ lock' = NoCaller
          /\ file' # NoImage => asked' = {[file |-> file', cdrom |-> cdrom', ro |-> ro']}
        BY <2>4, <3>1 DEF MsdLun!Write, MsdLun!Done
    <3> QED BY <2>0, <3>2 DEF LunInv, LunOK
  <2> QED BY <1>3, <2>1, <2>2, <2>3, <2>4 DEF MountAt
<1> QED BY <1>1, <1>2, <1>3 DEF LunInv

LEMMA LunInductive ==
    ASSUME MsdLun!LunAssumption
    PROVE  MsdLun!Spec => []LunInv
<1>1. MsdLun!Init => LunInv
    BY DEF MsdLun!Init, LunInv, LunOK
<1>2. LunInv /\ [MsdLun!Next]_MsdLun!vars => LunInv'
  <2> SUFFICES ASSUME LunInv, [MsdLun!Next]_MsdLun!vars PROVE LunInv'
      OBVIOUS
  <2>1. CASE MsdLun!Write
      BY <2>1, LunWrites
  <2>2. CASE MsdLun!WriteFails
      BY <2>2 DEF MsdLun!WriteFails, LunInv, LunOK
  <2>3. ASSUME NEW c \in Callers, NEW m \in MsdLun!Mounts, MsdLun!Mount(c, m) PROVE LunInv'
    <3>1. work' = MsdLun!Writes(m) /\ asked' = asked \cup {m} /\ UNCHANGED <<file, cdrom, ro>>
        BY <2>3 DEF MsdLun!Mount
    <3>2. MountAt(m)'
        BY <3>1 DEF MountAt, MsdLun!Writes
    <3> QED BY <3>1, <3>2 DEF LunInv, LunOK
  <2>4. ASSUME NEW c \in Callers, MsdLun!Eject(c) PROVE LunInv'
      BY <2>4 DEF MsdLun!Eject, LunInv, LunOK
  <2>5. CASE UNCHANGED <<file, cdrom, ro, lock, work, asked>>
    <3>1. \A m \in MsdLun!Mounts : MountAt(m)' <=> MountAt(m)
        BY <2>5 DEF MountAt, MsdLun!Writes
    <3> QED BY <2>5, <3>1 DEF LunInv, LunOK
  <2> QED
      BY <2>1, <2>2, <2>3, <2>4, <2>5
         DEF MsdLun!Next, MsdLun!vars, MsdLun!Build, MsdLun!BuildEnds
<1> QED BY <1>1, <1>2, PTL DEF MsdLun!Spec

\* An image the host sees is there as one request asked for it
\* (MsdLun!ExposedAsAsked): `_msd_mount` writes mode and write protection while
\* no image is set, so that a write that fails between them leaves none.
THEOREM ImageIsAsAsked ==
    ASSUME MsdLun!LunAssumption
    PROVE  MsdLun!Spec => []MsdLun!ExposedAsAsked
<1>1. LunInv => MsdLun!ExposedAsAsked
    BY DEF LunInv, LunOK, MsdLun!ExposedAsAsked
<1> QED BY LunInductive, <1>1, PTL

-----------------------------------------------------------------------------
(* The pulled copies and who saves one (PulledStore).                      *)

\* A copy that is kept or on record came.
CopiesOK ==
    /\ copies \in Nat /\ copies <= Len(Size)
    /\ bytes \in 0 .. copies /\ sidecar \in 0 .. copies /\ promoting \in 0 .. copies

\* While a copy's record is missing the bytes are its own or are cleared; apart
\* from that a record beside the bytes is theirs, or outlived its own.
RecordOK ==
    /\ promoting # 0 => promoting = copies /\ bytes \in {0, copies}
    /\ PulledStore!RecordIsTrue

\* A client that was given a sha saves what has it.
SaverOK ==
    /\ saver = [at |-> saver.at, got |-> saver.got, want |-> saver.want]
    /\ saver.at \in {"idle", "read", "list", "check", "saved", "failed"}
    /\ saver.at \in {"check", "saved"} /\ recorded /\ heard => saver.want \in PulledStore!Copies
    /\ saver.at = "saved" /\ recorded /\ heard => out = PulledStore!Whole(saver.want)

PulledInv == CopiesOK /\ SaverOK

LEMMA CopiesStep ==
    ASSUME PulledStore!SizeAssumption, CopiesOK, [PulledStore!Next]_PulledStore!vars
    PROVE  CopiesOK' /\ (RecordOK => RecordOK')
<1>0. Len(Size) \in Nat
    BY LenProperties DEF PulledStore!SizeAssumption
<1>1. CASE PulledStore!Promote
    BY <1>0, <1>1 DEF PulledStore!Promote, CopiesOK, RecordOK, PulledStore!RecordIsTrue
<1>2. CASE PulledStore!Record
    BY <1>2 DEF PulledStore!Record, CopiesOK, RecordOK, PulledStore!RecordIsTrue
<1>3. CASE PulledStore!Opens
    BY <1>3 DEF PulledStore!Opens, CopiesOK, RecordOK, PulledStore!RecordIsTrue
<1>6. CASE PulledStore!Unrecorded
  <2>1. UNCHANGED <<copies, bytes, sidecar>> /\ promoting' = 0 /\ outlived' = (sidecar # 0)
      BY <1>6 DEF PulledStore!Unrecorded
  <2>2. CopiesOK'
      BY <2>1 DEF CopiesOK
  <2>3. PulledStore!RecordIsTrue'
    <3>1. CASE sidecar = 0
        BY <2>1, <3>1 DEF PulledStore!RecordIsTrue
    <3>2. CASE sidecar # 0
      <4>1. outlived'
          BY <2>1, <3>2
      <4> QED BY <4>1 DEF PulledStore!RecordIsTrue
    <3> QED BY <3>1, <3>2
  <2> QED BY <2>1, <2>2, <2>3 DEF RecordOK
<1>4. CASE PulledStore!ClearBegins \/ PulledStore!ClearBytes \/ PulledStore!ClearSidecar
    BY <1>4 DEF PulledStore!ClearBegins, PulledStore!ClearBytes, PulledStore!ClearSidecar,
        CopiesOK, RecordOK, PulledStore!RecordIsTrue
<1>5. CASE UNCHANGED PulledStore!store
    BY <1>5 DEF PulledStore!store, CopiesOK, RecordOK, PulledStore!RecordIsTrue
<1> QED
    BY <1>1, <1>2, <1>3, <1>4, <1>5, <1>6 DEF PulledStore!Next, PulledStore!vars, PulledStore!store,
       PulledStore!SaveBegins, PulledStore!SaveReads, PulledStore!SaveReadFails,
       PulledStore!SaveLists, PulledStore!SaveListFails, PulledStore!SaveEnds,
       PulledStore!SaveEndFails, PulledStore!Fails

LEMMA SaverStep ==
    ASSUME PulledStore!SizeAssumption, PulledInv, [PulledStore!Next]_PulledStore!vars
    PROVE  SaverOK'
<1>0. Len(Size) \in Nat
    BY LenProperties DEF PulledStore!SizeAssumption
<1>1. CASE PulledStore!SaveBegins
    BY <1>1 DEF PulledStore!SaveBegins, SaverOK
<1>2. CASE PulledStore!SaveReads
    BY <1>2 DEF PulledStore!SaveReads, PulledInv, SaverOK
<1>3. CASE PulledStore!SaveLists
  <2>1. /\ saver.at = "list" /\ saver'.at = "check"
        /\ saver' = [at |-> "check", got |-> saver.got,
                     want |-> IF bytes # 0 /\ heard' THEN sidecar ELSE 0]
        /\ recorded' = (bytes # 0 /\ sidecar # 0) /\ heard' \in BOOLEAN
      BY <1>3 DEF PulledStore!SaveLists, PulledInv, SaverOK
  <2>2. CASE bytes # 0 /\ sidecar # 0 /\ heard'
    <3>1. sidecar \in PulledStore!Copies
        BY <1>0, <2>2 DEF PulledInv, CopiesOK, PulledStore!Copies
    <3> QED BY <2>1, <2>2, <3>1 DEF SaverOK
  <2>3. CASE ~ (bytes # 0 /\ sidecar # 0 /\ heard')
    <3>1. ~ (recorded' /\ heard')
        BY <2>1, <2>3
    <3> QED BY <2>1, <3>1 DEF SaverOK
  <2> QED BY <2>2, <2>3
<1>4. CASE PulledStore!SaveEnds
  <2>1. /\ recorded' = recorded /\ heard' = heard /\ saver.at = "check"
        /\ saver.want # 0 => saver.got = PulledStore!Whole(saver.want)
        /\ saver' = [saver EXCEPT !.at = "saved"] /\ out' = saver.got
      BY <1>4 DEF PulledStore!SaveEnds
  <2>2. saver' = [at |-> "saved", got |-> saver.got, want |-> saver.want]
      BY <2>1 DEF PulledInv, SaverOK
  <2>3. CASE recorded /\ heard
    <3>1. saver.want \in PulledStore!Copies /\ saver.want # 0
        BY <1>0, <2>1, <2>3 DEF PulledInv, SaverOK, PulledStore!Copies
    <3> QED BY <2>1, <2>2, <3>1 DEF SaverOK, PulledStore!Copies, PulledStore!Whole
  <2>4. CASE ~ (recorded /\ heard)
      BY <2>1, <2>2, <2>4 DEF SaverOK
  <2> QED BY <2>3, <2>4
<1>6. CASE PulledStore!Fails
    BY <1>6 DEF PulledStore!Fails, PulledInv, SaverOK
<1>5. CASE UNCHANGED PulledStore!saves
    BY <1>5 DEF PulledInv, SaverOK, PulledStore!saves, PulledStore!Copies, PulledStore!Whole
<1> QED
    BY <1>1, <1>2, <1>3, <1>4, <1>5, <1>6 DEF PulledStore!Next, PulledStore!vars,
       PulledStore!SaveReadFails, PulledStore!SaveListFails, PulledStore!SaveEndFails,
       PulledStore!Promote, PulledStore!Opens, PulledStore!Record, PulledStore!Unrecorded, PulledStore!ClearBegins, PulledStore!ClearBytes,
       PulledStore!ClearSidecar

LEMMA PulledInductive ==
    ASSUME PulledStore!SizeAssumption
    PROVE  PulledStore!Spec => []PulledInv
<1>1. PulledStore!Init => PulledInv
  <2>1. Len(Size) \in Nat
      BY LenProperties DEF PulledStore!SizeAssumption
  <2> QED BY <2>1 DEF PulledStore!Init, PulledInv, CopiesOK, SaverOK
<1>2. PulledInv /\ [PulledStore!Next]_PulledStore!vars => PulledInv'
    BY CopiesStep, SaverStep DEF PulledInv
<1> QED BY <1>1, <1>2, PTL DEF PulledStore!Spec

\* A record says what the bytes beside it are (PulledStore!RecordIsTrue),
\* however copies, failures to record and clears follow on one another, but for
\* a sidecar that a later copy could not open.
THEOREM RecordsAreTrue ==
    ASSUME PulledStore!SizeAssumption
    PROVE  PulledStore!Spec => []PulledStore!RecordIsTrue
<1>1. PulledStore!Init => RecordOK
    BY DEF PulledStore!Init, RecordOK, PulledStore!RecordIsTrue
<1>2. PulledInv /\ RecordOK /\ [PulledStore!Next]_PulledStore!vars => RecordOK'
    BY CopiesStep DEF PulledInv
<1>3. RecordOK => PulledStore!RecordIsTrue
    BY DEF RecordOK
<1> QED BY PulledInductive, <1>1, <1>2, <1>3, PTL DEF PulledStore!Spec

\* What a client saves under a sha it was told is the whole of one copy
\* (PulledStore!SavedIsOneCopy), though the copy was replaced between two of its
\* chunks.
LEMMA SavesAreWhole ==
    ASSUME PulledStore!SizeAssumption
    PROVE  PulledStore!Spec => []PulledStore!SavedIsOneCopy
<1>1. PulledInv => PulledStore!SavedIsOneCopy
    BY DEF PulledInv, SaverOK, PulledStore!SavedIsOneCopy
<1> QED BY PulledInductive, <1>1, PTL

-----------------------------------------------------------------------------
(* The file of listings (ListingStore).                                    *)

ListedTypes ==
    /\ disk = [shape |-> disk.shape, listings |-> disk.listings, attempts |-> disk.attempts]
    /\ disk.listings \in [Dirs -> Nat] /\ disk.attempts \in [Dirs -> Nat]
    /\ saving = [at |-> saving.at, dir |-> saving.dir, claims |-> saving.claims,
                 n |-> saving.n, ok |-> saving.ok]
    /\ saving.at \in {"no", "read", "torn"} /\ saving.dir \in Dirs /\ saving.n \in Nat
    /\ saving.ok \in BOOLEAN /\ listedAsker.dir \in Dirs
    /\ readable \in [Dirs -> SUBSET Nat] /\ tried \in [Dirs -> SUBSET Nat] /\ readings \in Nat

\* Readings are counted up, and one that is to be saved is the last of all.
CountedOK ==
    /\ \A d \in Dirs : \A m \in readable[d] \cup tried[d] : m <= readings
    /\ saving.at # "no" =>
          /\ saving.n = readings /\ saving.n \in tried[saving.dir]
          /\ saving.ok => saving.n \in readable[saving.dir]

\* What the store held, or will once it is written, against what was read.
NewestOf(d, listing, attempt) ==
    ListingStore!IsNewest(listing, readable[d]) /\ ListingStore!IsNewest(attempt, tried[d])

\* A reading that is not saved yet is missing under its own directory only, and
\* while the file is being written what goes into it is complete.
ListedOK ==
    /\ ListingStore!OfIts(listedAsker.dir, listedAsker.listing, listedAsker.attempt)
    /\ \A d \in Dirs : ListingStore!OfIts(d, disk.listings[d], disk.attempts[d])
    /\ \A d \in Dirs \ lost :
        /\ saving.at = "no" => NewestOf(d, ListingStore!Listings[d], ListingStore!Attempts[d])
        /\ saving.at = "read" =>
              IF d # saving.dir THEN NewestOf(d, ListingStore!Listings[d], ListingStore!Attempts[d])
              ELSE ~saving.ok => ListingStore!IsNewest(ListingStore!Listings[d], readable[d])
        /\ saving.at = "torn" => NewestOf(d, disk.listings[d], disk.attempts[d])
    /\ saving.at = "torn" /\ saving.ok =>
          NewestOf(saving.dir, disk.listings[saving.dir], disk.attempts[saving.dir])

ListedInv == ListedTypes /\ CountedOK /\ ListedOK

\* What is loaded was read where it is kept, also when nothing is loaded.
LEMMA ListingsAreThere ==
    ASSUME ListedInv
    PROVE  /\ ListingStore!Listings \in [Dirs -> Nat] /\ ListingStore!Attempts \in [Dirs -> Nat]
           /\ \A blind \in BOOLEAN :
                 LET was == ListingStore!Loaded(blind) IN
                 /\ was = [listings |-> was.listings, attempts |-> was.attempts]
                 /\ was.listings \in [Dirs -> Nat] /\ was.attempts \in [Dirs -> Nat]
                 /\ ~blind => was.listings = ListingStore!Listings /\ was.attempts = ListingStore!Attempts
                 /\ \A d \in Dirs : ListingStore!OfIts(d, was.listings[d], was.attempts[d])
BY DEF ListedInv, ListedTypes, ListedOK, ListingStore!Listings, ListingStore!Attempts,
   ListingStore!None, ListingStore!Loaded, ListingStore!OfIts

LEMMA ListedStep ==
    ASSUME ListedInv, ListingStore!Next
    PROVE  ListedInv'
<1>0. ListedTypes /\ CountedOK /\ ListedOK
    BY DEF ListedInv
<1>a. ListingStore!Listings \in [Dirs -> Nat] /\ ListingStore!Attempts \in [Dirs -> Nat]
    BY ListingsAreThere
<1>1. CASE ListingStore!Reads
  <2>1. PICK d \in Dirs, claims \in Dirs, ok \in BOOLEAN :
           /\ saving' = [at |-> "read", dir |-> d, claims |-> claims, n |-> readings + 1, ok |-> ok]
           /\ tried' = [tried EXCEPT ![d] = @ \cup {readings + 1}]
           /\ readable' = IF ok THEN [readable EXCEPT ![d] = @ \cup {readings + 1}] ELSE readable
      BY <1>1 DEF ListingStore!Reads
  <2>2. /\ saving.at = "no" /\ readings' = readings + 1
        /\ disk' = disk /\ lost' = lost /\ listedAsker' = listedAsker
      BY <1>1 DEF ListingStore!Reads
  <2>3. ListedTypes'
      BY <1>0, <2>1, <2>2 DEF ListedTypes
  <2>4. ListingStore!Listings' = ListingStore!Listings /\ ListingStore!Attempts' = ListingStore!Attempts
      BY <2>2 DEF ListingStore!Listings, ListingStore!Attempts, ListingStore!None
  <2>5. /\ \A e \in Dirs : /\ tried'[e] = IF e = d THEN tried[e] \cup {readings + 1} ELSE tried[e]
                           /\ readable'[e] = IF e = d /\ ok THEN readable[e] \cup {readings + 1}
                                             ELSE readable[e]
      BY <1>0, <2>1 DEF ListedTypes
  <2>6. CountedOK'
    <3>1. ASSUME NEW e \in Dirs, NEW m \in readable'[e] \cup tried'[e]
          PROVE  m <= readings + 1
      <4>1. m \in readable[e] \cup tried[e] \/ m = readings + 1
          BY <2>5, <3>1
      <4>2. m \in readable[e] \cup tried[e] => m <= readings /\ m \in Nat
          BY <1>0 DEF CountedOK, ListedTypes
      <4> QED BY <1>0, <4>1, <4>2 DEF ListedTypes
    <3> QED BY <2>1, <2>2, <2>5, <3>1 DEF CountedOK
  <2>7. ListedOK'
    <3>1. \A e \in Dirs : \A l, at : ListingStore!OfIts(e, l, at) =>
             l \in readable'[e] \cup {0} /\ at \in tried'[e] \cup {0}
        BY <2>5 DEF ListingStore!OfIts
    <3>2. ASSUME NEW e \in Dirs \ lost
          PROVE  IF e # d THEN NewestOf(e, ListingStore!Listings[e], ListingStore!Attempts[e])'
                 ELSE ~ok => ListingStore!IsNewest(ListingStore!Listings[e], readable[e])'
      <4>1. NewestOf(e, ListingStore!Listings[e], ListingStore!Attempts[e])
          BY <1>0, <2>2 DEF ListedOK
      <4>2. e # d => readable'[e] = readable[e] /\ tried'[e] = tried[e]
          BY <2>5
      <4>3. ~ok => readable'[e] = readable[e]
          BY <2>5
      <4> QED BY <2>4, <4>1, <4>2, <4>3 DEF NewestOf, ListingStore!IsNewest
    <3>3. saving'.at = "read" /\ saving'.dir = d /\ saving'.ok = ok
        BY <2>1
    <3> QED BY <1>0, <2>2, <3>1, <3>2, <3>3 DEF ListedOK, ListedTypes, ListingStore!OfIts
  <2> QED BY <2>3, <2>6, <2>7 DEF ListedInv
<1>2. CASE ListingStore!Opens
  <2>1. PICK blind \in BOOLEAN :
           /\ disk' = [ListingStore!Stored(ListingStore!Loaded(blind)) EXCEPT !.shape = "nothing"]
           /\ lost' = IF blind THEN Dirs ELSE lost
      BY <1>2 DEF ListingStore!Opens
  <2> DEFINE was == ListingStore!Loaded(blind)
  <2>2. /\ saving.at = "read" /\ saving' = [saving EXCEPT !.at = "torn"]
        /\ UNCHANGED <<readings, listedAsker, readable, tried>>
        /\ disk' = [shape |-> "nothing",
                    listings |-> IF saving.ok THEN [was.listings EXCEPT ![saving.dir] = saving.n]
                                 ELSE was.listings,
                    attempts |-> [was.attempts EXCEPT ![saving.dir] = saving.n]]
      BY <1>2, <2>1 DEF ListingStore!Opens, ListingStore!Stored, ListingStore!FiledUnder
  <2>3. /\ was.listings \in [Dirs -> Nat] /\ was.attempts \in [Dirs -> Nat]
        /\ ~blind => was.listings = ListingStore!Listings /\ was.attempts = ListingStore!Attempts
        /\ \A d \in Dirs : ListingStore!OfIts(d, was.listings[d], was.attempts[d])
      BY ListingsAreThere
  <2> HIDE DEF was
  <2>4. ListedTypes'
      BY <1>0, <2>2, <2>3 DEF ListedTypes
  <2>5. /\ saving'.at = "torn" /\ saving'.dir = saving.dir /\ saving'.ok = saving.ok
        /\ saving'.n = saving.n
      BY <1>0, <2>2 DEF ListedTypes
  <2>6. CountedOK'
      BY <1>0, <2>2, <2>5 DEF CountedOK
  <2>7. \A d \in Dirs :
           /\ disk'.listings[d] = IF saving.ok /\ d = saving.dir THEN saving.n ELSE was.listings[d]
           /\ disk'.attempts[d] = IF d = saving.dir THEN saving.n ELSE was.attempts[d]
      BY <1>0, <2>2, <2>3 DEF ListedTypes
  <2>8. ListingStore!IsNewest(saving.n, readable[saving.dir]) /\ ListingStore!IsNewest(saving.n, tried[saving.dir])
      BY <1>0, <2>2 DEF CountedOK, ListedTypes, ListingStore!IsNewest
  <2>9. \A d \in Dirs : ListingStore!OfIts(d, disk'.listings[d], disk'.attempts[d])
      BY <1>0, <2>2, <2>3, <2>7 DEF CountedOK, ListingStore!OfIts
  <2>10. ASSUME NEW d \in Dirs \ lost' PROVE NewestOf(d, disk'.listings[d], disk'.attempts[d])
    <3>1. ~blind /\ d \in Dirs \ lost
        BY <2>1, <2>10
    <3>2. IF d # saving.dir THEN NewestOf(d, was.listings[d], was.attempts[d])
          ELSE ~saving.ok => ListingStore!IsNewest(was.listings[d], readable[d])
        BY <1>0, <2>2, <2>3, <3>1 DEF ListedOK
    <3> QED BY <2>7, <2>8, <3>1, <3>2 DEF NewestOf
  <2>11. saving.ok => NewestOf(saving.dir, disk'.listings[saving.dir], disk'.attempts[saving.dir])
      BY <1>0, <2>7, <2>8 DEF NewestOf, ListedTypes
  <2>12. ListedOK'
    <3>1. ListingStore!OfIts(listedAsker.dir, listedAsker.listing, listedAsker.attempt)'
        BY <1>0, <2>2 DEF ListedOK, ListingStore!OfIts
    <3>2. \A d \in Dirs : ListingStore!OfIts(d, disk.listings[d], disk.attempts[d])'
        BY <2>2, <2>9 DEF ListingStore!OfIts
    <3>3. \A d \in Dirs \ lost' : NewestOf(d, disk.listings[d], disk.attempts[d])'
        BY <2>2, <2>10 DEF NewestOf
    <3>4. saving'.ok => NewestOf(saving.dir, disk.listings[saving.dir], disk.attempts[saving.dir])'
        BY <2>2, <2>5, <2>11 DEF NewestOf
    <3> QED BY <2>5, <3>1, <3>2, <3>3, <3>4 DEF ListedOK
  <2> QED BY <2>4, <2>6, <2>12 DEF ListedInv
<1>3. CASE ListingStore!OpenFails
  <2>1. /\ saving.at = "read" /\ saving' = [saving EXCEPT !.at = "no"]
        /\ lost' = lost \cup {saving.dir}
        /\ UNCHANGED <<readings, disk, listedAsker, readable, tried>>
      BY <1>3 DEF ListingStore!OpenFails
  <2>2. ListedTypes' /\ saving'.at = "no"
      BY <1>0, <2>1 DEF ListedTypes
  <2>3. CountedOK'
      BY <1>0, <2>1, <2>2 DEF CountedOK
  <2>4. ListingStore!Listings' = ListingStore!Listings /\ ListingStore!Attempts' = ListingStore!Attempts
      BY <2>1 DEF ListingStore!Listings, ListingStore!Attempts, ListingStore!None
  <2>5. \A d \in Dirs \ lost' : NewestOf(d, ListingStore!Listings[d], ListingStore!Attempts[d])'
      BY <1>0, <2>1, <2>4 DEF ListedOK, NewestOf
  <2>6. ListedOK'
      BY <1>0, <2>1, <2>2, <2>5 DEF ListedOK, ListingStore!OfIts
  <2> QED BY <2>2, <2>3, <2>6 DEF ListedInv
<1>4. CASE ListingStore!Dumps
  <2>1. /\ saving.at = "torn" /\ saving' = [saving EXCEPT !.at = "no"]
        /\ disk' = [disk EXCEPT !.shape = "store"]
        /\ lost' = lost \ (IF saving.ok THEN {saving.dir} ELSE {})
        /\ UNCHANGED <<readings, listedAsker, readable, tried>>
      BY <1>4 DEF ListingStore!Dumps
  <2>2. ListedTypes' /\ saving'.at = "no"
      BY <1>0, <2>1 DEF ListedTypes
  <2>3. CountedOK'
      BY <1>0, <2>1, <2>2 DEF CountedOK
  <2>4. /\ ListingStore!Listings' = disk.listings /\ ListingStore!Attempts' = disk.attempts
        /\ disk'.listings = disk.listings /\ disk'.attempts = disk.attempts
      BY <1>0, <2>1 DEF ListedTypes, ListingStore!Listings, ListingStore!Attempts
  <2>5. \A d \in Dirs \ lost' : NewestOf(d, ListingStore!Listings[d], ListingStore!Attempts[d])'
    <3> SUFFICES ASSUME NEW d \in Dirs \ lost'
                 PROVE  NewestOf(d, disk.listings[d], disk.attempts[d])
        BY <2>1, <2>4 DEF NewestOf
    <3>1. d \in Dirs \ lost \/ (saving.ok /\ d = saving.dir)
        BY <2>1
    <3> QED BY <1>0, <2>1, <3>1 DEF ListedOK
  <2>6. ListedOK'
      BY <1>0, <2>1, <2>2, <2>4, <2>5 DEF ListedOK, ListingStore!OfIts
  <2> QED BY <2>2, <2>3, <2>6 DEF ListedInv
<1>5. CASE ListingStore!DumpFails
  <2>1. /\ saving' = [saving EXCEPT !.at = "no"] /\ lost' = Dirs
        /\ disk' = [shape |-> "nothing", listings |-> ListingStore!None, attempts |-> ListingStore!None]
        /\ UNCHANGED <<readings, listedAsker, readable, tried>>
      BY <1>5 DEF ListingStore!DumpFails
  <2>2. ListedTypes' /\ saving'.at = "no"
      BY <1>0, <2>1 DEF ListedTypes, ListingStore!None
  <2>3. CountedOK'
      BY <1>0, <2>1, <2>2 DEF CountedOK
  <2>4. \A d \in Dirs : ListingStore!OfIts(d, disk.listings[d], disk.attempts[d])'
      BY <2>1 DEF ListingStore!OfIts, ListingStore!None
  <2>5. ListedOK'
      BY <1>0, <2>1, <2>2, <2>4 DEF ListedOK, ListingStore!OfIts
  <2> QED BY <2>2, <2>3, <2>5 DEF ListedInv
<1>6. ASSUME NEW d \in Dirs, ListingStore!Asks(d)
      PROVE  ListedInv'
  <2>1. PICK blind \in BOOLEAN :
           listedAsker' = [dir |-> d, listing |-> ListingStore!Loaded(blind).listings[d],
                           attempt |-> ListingStore!Loaded(blind).attempts[d]]
      BY <1>6 DEF ListingStore!Asks
  <2>2. UNCHANGED <<readings, disk, saving, readable, tried, lost>>
      BY <1>6 DEF ListingStore!Asks
  <2>3. ListingStore!OfIts(d, ListingStore!Loaded(blind).listings[d], ListingStore!Loaded(blind).attempts[d])
      BY ListingsAreThere
  <2>4. ListingStore!OfIts(listedAsker.dir, listedAsker.listing, listedAsker.attempt)'
      BY <2>1, <2>2, <2>3 DEF ListingStore!OfIts
  <2>5. ListedTypes' /\ CountedOK'
      BY <1>0, <2>1, <2>2 DEF ListedTypes, CountedOK
  <2>6. ListingStore!Listings' = ListingStore!Listings /\ ListingStore!Attempts' = ListingStore!Attempts
      BY <2>2 DEF ListingStore!Listings, ListingStore!Attempts, ListingStore!None
  <2>7. ListedOK'
      BY <1>0, <2>2, <2>4, <2>6 DEF ListedOK, ListingStore!OfIts, NewestOf
  <2> QED BY <2>5, <2>7 DEF ListedInv
<1> QED
    BY <1>1, <1>2, <1>3, <1>4, <1>5, <1>6 DEF ListingStore!Next

LEMMA ListedInductive ==
    ASSUME ListingStore!ListingAssumption
    PROVE  ListingStore!Spec => []ListedInv
<1>1. ListingStore!Init => ListedInv
  <2> SUFFICES ASSUME ListingStore!Init PROVE ListedInv
      OBVIOUS
  <2>1. PICK d \in Dirs, shape \in ListingStore!Shapes :
           /\ readings = 1
           /\ LET was == IF shape = "nothing" THEN ListingStore!None
                         ELSE [ListingStore!None EXCEPT ![d] = 1] IN
                /\ disk = [shape |-> shape, listings |-> was, attempts |-> was]
                /\ readable = [e \in Dirs |-> {was[e]} \ {0}] /\ tried = readable
           /\ saving = [at |-> "no", dir |-> d, claims |-> d, n |-> 0, ok |-> FALSE]
           /\ listedAsker = [dir |-> d, listing |-> 0, attempt |-> 0]
      BY DEF ListingStore!Init
  <2> DEFINE was == IF shape = "nothing" THEN ListingStore!None
                    ELSE [ListingStore!None EXCEPT ![d] = 1]
  <2>2. was \in [Dirs -> Nat] /\ \A e \in Dirs : was[e] \in {0, 1}
    <3>1. \A e \in Dirs : was[e] = IF shape # "nothing" /\ e = d THEN 1 ELSE 0
        BY DEF ListingStore!None
    <3>2. was \in [Dirs -> Nat]
        BY DEF ListingStore!None
    <3> QED BY <3>1, <3>2
  <2>3. disk = [shape |-> shape, listings |-> was, attempts |-> was]
        /\ readable = [e \in Dirs |-> {was[e]} \ {0}] /\ tried = readable
      BY <2>1
  <2>4. shape = "nothing" => was = ListingStore!None
      OBVIOUS
  <2> HIDE DEF was
  <2>5. ListedTypes
    <3>1. \A e \in Dirs : {was[e]} \ {0} \in SUBSET Nat
        BY <2>2
    <3>2. readable \in [Dirs -> SUBSET Nat] /\ tried \in [Dirs -> SUBSET Nat]
        BY <2>3, <3>1
    <3>3. disk.listings = was /\ disk.attempts = was
        BY <2>3
    <3>4. /\ readings \in Nat /\ saving.at = "no" /\ saving.dir = d /\ saving.n = 0
          /\ saving.ok \in BOOLEAN /\ listedAsker.dir = d
        BY <2>1
    <3>5. /\ disk.listings \in [Dirs -> Nat] /\ disk.attempts \in [Dirs -> Nat]
          /\ saving.at \in {"no", "read", "torn"} /\ saving.dir \in Dirs /\ saving.n \in Nat
          /\ saving.ok \in BOOLEAN /\ listedAsker.dir \in Dirs
        BY <2>2, <3>3, <3>4
    <3>6. /\ disk = [shape |-> disk.shape, listings |-> disk.listings, attempts |-> disk.attempts]
          /\ saving = [at |-> saving.at, dir |-> saving.dir, claims |-> saving.claims,
                       n |-> saving.n, ok |-> saving.ok]
        BY <2>1, <2>3
    <3> QED BY <3>2, <3>4, <3>5, <3>6 DEF ListedTypes
  <2>6. CountedOK
      BY <2>1, <2>2, <2>3 DEF CountedOK
  <2>7. ListingStore!Listings = was /\ ListingStore!Attempts = was
      BY <2>3, <2>4 DEF ListingStore!Listings, ListingStore!Attempts
  <2>8. \A e \in Dirs : NewestOf(e, was[e], was[e]) /\ ListingStore!OfIts(e, was[e], was[e])
      BY <2>2, <2>3 DEF NewestOf, ListingStore!IsNewest, ListingStore!OfIts
  <2>9. saving.at = "no" /\ disk.listings = was /\ disk.attempts = was
        /\ ListingStore!OfIts(listedAsker.dir, listedAsker.listing, listedAsker.attempt)
      BY <2>1, <2>3 DEF ListingStore!OfIts
  <2>10. ListedOK
      BY <2>7, <2>8, <2>9 DEF ListedOK
  <2> QED BY <2>5, <2>6, <2>10 DEF ListedInv
<1>2. ListedInv /\ [ListingStore!Next]_ListingStore!vars => ListedInv'
  <2>1. CASE ListingStore!Next
      BY <2>1, ListedStep
  <2>2. CASE UNCHANGED ListingStore!vars
      BY <2>2
         DEF ListingStore!vars, ListedInv, ListedTypes, CountedOK, ListedOK, NewestOf,
             ListingStore!OfIts, ListingStore!Listings, ListingStore!Attempts, ListingStore!None
  <2> QED BY <2>1, <2>2
<1> QED BY <1>1, <1>2, PTL DEF ListingStore!Spec

\* A page is told what was read in the directory it asks for, and with no save under
\* way the file holds of every directory its newest readable listing and its newest
\* attempt (ListingStore!LastReadableKept), unless one of its readings could not be
\* saved or went with the file.
THEOREM ListingsAreKept ==
    ASSUME ListingStore!ListingAssumption
    PROVE  ListingStore!Spec => []ListingStore!LastReadableKept
<1>1. ListedInv => ListingStore!LastReadableKept
    BY DEF ListedInv, ListedOK, NewestOf, ListingStore!LastReadableKept
<1> QED BY ListedInductive, <1>1, PTL

-----------------------------------------------------------------------------
(* Files that arrive in chunks (Staging).                                  *)

\* A call that is on its way.  What it has counted or compared is what is there.
JobOK(j) ==
    \/ j = Staging!Idle
    \/ /\ store = "share" /\ j.at = "publish"
       /\ \E u \in Uploads : j.blob = Staging!Whole(u)
    \/ /\ store # "share" /\ j.at \in {"measure", "write", "hash", "publish"}
       /\ j = [at |-> j.at, up |-> j.up, i |-> j.i, have |-> j.have]
       /\ j.up \in Uploads /\ j.i \in 1 .. Chunks
       /\ j.at = "write" => Len(part) = j.i - 1
       /\ j.at \in {"hash", "publish"} => \A u \in Uploads : run[u] = 0
       /\ j.at = "publish" => part = Staging!Whole(j.up)

Busy(t) == stagedJob[t].at # "idle"

StagedTypes ==
    /\ store \in Stores
    /\ part \in Seq(Uploads \X (1 .. Chunks)) /\ run \in [Uploads -> Nat]
    /\ stagedJob = [t \in Threads |-> stagedJob[t]]

\* One call at a time works on a partial file.
OneCall ==
    store # "share" => \A s, t \in Threads : Busy(s) /\ Busy(t) => s = t

\* Chunks that came in a row are what has arrived, but for a first chunk that
\* cleared it and is not written yet.
RunOK ==
    (\A t \in Threads : stagedJob[t].at # "write")
        => \A u \in Uploads : run[u] > 0 => Len(part) = run[u]

\* Beside a staged image there is nothing to publish.
ImageOK ==
    store = "msd" /\ dest \in Staging!Published =>
        /\ part = <<>>
        /\ \A t \in Threads : Busy(t) => stagedJob[t].at = "measure" /\ stagedJob[t].i # 1

WholeOK == dest \in Staging!Published \cup {<<>>, Staging!Built}

\* All that as long as no two calls have worked on the partial file at once.
StagedInv ==
    /\ StagedTypes /\ OneCall /\ RunOK /\ ImageOK
    /\ \A t \in Threads : JobOK(stagedJob[t])
    /\ WholeOK

\* A call that ends leaves nothing to say about it.
LEMMA CallEnds ==
    ASSUME StagedInv, NEW t \in Threads, stagedJob' = [stagedJob EXCEPT ![t] = Staging!Idle]
    PROVE  /\ stagedJob' = [s \in Threads |-> stagedJob'[s]]
           /\ stagedJob'[t] = Staging!Idle /\ ~Busy(t)'
           /\ \A s \in Threads : s # t => stagedJob'[s] = stagedJob[s] /\ (Busy(s)' <=> Busy(s))
           /\ store # "share" /\ Busy(t) => \A s \in Threads : stagedJob'[s] = Staging!Idle /\ ~Busy(s)'
<1>1. stagedJob = [s \in Threads |-> stagedJob[s]]
    BY DEF StagedInv, StagedTypes
<1>2. \A s \in Threads : stagedJob[s].at = "idle" /\ store # "share" => stagedJob[s] = Staging!Idle
    BY DEF StagedInv, JobOK
<1>3. Staging!Idle.at = "idle"
    BY DEF Staging!Idle
<1> QED BY <1>1, <1>2, <1>3 DEF StagedInv, OneCall, Busy

LEMMA Around ==
    ASSUME Chunks \in Nat \ {0}, NEW i \in 1 .. Chunks
    PROVE  Chunks % Chunks = 0 /\ (i # Chunks => i % Chunks = i)
OBVIOUS

\* What counts of each upload after a chunk was taken.
LEMMA RunAfter ==
    ASSUME Chunks \in Nat \ {0}, NEW u \in Uploads, NEW i \in 1 .. Chunks, Staging!Accepted(u, i)
    PROVE  /\ run' \in [Uploads -> Nat]
           /\ i # Chunks => \A v \in Uploads : run'[v] = 0 \/ run'[v] = i
           /\ i = Chunks => \A v \in Uploads : run'[v] = 0
<1>1. i % Chunks \in Nat /\ Chunks % Chunks = 0 /\ (i # Chunks => i % Chunks = i)
    BY Around
<1> QED BY <1>1 DEF Staging!Accepted

\* Who works on a partial file works alone.
LEMMA AtWork ==
    ASSUME StagedInv, NEW t \in Threads, stagedJob[t].at # "idle", store # "share"
    PROVE  /\ stagedJob[t] = [at |-> stagedJob[t].at, up |-> stagedJob[t].up,
                              i |-> stagedJob[t].i, have |-> stagedJob[t].have]
           /\ stagedJob[t].up \in Uploads /\ stagedJob[t].i \in 1 .. Chunks
           /\ stagedJob[t].at = "write" => Len(part) = stagedJob[t].i - 1
           /\ stagedJob[t].at \in {"hash", "publish"} => \A u \in Uploads : run[u] = 0
           /\ stagedJob[t].at = "publish" => part = Staging!Whole(stagedJob[t].up)
           /\ \A s \in Threads : s # t => stagedJob[s] = Staging!Idle
<1>1. JobOK(stagedJob[t]) /\ stagedJob[t] # Staging!Idle
    BY DEF StagedInv, Staging!Idle
<1>2. \A s \in Threads : s # t => stagedJob[s].at = "idle" /\ JobOK(stagedJob[s])
    BY DEF StagedInv, OneCall, Busy
<1>3. \A s \in Threads : s # t => stagedJob[s] = Staging!Idle
    BY <1>2 DEF JobOK
<1> QED BY <1>1, <1>3 DEF JobOK

\* So a step of one call has to leave that call, the chunks and what is
\* published in order, and no other.
LEMMA OneGoesOn ==
    ASSUME StagedInv, NEW t \in Threads, store # "share", store' = store,
           \A s \in Threads : s # t => stagedJob[s] = Staging!Idle,
           stagedJob' = [s \in Threads |-> IF s = t THEN stagedJob'[t] ELSE stagedJob[s]],
           JobOK(stagedJob[t])',
           part' \in Seq(Uploads \X (1 .. Chunks)), run' \in [Uploads -> Nat],
           stagedJob'[t].at # "write" => \A u \in Uploads : run'[u] > 0 => Len(part') = run'[u],
           store = "msd" /\ dest' \in Staging!Published =>
               part' = <<>> /\ (stagedJob'[t] = Staging!Idle
                                \/ (stagedJob'[t].at = "measure" /\ stagedJob'[t].i # 1)),
           WholeOK'
    PROVE  StagedInv'
<1>1. \A s \in Threads : s # t => stagedJob'[s] = Staging!Idle
    OBVIOUS
<1>2. Staging!Idle.at = "idle"
    BY DEF Staging!Idle
<1>3. StagedTypes'
    BY DEF StagedInv, StagedTypes
<1>4. OneCall'
    BY <1>1, <1>2 DEF OneCall, Busy
<1>5. RunOK'
    BY DEF RunOK
<1>6. ImageOK'
    BY <1>1, <1>2 DEF ImageOK, Busy
<1>7. \A s \in Threads : JobOK(stagedJob[s])'
    BY <1>1 DEF JobOK, Staging!Idle
<1> QED BY <1>3, <1>4, <1>5, <1>6, <1>7 DEF StagedInv

\* And one that ends it, the chunks and what is published.
LEMMA OneEnds ==
    ASSUME StagedInv, NEW t \in Threads, store # "share", store' = store,
           \A s \in Threads : s # t => stagedJob[s] = Staging!Idle,
           stagedJob' = [stagedJob EXCEPT ![t] = Staging!Idle],
           part' \in Seq(Uploads \X (1 .. Chunks)), run' \in [Uploads -> Nat],
           \A u \in Uploads : run'[u] > 0 => Len(part') = run'[u],
           store = "msd" /\ dest' \in Staging!Published => part' = <<>>,
           WholeOK'
    PROVE  StagedInv'
<1>1. /\ stagedJob' = [s \in Threads |-> IF s = t THEN stagedJob'[t] ELSE stagedJob[s]]
      /\ stagedJob'[t] = Staging!Idle
    BY DEF StagedInv, StagedTypes
<1>2. JobOK(stagedJob[t])'
    BY <1>1 DEF JobOK, Staging!Idle
<1> QED BY <1>1, <1>2, OneGoesOn

\* No upload is empty or something that was built.
LEMMA UploadsAreUploads ==
    ASSUME Staging!StagingAssumption
    PROVE  <<>> \notin Staging!Published /\ Staging!Built \notin Staging!Published
<1> SUFFICES ASSUME NEW u \in Uploads
             PROVE  Staging!Whole(u) # <<>> /\ Staging!Whole(u) # Staging!Built
    BY DEF Staging!Published
<1>1. 1 \in 1 .. Chunks
    BY DEF Staging!StagingAssumption
<1>2. Staging!Whole(u)[1] = <<u, 1>> /\ DOMAIN Staging!Whole(u) = 1 .. Chunks
    BY <1>1 DEF Staging!Whole
<1>3. Staging!Built[1] = <<"build", 0>> /\ <<u, 1>> # <<"build", 0>>
    BY DEF Staging!Built
<1>4. DOMAIN <<>> = {}
    OBVIOUS
<1> QED BY <1>1, <1>2, <1>3, <1>4

\* What has the name may be cleared or built.
LEMMA NameIsTaken ==
    ASSUME Staging!StagingAssumption, StagedInv, UNCHANGED <<store, part, stagedJob, run>>,
           dest' \in {dest, <<>>, Staging!Built}
    PROVE  StagedInv'
<1>1. StagedTypes' /\ OneCall' /\ RunOK'
    BY DEF StagedInv, StagedTypes, OneCall, RunOK, Busy
<1>2. ImageOK'
    BY UploadsAreUploads DEF StagedInv, ImageOK, Busy, Staging!Published, Staging!Whole
<1>3. \A t \in Threads : JobOK(stagedJob[t])'
    BY DEF StagedInv, JobOK, Staging!Whole
<1>4. WholeOK'
    BY DEF StagedInv, WholeOK, Staging!Published, Staging!Whole, Staging!Built
<1> QED BY <1>1, <1>2, <1>3, <1>4 DEF StagedInv

LEMMA StagedStep ==
    ASSUME Staging!StagingAssumption, StagedInv, ~met', Staging!Next
    PROVE  StagedInv'
<1> USE DEF Staging!StagingAssumption
<1>0. /\ StagedTypes /\ OneCall /\ RunOK /\ ImageOK /\ WholeOK
      /\ \A t \in Threads : JobOK(stagedJob[t])
    BY DEF StagedInv
<1>1. CASE Staging!Restart
  <2>1. /\ stagedJob' = [t \in Threads |-> Staging!Idle] /\ run' = [u \in Uploads |-> 0]
        /\ part' = IF store = "share" THEN <<>> ELSE part
        /\ store' = store /\ dest' = dest
      BY <1>1 DEF Staging!Restart
  <2>2. \A t \in Threads : stagedJob'[t] = Staging!Idle /\ ~Busy(t)'
      BY <2>1 DEF Staging!Idle, Busy
  <2>3. StagedTypes'
      BY <1>0, <2>1, EmptySeq DEF StagedTypes
  <2>4. RunOK' /\ OneCall' /\ ImageOK'
      BY <1>0, <2>1, <2>2 DEF RunOK, OneCall, ImageOK
  <2> QED BY <1>0, <2>1, <2>2, <2>3, <2>4 DEF StagedInv, JobOK, WholeOK, Staging!Published, Staging!Whole, Staging!Built
<1>2. CASE Staging!Cleared
  <2>1. dest' = <<>> /\ UNCHANGED <<store, part, stagedJob, run>>
      BY <1>2 DEF Staging!Cleared
  <2> QED BY <2>1, NameIsTaken
<1>11. CASE Staging!BuildBegins \/ Staging!BuildWrites \/ Staging!BuildEnds
  <2>1. dest' \in {dest, <<>>, Staging!Built} /\ UNCHANGED <<store, part, stagedJob, run>>
      BY <1>11 DEF Staging!BuildBegins, Staging!BuildWrites, Staging!BuildEnds
  <2> QED BY <2>1, NameIsTaken
<1>3. ASSUME NEW t \in Threads, NEW c \in Staging!Calls, Staging!ShareChunk(t, c)
      PROVE  StagedInv'
  <2>1. store = "share" /\ store' = store /\ dest' = dest /\ c.up \in Uploads /\ c.i \in 1 .. Chunks
      BY <1>3 DEF Staging!ShareChunk, Staging!Calls
  <2> DEFINE buf == IF c.i = 1 THEN <<>> ELSE part
             filled == Append(buf, <<c.up, c.i>>)
  <2>2. buf \in Seq(Uploads \X (1 .. Chunks))
      BY <1>0, EmptySeq DEF StagedTypes
  <2>3. filled \in Seq(Uploads \X (1 .. Chunks)) /\ Len(filled) = Len(buf) + 1
      BY <2>1, <2>2, AppendProperties
  <2>4. CASE Len(buf) # c.i - 1
    <3>1. stagedJob' = [stagedJob EXCEPT ![t] = Staging!Idle] /\ part' = buf /\ run' = run
        BY <1>3, <2>4 DEF Staging!ShareChunk, Staging!Ends
    <3>2. c.i # 1
        BY <2>4, EmptySeq
    <3>3. part' = part
        BY <3>1, <3>2
    <3>4. StagedTypes'
        BY <1>0, <2>1, <3>1, <3>3, CallEnds DEF StagedTypes
    <3>5. \A s \in Threads : JobOK(stagedJob[s])'
        BY <1>0, <2>1, <3>1, <3>3, CallEnds DEF JobOK, Staging!Whole, Staging!Idle
    <3>6. \A s \in Threads : stagedJob[s].at # "write"
        BY <1>0, <2>1 DEF JobOK, Staging!Idle
    <3>7. RunOK' /\ OneCall' /\ ImageOK'
        BY <1>0, <2>1, <3>1, <3>3, <3>6 DEF RunOK, OneCall, ImageOK
    <3> QED BY <1>0, <2>1, <3>4, <3>5, <3>7 DEF StagedInv, WholeOK, Staging!Published, Staging!Whole, Staging!Built
  <2>5. CASE Len(buf) = c.i - 1
    <3>1. /\ part' = IF c.i = Chunks THEN <<>> ELSE filled
          /\ Staging!Accepted(c.up, c.i)
          /\ stagedJob' = IF c.i = Chunks /\ filled = Staging!Whole(c.up)
                          THEN [stagedJob EXCEPT ![t] = [at |-> "publish", blob |-> filled]]
                          ELSE stagedJob
        BY <1>3, <2>5 DEF Staging!ShareChunk
    <3>2. /\ run' \in [Uploads -> Nat]
          /\ c.i # Chunks => \A u \in Uploads : run'[u] = 0 \/ run'[u] = c.i
          /\ c.i = Chunks => \A u \in Uploads : run'[u] = 0
        BY <2>1, <3>1, RunAfter
    <3>3. part' \in Seq(Uploads \X (1 .. Chunks)) /\ (c.i # Chunks => Len(part') = c.i)
        BY <2>1, <2>3, <2>5, <3>1, EmptySeq
    <3>4. StagedTypes'
        BY <1>0, <2>1, <3>1, <3>2, <3>3 DEF StagedTypes
    <3>5. \A s \in Threads : JobOK(stagedJob[s])'
      <4> SUFFICES ASSUME NEW s \in Threads PROVE JobOK(stagedJob[s])'
          OBVIOUS
      <4>1. CASE stagedJob'[s] = stagedJob[s]
          BY <1>0, <2>1, <4>1 DEF JobOK, Staging!Whole
      <4>2. CASE stagedJob'[s] # stagedJob[s]
        <5>1. stagedJob'[s] = [at |-> "publish", blob |-> filled] /\ filled = Staging!Whole(c.up)
            BY <1>0, <3>1, <4>2 DEF StagedTypes
        <5>2. stagedJob'[s].at = "publish" /\ stagedJob'[s].blob = Staging!Whole(c.up)
            BY <5>1
        <5>3. \E u \in Uploads : stagedJob'[s].blob = Staging!Whole(u)
            BY <2>1, <5>2
        <5> QED BY <2>1, <5>2, <5>3 DEF JobOK, Staging!Whole
      <4> QED BY <4>1, <4>2
    <3>a. OneCall' /\ ImageOK'
        BY <2>1 DEF OneCall, ImageOK
    <3>b. ASSUME NEW u \in Uploads, run'[u] > 0 PROVE Len(part') = run'[u]
      <4>1. c.i # Chunks
          BY <3>2, <3>b
      <4>2. run'[u] = c.i
          BY <3>2, <3>b, <4>1
      <4> QED BY <3>3, <4>1, <4>2
    <3>6. RunOK' /\ OneCall' /\ ImageOK'
        BY <3>a, <3>b DEF RunOK
    <3> QED BY <1>0, <2>1, <3>4, <3>5, <3>6 DEF StagedInv, WholeOK, Staging!Published, Staging!Whole, Staging!Built
  <2> QED BY <2>4, <2>5
<1>4. ASSUME NEW t \in Threads, NEW c \in Staging!Calls, Staging!Receive(t, c),
             store # "share", store = "msd" => (c.i = 1 => dest = <<>>)
      PROVE  StagedInv'
  <2>1. /\ stagedJob' = [stagedJob EXCEPT ![t] = [at |-> "measure", up |-> c.up, i |-> c.i, have |-> 0]]
        /\ UNCHANGED <<store, part, dest, run>>
        /\ \A s \in Threads : ~Busy(s)
      BY <1>0, <1>4 DEF Staging!Receive, Staging!Quiet, StagedTypes, Busy
  <2>2. /\ stagedJob'[t] = [at |-> "measure", up |-> c.up, i |-> c.i, have |-> 0]
        /\ \A s \in Threads : s # t => stagedJob'[s] = stagedJob[s] /\ ~Busy(s)'
        /\ stagedJob' = [s \in Threads |-> stagedJob'[s]]
      BY <1>0, <2>1 DEF StagedTypes, Busy
  <2>3. c.up \in Uploads /\ c.i \in 1 .. Chunks
      BY DEF Staging!Calls
  <2>4. JobOK(stagedJob[t])'
      BY <1>4, <2>1, <2>2, <2>3 DEF JobOK
  <2>5. \A s \in Threads : stagedJob[s] = Staging!Idle
      BY <1>0, <1>4, <2>1 DEF Busy, JobOK
  <2>6. \A u \in Uploads : run[u] > 0 => Len(part) = run[u]
      BY <1>0, <2>1 DEF RunOK, Busy
  <2>7. store = "msd" /\ dest' \in Staging!Published => part = <<>> /\ c.i # 1
      BY <1>0, <1>4, <2>1, UploadsAreUploads DEF ImageOK
  <2>8. part' \in Seq(Uploads \X (1 .. Chunks)) /\ run' \in [Uploads -> Nat] /\ WholeOK'
      BY <1>0, <2>1 DEF StagedTypes, WholeOK, Staging!Published, Staging!Whole, Staging!Built
  <2>9. stagedJob' = [s \in Threads |-> IF s = t THEN stagedJob'[t] ELSE stagedJob[s]]
      BY <2>2
  <2> QED BY <1>4, <2>1, <2>2, <2>4, <2>5, <2>6, <2>7, <2>8, <2>9, OneGoesOn
<1>5. ASSUME NEW t \in Threads, Staging!Measure(t) PROVE StagedInv'
  <2>1. /\ store # "share" /\ store' = store
        /\ stagedJob[t] = [at |-> stagedJob[t].at, up |-> stagedJob[t].up,
                           i |-> stagedJob[t].i, have |-> stagedJob[t].have]
        /\ stagedJob[t].up \in Uploads /\ stagedJob[t].i \in 1 .. Chunks
        /\ \A s \in Threads : s # t => stagedJob[s] = Staging!Idle
      BY <1>0, <1>5, AtWork DEF Staging!Measure, JobOK, Staging!Idle
  <2>2. /\ part' = IF stagedJob[t].i = 1 THEN <<>> ELSE part
        /\ dest' = dest /\ run' = run /\ stagedJob[t].at = "measure"
      BY <1>5 DEF Staging!Measure
  <2>3. part' \in Seq(Uploads \X (1 .. Chunks)) /\ run' \in [Uploads -> Nat]
        /\ WholeOK' /\ \A u \in Uploads : run[u] > 0 => Len(part) = run[u]
    <3>1. \A s \in Threads : stagedJob[s].at # "write"
        BY <2>1, <2>2 DEF Staging!Idle
    <3> QED BY <1>0, <2>2, <3>1, EmptySeq DEF StagedTypes, WholeOK, Staging!Published, Staging!Whole, Staging!Built, RunOK
  <2>4. store = "msd" /\ dest \in Staging!Published => part = <<>> /\ stagedJob[t].i # 1
      BY <1>0, <2>2 DEF ImageOK, Busy
  <2>5. CASE Len(part') # stagedJob[t].i - 1
    <3>1. part' = part
        BY <2>2, <2>5, EmptySeq
    <3>2. stagedJob' = [stagedJob EXCEPT ![t] = Staging!Idle]
        BY <1>5, <2>5 DEF Staging!Measure, Staging!Ends
    <3> QED BY <2>1, <2>2, <2>3, <2>4, <3>1, <3>2, OneEnds
  <2>6. CASE Len(part') = stagedJob[t].i - 1
    <3>1. stagedJob' = [stagedJob EXCEPT ![t].at = "write", ![t].have = Len(part')]
        BY <1>5, <2>6 DEF Staging!Measure
    <3>2. /\ stagedJob' = [s \in Threads |-> IF s = t THEN stagedJob'[t] ELSE stagedJob[s]]
          /\ stagedJob'[t] = [at |-> "write", up |-> stagedJob[t].up, i |-> stagedJob[t].i,
                              have |-> Len(part')]
        BY <1>0, <2>1, <3>1 DEF StagedTypes
    <3>3. JobOK(stagedJob[t])'
        BY <2>1, <2>6, <3>2 DEF JobOK
    <3>4. ~ (store = "msd" /\ dest' \in Staging!Published)
      <4>1. SUFFICES ASSUME store = "msd", dest \in Staging!Published PROVE FALSE
          BY <2>2
      <4>2. part' = <<>> /\ stagedJob[t].i # 1
          BY <2>2, <2>4, <4>1
      <4> QED BY <2>1, <2>6, <4>2, EmptySeq
    <3>5. stagedJob'[t].at = "write"
        BY <3>2
    <3> QED BY <2>1, <2>3, <3>2, <3>3, <3>4, <3>5, OneGoesOn
  <2> QED BY <2>5, <2>6
<1>6. ASSUME NEW t \in Threads, Staging!Write(t) PROVE StagedInv'
  <2>1. /\ store # "share" /\ store' = store
        /\ stagedJob[t] = [at |-> stagedJob[t].at, up |-> stagedJob[t].up,
                           i |-> stagedJob[t].i, have |-> stagedJob[t].have]
        /\ stagedJob[t].up \in Uploads /\ stagedJob[t].i \in 1 .. Chunks
        /\ \A s \in Threads : s # t => stagedJob[s] = Staging!Idle
      BY <1>0, <1>6, AtWork DEF Staging!Write, JobOK, Staging!Idle
  <2>2. /\ stagedJob[t].at = "write" /\ dest' = dest
        /\ part' = Append(part, <<stagedJob[t].up, stagedJob[t].i>>)
        /\ Staging!Accepted(stagedJob[t].up, stagedJob[t].i)
        /\ stagedJob' = IF stagedJob[t].i = Chunks
                        THEN [stagedJob EXCEPT ![t].at = "hash", ![t].have = @ + 1]
                        ELSE [stagedJob EXCEPT ![t] = Staging!Idle]
      BY <1>6 DEF Staging!Write, Staging!Ends
  <2>3. part' \in Seq(Uploads \X (1 .. Chunks)) /\ Len(part') = stagedJob[t].i
    <3>1. part \in Seq(Uploads \X (1 .. Chunks)) /\ Len(part) = stagedJob[t].i - 1
        BY <1>0, <2>1, <2>2, AtWork DEF StagedTypes
    <3> QED BY <2>1, <2>2, <3>1, AppendProperties
  <2>4. PICK u \in Uploads, i \in 1 .. Chunks : u = stagedJob[t].up /\ i = stagedJob[t].i
      BY <2>1
  <2>5. /\ run' \in [Uploads -> Nat]
        /\ i # Chunks => \A v \in Uploads : run'[v] = 0 \/ run'[v] = i
        /\ i = Chunks => \A v \in Uploads : run'[v] = 0
      BY <2>2, <2>4, RunAfter
  <2>6. \A v \in Uploads : run'[v] > 0 => Len(part') = run'[v]
      BY <2>3, <2>4, <2>5
  <2>7. ~ (store = "msd" /\ dest' \in Staging!Published)
      BY <1>0, <2>2 DEF ImageOK, Busy
  <2>8. WholeOK'
      BY <1>0, <2>2 DEF WholeOK, Staging!Published, Staging!Whole, Staging!Built
  <2>9. CASE i # Chunks
      BY <2>1, <2>2, <2>3, <2>4, <2>5, <2>6, <2>7, <2>8, <2>9, OneEnds
  <2>10. CASE i = Chunks
    <3>1. /\ stagedJob' = [s \in Threads |-> IF s = t THEN stagedJob'[t] ELSE stagedJob[s]]
          /\ stagedJob'[t] = [at |-> "hash", up |-> stagedJob[t].up, i |-> stagedJob[t].i,
                              have |-> stagedJob[t].have + 1]
        BY <1>0, <2>1, <2>2, <2>4, <2>10 DEF StagedTypes
    <3>2. JobOK(stagedJob[t])'
        BY <2>1, <2>5, <2>10, <3>1 DEF JobOK
    <3> QED BY <2>1, <2>3, <2>5, <2>6, <2>7, <2>8, <3>1, <3>2, OneGoesOn
  <2> QED BY <2>9, <2>10
<1>7. ASSUME NEW t \in Threads, Staging!WriteFails(t) PROVE StagedInv'
  <2>1. /\ store # "share" /\ store' = store
        /\ stagedJob[t] = [at |-> stagedJob[t].at, up |-> stagedJob[t].up,
                           i |-> stagedJob[t].i, have |-> stagedJob[t].have]
        /\ stagedJob[t].up \in Uploads /\ stagedJob[t].i \in 1 .. Chunks
        /\ \A s \in Threads : s # t => stagedJob[s] = Staging!Idle
      BY <1>0, <1>7, AtWork DEF Staging!WriteFails, JobOK, Staging!Idle
  <2>2. /\ stagedJob[t].at = "write" /\ dest' = dest /\ part' = part
        /\ run' = [u \in Uploads |-> 0] /\ stagedJob' = [stagedJob EXCEPT ![t] = Staging!Idle]
      BY <1>7 DEF Staging!WriteFails, Staging!Ends
  <2>3. ~ (store = "msd" /\ dest' \in Staging!Published)
      BY <1>0, <2>2 DEF ImageOK, Busy
  <2>4. /\ run' \in [Uploads -> Nat] /\ part' \in Seq(Uploads \X (1 .. Chunks))
        /\ WholeOK'
      BY <1>0, <2>2 DEF StagedTypes, WholeOK, Staging!Published, Staging!Whole, Staging!Built
  <2>5. \A u \in Uploads : ~ (run'[u] > 0)
      BY <2>2
  <2> QED BY <2>1, <2>2, <2>3, <2>4, <2>5, OneEnds
<1>8. ASSUME NEW t \in Threads, Staging!Hash(t) PROVE StagedInv'
  <2>1. /\ store # "share" /\ store' = store
        /\ stagedJob[t] = [at |-> stagedJob[t].at, up |-> stagedJob[t].up,
                           i |-> stagedJob[t].i, have |-> stagedJob[t].have]
        /\ stagedJob[t].up \in Uploads /\ stagedJob[t].i \in 1 .. Chunks
        /\ \A s \in Threads : s # t => stagedJob[s] = Staging!Idle
      BY <1>0, <1>8, AtWork DEF Staging!Hash, JobOK, Staging!Idle
  <2>2. stagedJob[t].at = "hash" /\ dest' = dest /\ run' = run
      BY <1>8 DEF Staging!Hash
  <2>3. \A u \in Uploads : run[u] = 0
      BY <2>1, <2>2, AtWork
  <2>4. ~ (store = "msd" /\ dest' \in Staging!Published)
      BY <1>0, <2>2 DEF ImageOK, Busy
  <2>5. run' \in [Uploads -> Nat] /\ WholeOK' /\ part \in Seq(Uploads \X (1 .. Chunks))
      BY <1>0, <2>2 DEF StagedTypes, WholeOK, Staging!Published, Staging!Whole, Staging!Built
  <2>6. CASE stagedJob' = [stagedJob EXCEPT ![t] = Staging!Idle] /\ part' \in {part, <<>>}
    <3>1. part' \in Seq(Uploads \X (1 .. Chunks))
        BY <2>5, <2>6, EmptySeq
    <3>2. \A u \in Uploads : ~ (run'[u] > 0)
        BY <2>2, <2>3
    <3> QED BY <2>1, <2>4, <2>5, <2>6, <3>1, <3>2, OneEnds
  <2>7. CASE /\ part = Staging!Whole(stagedJob[t].up) /\ part' = part
             /\ stagedJob' = [stagedJob EXCEPT ![t].at = "publish"]
    <3>1. /\ stagedJob' = [s \in Threads |-> IF s = t THEN stagedJob'[t] ELSE stagedJob[s]]
          /\ stagedJob'[t] = [at |-> "publish", up |-> stagedJob[t].up, i |-> stagedJob[t].i,
                              have |-> stagedJob[t].have]
        BY <1>0, <2>1, <2>7 DEF StagedTypes
    <3>2. JobOK(stagedJob[t])'
        BY <2>1, <2>2, <2>3, <2>7, <3>1 DEF JobOK, Staging!Whole
    <3>3. \A u \in Uploads : ~ (run'[u] > 0)
        BY <2>2, <2>3
    <3>4. part' \in Seq(Uploads \X (1 .. Chunks)) /\ ~ (store = "msd" /\ dest' \in Staging!Published)
        BY <2>4, <2>5, <2>7
    <3> QED BY <2>1, <2>5, <3>1, <3>2, <3>3, <3>4, OneGoesOn
  <2> QED BY <1>8, <2>6, <2>7 DEF Staging!Hash, Staging!Ends
<1>9. ASSUME NEW t \in Threads, Staging!Publish(t) PROVE StagedInv'
  <2>1. /\ store # "share" /\ store' = store
        /\ stagedJob[t] = [at |-> stagedJob[t].at, up |-> stagedJob[t].up,
                           i |-> stagedJob[t].i, have |-> stagedJob[t].have]
        /\ stagedJob[t].up \in Uploads /\ stagedJob[t].i \in 1 .. Chunks
        /\ \A s \in Threads : s # t => stagedJob[s] = Staging!Idle
      BY <1>0, <1>9, AtWork DEF Staging!Publish, JobOK, Staging!Idle
  <2>2. /\ stagedJob[t].at = "publish" /\ run' = run
        /\ IF part = <<>> THEN part' = part /\ dest' = dest ELSE dest' = part /\ part' = <<>>
        /\ stagedJob' = [stagedJob EXCEPT ![t] = Staging!Idle]
      BY <1>9 DEF Staging!Publish, Staging!Ends
  <2>3. (\A u \in Uploads : run[u] = 0) /\ part = Staging!Whole(stagedJob[t].up)
      BY <2>1, <2>2, AtWork
  <2>4. part' = <<>>
      BY <2>2
  <2>5. run' \in [Uploads -> Nat] /\ part' \in Seq(Uploads \X (1 .. Chunks))
      BY <1>0, <2>2, <2>4, EmptySeq DEF StagedTypes
  <2>6. WholeOK'
    <3>1. dest' \in Staging!Published \cup {<<>>, Staging!Built}
        BY <1>0, <2>1, <2>2, <2>3 DEF WholeOK, Staging!Published
    <3> QED BY <3>1 DEF WholeOK, Staging!Published, Staging!Whole, Staging!Built
  <2> QED BY <2>1, <2>2, <2>3, <2>4, <2>5, <2>6, OneEnds
<1>10. ASSUME NEW t \in Threads, Staging!Deliver(t) \/ Staging!DeliverFails(t) PROVE StagedInv'
  <2>1. /\ store = "share" /\ stagedJob[t].at = "publish" /\ UNCHANGED <<store, part, run>>
        /\ stagedJob' = [stagedJob EXCEPT ![t] = Staging!Idle]
        /\ dest' = stagedJob[t].blob \/ dest' = dest
      BY <1>10 DEF Staging!Deliver, Staging!DeliverFails, Staging!Ends
  <2>2. \E u \in Uploads : stagedJob[t].blob = Staging!Whole(u)
      BY <1>0, <2>1 DEF JobOK, Staging!Idle
  <2>3. WholeOK'
    <3>1. dest' \in Staging!Published \cup {<<>>, Staging!Built}
        BY <1>0, <2>1, <2>2 DEF WholeOK, Staging!Published
    <3> QED BY <3>1 DEF WholeOK, Staging!Published, Staging!Whole, Staging!Built
  <2>4. /\ stagedJob' = [s \in Threads |-> stagedJob'[s]]
        /\ \A s \in Threads : stagedJob'[s] = stagedJob[s] \/ stagedJob'[s] = Staging!Idle
      BY <1>0, <2>1 DEF StagedTypes
  <2>5. \A s \in Threads : JobOK(stagedJob[s])'
      BY <1>0, <2>1, <2>4 DEF JobOK, Staging!Whole, Staging!Idle
  <2>6. \A s \in Threads : stagedJob[s].at # "write"
      BY <1>0, <2>1 DEF JobOK, Staging!Idle
  <2>7. StagedTypes' /\ OneCall' /\ RunOK' /\ ImageOK'
      BY <1>0, <2>1, <2>4, <2>6 DEF StagedTypes, OneCall, RunOK, ImageOK
  <2> QED BY <2>3, <2>5, <2>7 DEF StagedInv
<1> QED
    BY <1>1, <1>2, <1>3, <1>4, <1>5, <1>6, <1>7, <1>8, <1>9, <1>10, <1>11
    DEF Staging!Next, Staging!Step, Staging!ReceiveImage, Staging!ReceiveFile

\* Calls that have met have met for good.
LEMMA MetStays ==
    ASSUME Staging!Next, ~met'
    PROVE  ~met
<1>1. met' = met \/ met' = IF Staging!Quiet THEN met ELSE TRUE
    BY DEF Staging!Next, Staging!Step, Staging!Restart, Staging!Cleared, Staging!BuildBegins,
       Staging!BuildWrites, Staging!BuildEnds, Staging!ShareChunk, Staging!ReceiveImage,
       Staging!ReceiveFile, Staging!Receive, Staging!Measure, Staging!Write, Staging!WriteFails,
       Staging!Hash, Staging!Publish, Staging!Deliver, Staging!DeliverFails
<1> QED BY <1>1

LEMMA StagedInductive ==
    ASSUME Staging!StagingAssumption
    PROVE  Staging!Spec => [](~met => StagedInv)
<1>1. Staging!Init => StagedInv
  <2> SUFFICES ASSUME Staging!Init PROVE StagedInv
      OBVIOUS
  <2>1. /\ store \in Stores /\ part = <<>> /\ dest = <<>>
        /\ stagedJob = [t \in Threads |-> Staging!Idle] /\ run = [u \in Uploads |-> 0]
      BY DEF Staging!Init
  <2>2. \A t \in Threads : stagedJob[t] = Staging!Idle /\ ~Busy(t)
      BY <2>1 DEF Staging!Idle, Busy
  <2>3. StagedTypes
      BY <2>1, EmptySeq DEF StagedTypes
  <2> QED BY <2>1, <2>2, <2>3
             DEF StagedInv, OneCall, RunOK, ImageOK, JobOK, WholeOK
<1>2. (~met => StagedInv) /\ [Staging!Next]_Staging!vars => (~met => StagedInv)'
  <2> SUFFICES ASSUME ~met => StagedInv, [Staging!Next]_Staging!vars, ~met'
               PROVE  StagedInv'
      OBVIOUS
  <2>1. CASE Staging!Next
      BY <2>1, MetStays, StagedStep
  <2>2. CASE UNCHANGED Staging!vars
    <3>1. UNCHANGED <<store, part, dest, stagedJob, run, met>>
        BY <2>2 DEF Staging!vars
    <3> QED BY <3>1, NameIsTaken
  <2> QED BY <2>1, <2>2
<1> QED BY <1>1, <1>2, PTL DEF Staging!Spec

\* Of uploads nothing is published but a whole file as somebody sent it
\* (Staging!PublishedWhole): on disk until two calls for the name are at work at
\* once; on the share, whose buffer is taken out under a lock, always.
THEOREM PublishedFilesAreWhole ==
    ASSUME Staging!StagingAssumption
    PROVE  Staging!Spec => []Staging!PublishedWhole
<1>1. (~met => StagedInv) => Staging!PublishedWhole
    BY DEF StagedInv, WholeOK, Staging!PublishedWhole
<1> QED BY StagedInductive, <1>1, PTL

\* A client that sends its chunks in a row is never told that they do not fit
\* (Staging!FreshStartAccepted), whatever was left behind by those before it, as
\* long as no two calls for the name on disk are at work at once.
THEOREM FreshStartsAreAccepted ==
    ASSUME Staging!StagingAssumption
    PROVE  Staging!Spec => Staging!FreshStartAccepted
<1>1. ASSUME ~met => StagedInv, Staging!Next, ~met'
      PROVE  stagedTold'.i # 0 => run[stagedTold'.up] + 1 # stagedTold'.i /\ stagedTold'.i # 1
  <2>0. StagedInv
      BY <1>1, MetStays
  <2>1. CASE Staging!Silent
      BY <2>1 DEF Staging!Silent, Staging!NoWord
  <2>2. ASSUME NEW t \in Threads, Staging!Measure(t), ~Staging!Silent
        PROVE  run[stagedTold'.up] + 1 # stagedTold'.i /\ stagedTold'.i # 1
    <3>1. /\ store # "share"
          /\ stagedJob[t].up \in Uploads /\ stagedJob[t].i \in 1 .. Chunks
          /\ \A s \in Threads : s # t => stagedJob[s] = Staging!Idle
      <4>1. stagedJob[t].at = "measure" /\ JobOK(stagedJob[t])
          BY <2>0, <2>2 DEF Staging!Measure, StagedInv
      <4>2. store # "share"
          BY <4>1 DEF JobOK, Staging!Idle
      <4> QED BY <2>0, <4>1, <4>2, AtWork
    <3>2. /\ part' = IF stagedJob[t].i = 1 THEN <<>> ELSE part
          /\ Len(part') # stagedJob[t].i - 1 /\ stagedJob[t].at = "measure"
          /\ stagedTold' = [up |-> stagedJob[t].up, i |-> stagedJob[t].i]
        BY <2>2 DEF Staging!Measure
    <3>3. stagedJob[t].i # 1 /\ Len(part) # stagedJob[t].i - 1
        BY <3>2, EmptySeq
    <3>4. run[stagedJob[t].up] > 0 => Len(part) = run[stagedJob[t].up]
      <4>1. \A s \in Threads : stagedJob[s].at # "write"
          BY <3>1, <3>2 DEF Staging!Idle
      <4> QED BY <2>0, <3>1, <4>1 DEF StagedInv, RunOK
    <3>5. PICK n \in Nat : n = run[stagedJob[t].up]
        BY <2>0, <3>1 DEF StagedInv, StagedTypes
    <3>6. PICK i \in 1 .. Chunks : i = stagedJob[t].i
        BY <3>1
    <3>7. n + 1 # stagedJob[t].i
      <4>1. i # 1 /\ Len(part) # i - 1 /\ (n > 0 => Len(part) = n)
          BY <3>3, <3>4, <3>5, <3>6
      <4>2. n + 1 # i
          BY <4>1 DEF Staging!StagingAssumption
      <4> QED BY <3>6, <4>2
    <3> QED BY <3>2, <3>3, <3>5, <3>7
  <2>3. ASSUME NEW t \in Threads, NEW c \in Staging!Calls, Staging!ShareChunk(t, c), ~Staging!Silent
        PROVE  run[stagedTold'.up] + 1 # stagedTold'.i /\ stagedTold'.i # 1
    <3>1. c.up \in Uploads /\ c.i \in 1 .. Chunks
        BY DEF Staging!Calls
    <3>2. store = "share" /\ stagedTold' = c /\ Len(IF c.i = 1 THEN <<>> ELSE part) # c.i - 1
        BY <2>3 DEF Staging!ShareChunk
    <3>3. c.i # 1 /\ Len(part) # c.i - 1
        BY <3>2, EmptySeq
    <3>4. run[c.up] > 0 => Len(part) = run[c.up]
      <4>1. \A s \in Threads : stagedJob[s].at # "write"
          BY <2>0, <3>2 DEF StagedInv, JobOK, Staging!Idle
      <4> QED BY <2>0, <3>1, <4>1 DEF StagedInv, RunOK
    <3>5. PICK n \in Nat : n = run[c.up]
        BY <2>0, <3>1 DEF StagedInv, StagedTypes
    <3>6. n + 1 # c.i
        BY <3>1, <3>3, <3>4, <3>5
    <3> QED BY <3>2, <3>3, <3>5, <3>6
  <2> QED
      BY <1>1, <2>1, <2>2, <2>3
         DEF Staging!BuildBegins, Staging!BuildWrites, Staging!BuildEnds, Staging!Next, Staging!Step, Staging!Restart, Staging!Cleared,
         Staging!ReceiveImage, Staging!ReceiveFile, Staging!Receive, Staging!Write,
         Staging!WriteFails, Staging!Hash, Staging!Publish, Staging!Deliver, Staging!DeliverFails
<1>2. (~met => StagedInv) /\ [Staging!Next]_Staging!vars =>
         [~met' /\ stagedTold'.i # 0 => run[stagedTold'.up] + 1 # stagedTold'.i /\ stagedTold'.i # 1]_Staging!vars
    BY <1>1
<1> QED BY StagedInductive, <1>2, PTL DEF Staging!Spec, Staging!FreshStartAccepted

\* A staged image is not replaced (Staging!ImageKept), except by a build that began
\* before and as long as no two calls for the name are at work at once: the name is
\* looked at when the first chunk comes, and what is renamed over it is a later
\* chunk's.
THEOREM ImagesAreKept ==
    ASSUME Staging!StagingAssumption
    PROVE  Staging!Spec => Staging!ImageKept
<1>1. ASSUME ~met => StagedInv, Staging!Next, ~met', store = "msd",
             dest \in Staging!Published, ~building
      PROVE  dest' = dest
  <2>0. StagedInv
      BY <1>1, MetStays
  <2>1. \A t \in Threads : stagedJob[t].at # "publish"
      BY <1>1, <2>0 DEF StagedInv, ImageOK, Busy
  <2>2. dest # <<>>
      BY <1>1, UploadsAreUploads
  <2> QED
      BY <1>1, <2>1, <2>2 DEF Staging!Next, Staging!Step, Staging!Restart, Staging!Cleared,
         Staging!BuildBegins, Staging!BuildWrites, Staging!BuildEnds,
         Staging!ShareChunk, Staging!ReceiveImage, Staging!ReceiveFile, Staging!Receive,
         Staging!Measure, Staging!Write, Staging!WriteFails, Staging!Hash, Staging!Publish,
         Staging!Deliver, Staging!DeliverFails
<1>2. (~met => StagedInv) /\ [Staging!Next]_Staging!vars =>
         [~met' /\ store = "msd" /\ dest \in Staging!Published /\ ~building => dest' = dest]_Staging!vars
    BY <1>1
<1> QED BY StagedInductive, <1>2, PTL DEF Staging!Spec, Staging!ImageKept

-----------------------------------------------------------------------------
(* The file server and what is said of it (FileServer).                    *)

\* The address answered last at lastLive - 1, and answers now if it says so.
LiveOK ==
    /\ now \in Nat /\ lastLive \in Nat /\ lastLive <= now + 1
    /\ address = "yes" => lastLive = now + 1

\* What is cached is no older than a dial takes.
CachedOK ==
    cached.at \in Nat /\ (cached.verdict = "live" => 0 < lastLive /\ cached.at < lastLive + PollWait)

\* A dial has not outlasted its wait, and what it found it found since it began.
AskerOK(p) ==
    /\ serverAsker[p].at = "dial" =>
          /\ serverAsker[p].since \in Nat
          /\ serverAsker[p].since <= now /\ now <= serverAsker[p].since + PollWait
          /\ "yes" \in seen[p] => serverAsker[p].since < lastLive
    /\ serverAsker[p].at = "told" /\ serverAsker[p].reply = "available" =>
          0 < lastLive /\ now + 1 < lastLive + Cache + PollWait
    /\ serverAsker[p].at = "ask" =>
          /\ serverAsker[p].since \in Nat
          /\ serverAsker[p].since <= now /\ now <= serverAsker[p].since + CheckWait
          /\ "yes" \in seen[p] => serverAsker[p].since < lastLive
    /\ serverAsker[p].at = "asked" /\ serverAsker[p].found = "live" =>
          0 < lastLive /\ now < lastLive + CheckWait

ServerInv ==
    /\ LiveOK /\ CachedOK
    /\ serverAsker = [p \in FileServer!Askers |-> serverAsker[p]]
    /\ seen = [p \in FileServer!Askers |-> seen[p]]
    /\ \A p \in FileServer!Askers : AskerOK(p)

LEMMA Verdicts ==
    /\ FileServer!VerdictOf("yes") = "live"
    /\ \A a : a # "yes" => FileServer!VerdictOf(a) # "live"
    /\ \A v : FileServer!ReplyOf(v) = "available" => v = "live"
    /\ \A b : b # "supported" => FileServer!Support(b) # "available"
BY DEF FileServer!VerdictOf, FileServer!ReplyOf, FileServer!Support

\* The address may come to answer, and whoever dials sees it.
LEMMA FindsKeeps ==
    ASSUME FileServer!TimesAssumption, ServerInv, NEW answer, FileServer!Finds(answer),
           UNCHANGED <<now, cached, serverAsker>>
    PROVE  ServerInv'
<1>1. /\ LiveOK /\ CachedOK
      /\ serverAsker = [p \in FileServer!Askers |-> serverAsker[p]]
      /\ \A p \in FileServer!Askers : AskerOK(p)
    BY DEF ServerInv
<1>2. /\ address' = answer /\ lastLive' = IF answer = "yes" THEN now + 1 ELSE lastLive
      /\ seen' = [p \in FileServer!Askers |->
           IF serverAsker[p].at \in {"dial", "ask"} THEN seen[p] \cup {answer} ELSE seen[p]]
    BY DEF FileServer!Finds
<1>3. PollWait \in Nat /\ Cache \in Nat /\ CheckWait \in Nat
    BY DEF FileServer!TimesAssumption
<1>4. lastLive' \in Nat /\ lastLive <= lastLive' /\ (answer = "yes" => lastLive' = now + 1)
    BY <1>1, <1>2 DEF LiveOK
<1>5. LiveOK' /\ CachedOK'
    BY <1>1, <1>2, <1>3, <1>4 DEF LiveOK, CachedOK
<1>6. ASSUME NEW p \in FileServer!Askers PROVE AskerOK(p)'
  <2>1. CASE serverAsker[p].at = "dial"
    <3>1. seen'[p] = seen[p] \cup {answer}
        BY <1>2, <2>1
    <3>2. /\ serverAsker[p].since \in Nat
          /\ serverAsker[p].since <= now /\ now <= serverAsker[p].since + PollWait
          /\ "yes" \in seen[p] => serverAsker[p].since < lastLive
        BY <1>1, <2>1 DEF AskerOK
    <3>3. "yes" \in seen'[p] => serverAsker[p].since < lastLive'
        BY <1>1, <1>4, <3>1, <3>2 DEF LiveOK
    <3> QED BY <2>1, <3>2, <3>3 DEF AskerOK
  <2>2. CASE serverAsker[p].at = "told"
      BY <1>1, <1>3, <1>4, <2>2 DEF AskerOK, LiveOK
  <2>3. CASE serverAsker[p].at = "ask"
    <3>1. seen'[p] = seen[p] \cup {answer}
        BY <1>2, <2>3
    <3>2. /\ serverAsker[p].since \in Nat
          /\ serverAsker[p].since <= now /\ now <= serverAsker[p].since + CheckWait
          /\ "yes" \in seen[p] => serverAsker[p].since < lastLive
        BY <1>1, <2>3 DEF AskerOK
    <3>3. "yes" \in seen'[p] => serverAsker[p].since < lastLive'
        BY <1>1, <1>4, <3>1, <3>2 DEF LiveOK
    <3> QED BY <2>3, <3>2, <3>3 DEF AskerOK
  <2>4. CASE serverAsker[p].at = "asked"
      BY <1>1, <1>3, <1>4, <2>4 DEF AskerOK, LiveOK
  <2> QED BY <2>1, <2>2, <2>3, <2>4 DEF AskerOK
<1> QED BY <1>1, <1>2, <1>5, <1>6 DEF ServerInv

\* A thread goes on by itself.
LEMMA OneAskerGoesOn ==
    ASSUME ServerInv, NEW p \in FileServer!Askers,
           UNCHANGED <<now, address, lastLive>>, CachedOK',
           serverAsker' = [serverAsker EXCEPT ![p] = serverAsker'[p]],
           seen' = [seen EXCEPT ![p] = seen'[p]],
           AskerOK(p)'
    PROVE  ServerInv'
<1>1. /\ serverAsker = [q \in FileServer!Askers |-> serverAsker[q]]
      /\ seen = [q \in FileServer!Askers |-> seen[q]]
      /\ \A q \in FileServer!Askers : AskerOK(q)
    BY DEF ServerInv
<1>2. \A q \in FileServer!Askers : q # p => serverAsker'[q] = serverAsker[q] /\ seen'[q] = seen[q]
    BY <1>1
<1>3. ASSUME NEW q \in FileServer!Askers, q # p PROVE AskerOK(q)'
    BY <1>1, <1>2, <1>3 DEF AskerOK
<1> QED BY <1>1, <1>3 DEF ServerInv, LiveOK

LEMMA ServerStep ==
    ASSUME FileServer!TimesAssumption, ServerInv, FileServer!Next
    PROVE  ServerInv'
<1>0. /\ LiveOK /\ CachedOK
      /\ serverAsker = [p \in FileServer!Askers |-> serverAsker[p]]
      /\ seen = [p \in FileServer!Askers |-> seen[p]]
      /\ \A p \in FileServer!Askers : AskerOK(p)
    BY DEF ServerInv
<1>a. PollWait \in Nat /\ Cache \in Nat /\ Cache > 0 /\ CheckWait \in Nat
    BY DEF FileServer!TimesAssumption
<1>1. CASE FileServer!Start \/ FileServer!Dies \/ FileServer!Stop \/ FileServer!NetworkChanges
  <2>1. UNCHANGED <<now, cached, serverAsker>>
      BY <1>1 DEF FileServer!Start, FileServer!Dies, FileServer!Stop, FileServer!NetworkChanges
  <2>2. CASE \E answer : FileServer!Finds(answer)
      BY <2>1, <2>2, FindsKeeps
  <2>3. CASE FileServer!Quiet
      BY <1>0, <2>1, <2>3
         DEF FileServer!Quiet, ServerInv, LiveOK, CachedOK, AskerOK
  <2> QED
      BY <1>1, <2>2, <2>3
         DEF FileServer!Start, FileServer!Dies, FileServer!Stop, FileServer!NetworkChanges
<1>2. CASE FileServer!Tick
  <2>1. /\ now' = now + 1 /\ UNCHANGED <<address, cached, serverAsker, seen>>
        /\ lastLive' = IF address = "yes" THEN now + 2 ELSE lastLive
        /\ \A p \in FileServer!Askers :
              /\ serverAsker[p].at = "dial" => now < serverAsker[p].since + PollWait
              /\ serverAsker[p].at = "ask" => now < serverAsker[p].since + CheckWait
              /\ serverAsker[p].at \notin {"told", "asked"}
      BY <1>2 DEF FileServer!Tick, FileServer!Wait
  <2>2. lastLive' \in Nat /\ lastLive <= lastLive' /\ lastLive' <= now' + 1
      BY <1>0, <2>1 DEF LiveOK
  <2>3. LiveOK' /\ CachedOK'
      BY <1>0, <1>a, <2>1, <2>2 DEF LiveOK, CachedOK
  <2>4. ASSUME NEW p \in FileServer!Askers PROVE AskerOK(p)'
    <3>1. CASE serverAsker[p].at = "dial"
      <4>1. /\ serverAsker[p].since \in Nat
            /\ serverAsker[p].since <= now /\ now < serverAsker[p].since + PollWait
            /\ "yes" \in seen[p] => serverAsker[p].since < lastLive
          BY <1>0, <2>1, <3>1 DEF AskerOK
      <4>2. /\ serverAsker[p].since <= now' /\ now' <= serverAsker[p].since + PollWait
            /\ "yes" \in seen[p] => serverAsker[p].since < lastLive'
          BY <1>0, <1>a, <2>1, <2>2, <4>1 DEF LiveOK
      <4> QED BY <2>1, <3>1, <4>1, <4>2 DEF AskerOK
    <3>2. CASE serverAsker[p].at = "ask"
      <4>1. /\ serverAsker[p].since \in Nat
            /\ serverAsker[p].since <= now /\ now < serverAsker[p].since + CheckWait
            /\ "yes" \in seen[p] => serverAsker[p].since < lastLive
          BY <1>0, <2>1, <3>2 DEF AskerOK
      <4>2. /\ serverAsker[p].since <= now' /\ now' <= serverAsker[p].since + CheckWait
            /\ "yes" \in seen[p] => serverAsker[p].since < lastLive'
          BY <1>0, <1>a, <2>1, <2>2, <4>1 DEF LiveOK
      <4> QED BY <2>1, <3>2, <4>1, <4>2 DEF AskerOK
    <3>3. CASE serverAsker[p].at \notin {"dial", "ask"}
        BY <2>1, <3>3 DEF AskerOK
    <3> QED BY <3>1, <3>2, <3>3
  <2> QED BY <1>0, <2>1, <2>3, <2>4 DEF ServerInv
<1>3. ASSUME NEW p \in FileServer!Askers, FileServer!Snapshot(p) PROVE ServerInv'
  <2>1. UNCHANGED <<now, address, cached, lastLive>> /\ CachedOK'
      BY <1>0, <1>3 DEF FileServer!Snapshot, CachedOK
  <2>2. ASSUME NEW reply, serverAsker' = FileServer!Told(p, reply), seen' = seen,
               reply = "available" => FileServer!Fresh /\ cached.verdict = "live"
        PROVE  ServerInv'
    <3>1. /\ serverAsker' = [serverAsker EXCEPT ![p] = serverAsker'[p]]
          /\ serverAsker'[p].at = "told" /\ serverAsker'[p].reply = reply
        BY <1>0, <2>2 DEF FileServer!Told, FileServer!Idle
    <3>2. reply = "available" => 0 < lastLive /\ now + 1 < lastLive + Cache + PollWait
        BY <1>0, <1>a, <2>2 DEF FileServer!Fresh, CachedOK, LiveOK
    <3>3. AskerOK(p)'
        BY <2>1, <3>1, <3>2 DEF AskerOK
    <3>4. seen' = [seen EXCEPT ![p] = seen'[p]]
        BY <1>0, <2>2
    <3> QED BY <2>1, <3>1, <3>3, <3>4, OneAskerGoesOn
  <2>3. ASSUME serverAsker' = [serverAsker EXCEPT ![p] =
                                  [FileServer!Idle EXCEPT !.at = "dial", !.since = now]],
               seen' = [seen EXCEPT ![p] = {address}]
        PROVE  ServerInv'
    <3>1. /\ serverAsker' = [serverAsker EXCEPT ![p] = serverAsker'[p]]
          /\ serverAsker'[p].at = "dial" /\ serverAsker'[p].since = now
          /\ seen' = [seen EXCEPT ![p] = seen'[p]] /\ seen'[p] = {address}
        BY <1>0, <2>3 DEF FileServer!Idle
    <3>2. AskerOK(p)'
        BY <1>0, <1>a, <2>1, <3>1 DEF AskerOK, LiveOK
    <3> QED BY <2>1, <3>1, <3>2, OneAskerGoesOn
  <2>4. \A r : FileServer!ReplyOf(r) = "available" => r = "live"
      BY Verdicts
  <2>5. \A b \in FileServer!Boards \ {"supported"} : FileServer!Support(b) # "available"
      BY Verdicts
  <2> QED BY <1>3, <2>2, <2>3, <2>4, <2>5 DEF FileServer!Snapshot
<1>4. ASSUME NEW p \in FileServer!Askers, FileServer!DialEnds(p) PROVE ServerInv'
  <2>1. PICK answer \in seen[p] :
           /\ serverAsker' = FileServer!Told(p, FileServer!ReplyOf(FileServer!VerdictOf(answer)))
           /\ cached' = [verdict |-> FileServer!VerdictOf(answer), at |-> now]
      BY <1>4 DEF FileServer!DialEnds
  <2>2. /\ serverAsker[p].at = "dial" /\ UNCHANGED <<now, address, lastLive>>
        /\ seen' = [seen EXCEPT ![p] = {}]
      BY <1>4 DEF FileServer!DialEnds
  <2>3. /\ serverAsker[p].since \in Nat
        /\ serverAsker[p].since <= now /\ now <= serverAsker[p].since + PollWait
        /\ "yes" \in seen[p] => serverAsker[p].since < lastLive
      BY <1>0, <2>2 DEF AskerOK
  <2>4. FileServer!VerdictOf(answer) = "live" => 0 < lastLive /\ now < lastLive + PollWait
      BY <1>0, <1>a, <2>1, <2>3, Verdicts DEF LiveOK
  <2>5. CachedOK'
      BY <1>0, <2>1, <2>2, <2>4 DEF CachedOK, LiveOK
  <2>6. /\ serverAsker' = [serverAsker EXCEPT ![p] = serverAsker'[p]]
        /\ serverAsker'[p].at = "told"
        /\ serverAsker'[p].reply = "available" => FileServer!VerdictOf(answer) = "live"
        /\ seen' = [seen EXCEPT ![p] = seen'[p]]
      BY <1>0, <2>1, <2>2, Verdicts DEF FileServer!Told, FileServer!Idle
  <2>7. AskerOK(p)'
      BY <1>0, <1>a, <2>2, <2>4, <2>6 DEF AskerOK, LiveOK
  <2> QED BY <2>2, <2>5, <2>6, <2>7, OneAskerGoesOn
<1>5. ASSUME NEW p \in FileServer!Askers,
             FileServer!PollDone(p) \/ FileServer!CheckDone(p) \/ FileServer!Ask(p)
      PROVE  ServerInv'
  <2>1. UNCHANGED <<now, address, cached, lastLive>> /\ CachedOK'
      BY <1>0, <1>5 DEF FileServer!PollDone, FileServer!CheckDone, FileServer!Ask, CachedOK
  <2>2. CASE FileServer!PollDone(p)
    <3>1. serverAsker' = [serverAsker EXCEPT ![p] = FileServer!Idle] /\ seen' = seen
        BY <2>2 DEF FileServer!PollDone
    <3>2. /\ serverAsker' = [serverAsker EXCEPT ![p] = serverAsker'[p]]
          /\ serverAsker'[p].at = "idle"
        BY <1>0, <3>1 DEF FileServer!Idle
    <3>3. seen' = [seen EXCEPT ![p] = seen'[p]]
        BY <1>0, <3>1
    <3>4. AskerOK(p)'
        BY <3>2 DEF AskerOK
    <3> QED BY <2>1, <3>2, <3>3, <3>4, OneAskerGoesOn
  <2>3. CASE FileServer!CheckDone(p)
    <3>1. serverAsker' = [serverAsker EXCEPT ![p] = FileServer!Idle] /\ seen' = [seen EXCEPT ![p] = {}]
        BY <2>3 DEF FileServer!CheckDone
    <3>2. /\ serverAsker' = [serverAsker EXCEPT ![p] = serverAsker'[p]]
          /\ serverAsker'[p].at = "idle"
          /\ seen' = [seen EXCEPT ![p] = seen'[p]]
        BY <1>0, <3>1 DEF FileServer!Idle
    <3>3. AskerOK(p)'
        BY <3>2 DEF AskerOK
    <3> QED BY <2>1, <3>2, <3>3, OneAskerGoesOn
  <2>4. CASE FileServer!Ask(p)
    <3>1. PICK x : x = [FileServer!Idle EXCEPT !.at = "ask", !.since = now]
        OBVIOUS
    <3>2. x.at = "ask" /\ x.since = now
        BY <3>1 DEF FileServer!Idle
    <3>3. PICK a : /\ serverAsker' = [serverAsker EXCEPT ![p] = a]
                   /\ a = IF serverAsker[p].reply = "available" THEN x ELSE FileServer!Idle
        BY <2>4, <3>1 DEF FileServer!Ask
    <3>4. PICK b : /\ seen' = [seen EXCEPT ![p] = b]
                   /\ b = IF serverAsker'[p].at = "idle" THEN {} ELSE {address}
        BY <2>4 DEF FileServer!Ask
    <3>5. /\ serverAsker' = [serverAsker EXCEPT ![p] = serverAsker'[p]]
          /\ serverAsker'[p] = a
          /\ seen' = [seen EXCEPT ![p] = seen'[p]] /\ seen'[p] = b
        BY <1>0, <3>3, <3>4
    <3>6. "yes" \in b => now < lastLive
        BY <1>0, <3>4 DEF LiveOK
    <3>7. a.at = "idle" \/ (a.at = "ask" /\ a.since = now)
      <4>1. CASE a = x
          BY <3>2, <4>1
      <4>2. CASE a = FileServer!Idle
          BY <4>2 DEF FileServer!Idle
      <4> QED BY <3>3, <4>1, <4>2
    <3>8. AskerOK(p)'
        BY <1>0, <1>a, <2>1, <3>5, <3>6, <3>7 DEF AskerOK, LiveOK
    <3> QED BY <2>1, <3>5, <3>8, OneAskerGoesOn
  <2> QED BY <1>5, <2>2, <2>3, <2>4
<1>6. ASSUME NEW p \in FileServer!Askers, FileServer!AskEnds(p) PROVE ServerInv'
  <2>1. PICK answer \in seen[p] :
           serverAsker' = [serverAsker EXCEPT ![p] =
               [FileServer!Idle EXCEPT !.at = "asked", !.found = FileServer!VerdictOf(answer)]]
      BY <1>6 DEF FileServer!AskEnds
  <2>2. /\ serverAsker[p].at = "ask"
        /\ UNCHANGED <<now, address, cached, lastLive, seen>> /\ CachedOK'
      BY <1>0, <1>6 DEF FileServer!AskEnds, CachedOK
  <2>3. /\ serverAsker' = [serverAsker EXCEPT ![p] = serverAsker'[p]]
        /\ serverAsker'[p].at = "asked" /\ serverAsker'[p].found = FileServer!VerdictOf(answer)
        /\ seen' = [seen EXCEPT ![p] = seen'[p]]
      BY <1>0, <2>1, <2>2 DEF FileServer!Idle
  <2>4. /\ serverAsker[p].since \in Nat
        /\ serverAsker[p].since <= now /\ now <= serverAsker[p].since + CheckWait
        /\ "yes" \in seen[p] => serverAsker[p].since < lastLive
      BY <1>0, <2>2 DEF AskerOK
  <2>5. FileServer!VerdictOf(answer) = "live" => 0 < lastLive /\ now < lastLive + CheckWait
      BY <1>0, <1>a, <2>1, <2>4, Verdicts DEF LiveOK
  <2>6. AskerOK(p)'
      BY <2>2, <2>3, <2>5 DEF AskerOK
  <2> QED BY <2>2, <2>3, <2>6, OneAskerGoesOn
<1> QED BY <1>1, <1>2, <1>3, <1>4, <1>5, <1>6 DEF FileServer!Next

LEMMA ServerInductive ==
    ASSUME FileServer!TimesAssumption
    PROVE  FileServer!Spec => []ServerInv
<1>1. FileServer!Init => ServerInv
    BY DEF FileServer!Init, ServerInv, LiveOK, CachedOK, AskerOK, FileServer!Idle,
           FileServer!TimesAssumption
<1>2. ServerInv /\ [FileServer!Next]_FileServer!vars => ServerInv'
  <2>1. CASE FileServer!Next
      BY <2>1, ServerStep
  <2>2. CASE UNCHANGED FileServer!vars
      BY <2>2 DEF FileServer!vars, ServerInv, LiveOK, CachedOK, AskerOK
  <2> QED BY <2>1, <2>2
<1> QED BY <1>1, <1>2, PTL DEF FileServer!Spec

\* A transfer is offered only on an answer less old than a dial takes and the
\* cache keeps it (FileServer!OfferedIsRecent), whichever threads dialled.
THEOREM OffersAreRecent ==
    ASSUME FileServer!TimesAssumption
    PROVE  FileServer!Spec => []FileServer!OfferedIsRecent
<1>1. ServerInv => FileServer!OfferedIsRecent
  <2> SUFFICES ASSUME ServerInv, NEW p \in FileServer!Askers, serverAsker[p].at = "told",
                      serverAsker[p].reply = "available"
               PROVE  lastLive > 0 /\ now - (lastLive - 1) < Cache + PollWait
      BY DEF FileServer!OfferedIsRecent
  <2>1. 0 < lastLive /\ now + 1 < lastLive + Cache + PollWait
      BY DEF ServerInv, AskerOK
  <2> QED BY <2>1 DEF ServerInv, LiveOK, FileServer!TimesAssumption
<1> QED BY ServerInductive, <1>1, PTL

\* A check that lets a transfer go found the address answering within its own
\* wait (FileServer!GoIsRecent), whatever pages had cached and offered before.
THEOREM ChecksAreRecent ==
    ASSUME FileServer!TimesAssumption
    PROVE  FileServer!Spec => []FileServer!GoIsRecent
<1>1. ServerInv => FileServer!GoIsRecent
  <2> SUFFICES ASSUME ServerInv, NEW p \in Checkers, serverAsker[p].at = "asked",
                      serverAsker[p].found = "live"
               PROVE  lastLive > 0 /\ now - (lastLive - 1) <= CheckWait
      BY DEF FileServer!GoIsRecent
  <2>1. 0 < lastLive /\ now < lastLive + CheckWait
      BY DEF ServerInv, AskerOK, FileServer!Askers
  <2> QED BY <2>1 DEF ServerInv, LiveOK, FileServer!TimesAssumption
<1> QED BY ServerInductive, <1>1, PTL

-----------------------------------------------------------------------------
(* The registry of capabilities (Registry).                                *)

\* The capabilities that have been looked at, in their order.
LookedAt ==
    (IF next > 1 THEN {"leds"} ELSE {}) \cup (IF next > 2 THEN {"power"} ELSE {})
        \cup (IF next > 3 THEN {"pointer"} ELSE {})

\* Each is in one of three states, as its configuration has it.
StatesOK ==
    /\ config \in [Registry!Names -> Registry!Backends] /\ next \in 1 .. 4
    /\ caps \cup failed \cup disabled = LookedAt
    /\ caps \cap failed = {} /\ caps \cap disabled = {} /\ failed \cap disabled = {}
    /\ \A c \in caps : config[c] = "known" \/ (config[c] = "absent" /\ c = "leds")
    /\ \A c \in failed : ~Registry!SwitchedOff(c)
    /\ \A c \in disabled : Registry!SwitchedOff(c)

\* A command is entered by one that runs or is off.
RoutesOK ==
    \A v \in DOMAIN routes :
        \/ routes[v].refuses = TRUE /\ routes[v].cap \in disabled
        \/ routes[v].refuses = FALSE /\ routes[v].cap \in caps

Verifies(c) == "verify_input" \in DOMAIN routes /\ routes["verify_input"] = Registry!Runs(c)

\* Where there are lamps verify_input is theirs.
VerifyOK ==
    /\ "leds" \in caps => Verifies("leds")
    /\ "leds" \in failed => "verify_input" \notin DOMAIN routes
    /\ "leds" \in disabled /\ "pointer" \in caps => Verifies("pointer")

RegistryInv == StatesOK /\ RoutesOK /\ VerifyOK

\* The commands that are entered, and those they leave alone.
LEMMA RoutesEntered ==
    ASSUME NEW vs, NEW r, routes' = Registry!Entered(vs, r)
    PROVE  /\ DOMAIN routes' = DOMAIN routes \cup vs
           /\ \A v \in vs : routes'[v] = r
           /\ \A v \in DOMAIN routes \ vs : routes'[v] = routes[v]
BY DEF Registry!Entered

LEMMA Classes ==
    ASSUME next \in 1 .. 4, ~Registry!Started
    PROVE  \/ next = 1 /\ Registry!Class = "leds"
           \/ next = 2 /\ Registry!Class = "power"
           \/ next = 3 /\ Registry!Class = "pointer"
<1>1. Len(Registry!Capabilities) = 3 /\ Registry!Capabilities[1] = "leds"
      /\ Registry!Capabilities[2] = "power" /\ Registry!Capabilities[3] = "pointer"
    BY DEF Registry!Capabilities
<1> QED BY <1>1 DEF Registry!Started, Registry!Class

LEMMA Claims ==
    ASSUME NEW b \in BOOLEAN
    PROVE  /\ "verify_input" \in Registry!Commands("leds", b)
           /\ "verify_input" \notin Registry!Commands("power", b)
           /\ "verify_input" \in Registry!Commands("pointer", b) <=> b /\ config["leds"] = "none"
BY DEF Registry!Commands

\* What a class that is off, fails or runs does to the routes.
LEMMA RoutesAfter ==
    ASSUME RoutesOK, NEW vs, NEW r, routes' = Registry!Entered(vs, r),
           caps \subseteq caps', disabled \subseteq disabled',
           \/ r.refuses = TRUE /\ r.cap \in disabled'
           \/ r.refuses = FALSE /\ r.cap \in caps'
    PROVE  RoutesOK'
<1>1. /\ DOMAIN routes' = DOMAIN routes \cup vs
      /\ \A v \in vs : routes'[v] = r
      /\ \A v \in DOMAIN routes \ vs : routes'[v] = routes[v]
    BY RoutesEntered
<1>2. ASSUME NEW v \in DOMAIN routes'
      PROVE  \/ routes'[v].refuses = TRUE /\ routes'[v].cap \in disabled'
             \/ routes'[v].refuses = FALSE /\ routes'[v].cap \in caps'
  <2>1. CASE v \in vs
      BY <1>1, <2>1
  <2>2. CASE v \in DOMAIN routes \ vs
      BY <1>1, <2>2 DEF RoutesOK
  <2> QED BY <1>1, <1>2, <2>1, <2>2
<1> QED BY <1>2 DEF RoutesOK

LEMMA VerifyAfter ==
    ASSUME NEW vs, NEW r, routes' = Registry!Entered(vs, r)
    PROVE  /\ "verify_input" \in vs =>
                "verify_input" \in DOMAIN routes' /\ routes'["verify_input"] = r
           /\ "verify_input" \notin vs =>
                /\ "verify_input" \in DOMAIN routes' <=> "verify_input" \in DOMAIN routes
                /\ \A d : Verifies(d) => Verifies(d)'
<1>1. /\ DOMAIN routes' = DOMAIN routes \cup vs
      /\ \A v \in vs : routes'[v] = r
      /\ \A v \in DOMAIN routes \ vs : routes'[v] = routes[v]
    BY RoutesEntered
<1> QED BY <1>1 DEF Verifies, Registry!Runs

LEMMA RegistryStep ==
    ASSUME RegistryInv, Registry!Next
    PROVE  RegistryInv'
<1>0. StatesOK /\ RoutesOK /\ VerifyOK
    BY DEF RegistryInv
<1> DEFINE c == Registry!Class
<1>1. ~Registry!Started /\ next' = next + 1 /\ config' = config
    BY DEF Registry!Next, Registry!Disable, Registry!UnknownBackend, Registry!Start,
           Registry!StartFails, Registry!Wanted
<1>2. /\ next \in 1 .. 3 /\ next' \in 1 .. 4
      /\ \/ next = 1 /\ c = "leds"
         \/ next = 2 /\ c = "power"
         \/ next = 3 /\ c = "pointer"
    BY <1>0, <1>1, Classes DEF StatesOK
<1>3. LookedAt' = LookedAt \cup {c} /\ c \notin LookedAt /\ c \in Registry!Names
    BY <1>1, <1>2 DEF LookedAt, Registry!Names
<1>4. \A d : Registry!SwitchedOff(d)' <=> Registry!SwitchedOff(d)
    BY <1>1 DEF Registry!SwitchedOff
<1> HIDE DEF c
<1>5. ASSUME NEW b \in BOOLEAN, Registry!Disable(b) PROVE RegistryInv'
  <2>1. /\ Registry!SwitchedOff(c) /\ disabled' = disabled \cup {c} /\ UNCHANGED <<caps, failed>>
        /\ routes' = IF b THEN Registry!Entered(Registry!Commands(c, FALSE), Registry!Refuses(c))
                     ELSE routes
      BY <1>5 DEF Registry!Disable, c
  <2>2. StatesOK'
      BY <1>0, <1>1, <1>2, <1>3, <1>4, <2>1 DEF StatesOK
  <2>3. Registry!Refuses(c).refuses = TRUE /\ Registry!Refuses(c).cap = c
      BY DEF Registry!Refuses
  <2>4. RoutesOK'
    <3>1. CASE b
        BY <1>0, <2>1, <2>3, <3>1, RoutesAfter
    <3>2. CASE ~b
        BY <1>0, <2>1, <3>2 DEF RoutesOK
    <3> QED BY <3>1, <3>2
  <2>5. ~("leds" \in disabled' /\ "pointer" \in caps')
      BY <1>0, <1>1, <1>2, <1>3, <2>1 DEF StatesOK, LookedAt
  <2>6. c # "leds" =>
            /\ "verify_input" \in DOMAIN routes' <=> "verify_input" \in DOMAIN routes
            /\ \A d : Verifies(d) => Verifies(d)'
    <3>1. CASE ~b
        BY <2>1, <3>1 DEF Verifies, Registry!Runs
    <3>2. CASE b
      <4>1. c # "leds" => "verify_input" \notin Registry!Commands(c, FALSE)
          BY <1>2, Claims
      <4> QED BY <2>1, <3>2, <4>1, VerifyAfter
    <3> QED BY <3>1, <3>2
  <2>7. "leds" \in caps' \cup failed' => c # "leds"
      BY <1>0, <1>3, <2>1 DEF StatesOK
  <2>8. VerifyOK'
      BY <1>0, <2>1, <2>5, <2>6, <2>7 DEF VerifyOK
  <2> QED BY <2>2, <2>4, <2>8 DEF RegistryInv
<1>6. CASE Registry!UnknownBackend \/ Registry!StartFails
  <2>1. /\ ~Registry!SwitchedOff(c) /\ failed' = failed \cup {c}
        /\ UNCHANGED <<caps, disabled, routes>>
      BY <1>6 DEF Registry!UnknownBackend, Registry!StartFails, Registry!Wanted,
                  Registry!SwitchedOff, c
  <2>2. StatesOK'
      BY <1>0, <1>1, <1>2, <1>3, <1>4, <2>1 DEF StatesOK
  <2>3. RoutesOK'
      BY <1>0, <2>1 DEF RoutesOK
  <2>4. c = "leds" => "verify_input" \notin DOMAIN routes
    <3>1. c = "leds" => caps = {} /\ disabled = {}
        BY <1>0, <1>2 DEF StatesOK, LookedAt
    <3> QED BY <1>0, <3>1 DEF RoutesOK
  <2>5. VerifyOK'
      BY <1>0, <2>1, <2>4 DEF VerifyOK, Verifies, Registry!Runs
  <2> QED BY <2>2, <2>3, <2>5 DEF RegistryInv
<1>7. CASE Registry!Start
  <2>1. /\ ~Registry!SwitchedOff(c) /\ config[c] # "unknown"
        /\ caps' = caps \cup {c} /\ UNCHANGED <<failed, disabled>>
        /\ routes' = Registry!Entered(Registry!Commands(c, TRUE), Registry!Runs(c))
      BY <1>7 DEF Registry!Start, Registry!Wanted, c
  <2>2. config[c] = "known" \/ (config[c] = "absent" /\ c = "leds")
      BY <1>0, <1>3, <2>1
         DEF StatesOK, Registry!Backends, Registry!SwitchedOff, Registry!HasDefault
  <2>3. StatesOK'
      BY <1>0, <1>1, <1>2, <1>3, <1>4, <2>1, <2>2 DEF StatesOK
  <2>4. Registry!Runs(c).refuses = FALSE /\ Registry!Runs(c).cap = c
      BY DEF Registry!Runs
  <2>5. RoutesOK'
      BY <1>0, <2>1, <2>4, RoutesAfter
  <2>6. CASE c = "leds"
    <3>1. "leds" \notin failed \cup disabled
        BY <1>0, <1>3, <2>6 DEF StatesOK
    <3>2. "verify_input" \in DOMAIN routes' /\ routes'["verify_input"] = Registry!Runs("leds")
        BY <2>1, <2>6, Claims, VerifyAfter
    <3>3. VerifyOK'
        BY <2>1, <3>1, <3>2 DEF VerifyOK, Verifies, Registry!Runs
    <3> QED BY <2>3, <2>5, <3>3 DEF RegistryInv
  <2>7. CASE c = "power"
    <3>1. /\ "verify_input" \in DOMAIN routes' <=> "verify_input" \in DOMAIN routes
          /\ \A d : Verifies(d) => Verifies(d)'
        BY <2>1, <2>7, Claims, VerifyAfter
    <3>2. VerifyOK'
        BY <1>0, <2>1, <2>7, <3>1 DEF VerifyOK
    <3> QED BY <2>3, <2>5, <3>2 DEF RegistryInv
  <2>8. CASE c = "pointer"
    <3>1. "leds" \in disabled => config["leds"] = "none"
        BY <1>0 DEF StatesOK, Registry!SwitchedOff, Registry!HasDefault
    <3>2. "leds" \in caps \cup failed => config["leds"] # "none"
        BY <1>0 DEF StatesOK, Registry!SwitchedOff
    <3>3. CASE config["leds"] = "none"
      <4>1. "verify_input" \in DOMAIN routes' /\ routes'["verify_input"] = Registry!Runs("pointer")
          BY <2>1, <2>8, <3>3, Claims, VerifyAfter
      <4>2. VerifyOK'
          BY <1>0, <2>1, <2>8, <3>2, <3>3, <4>1 DEF VerifyOK, Verifies, Registry!Runs
      <4> QED BY <2>3, <2>5, <4>2 DEF RegistryInv
    <3>4. CASE config["leds"] # "none"
      <4>1. /\ "verify_input" \in DOMAIN routes' <=> "verify_input" \in DOMAIN routes
            /\ \A d : Verifies(d) => Verifies(d)'
          BY <2>1, <2>8, <3>4, Claims, VerifyAfter
      <4>2. VerifyOK'
          BY <1>0, <2>1, <2>8, <3>1, <3>4, <4>1 DEF VerifyOK
      <4> QED BY <2>3, <2>5, <4>2 DEF RegistryInv
    <3> QED BY <3>3, <3>4
  <2> QED BY <1>2, <2>6, <2>7, <2>8
<1> QED BY <1>5, <1>6, <1>7 DEF Registry!Next

LEMMA RegistryInductive == Registry!Spec => []RegistryInv
<1>1. Registry!Init => RegistryInv
    BY DEF Registry!Init, RegistryInv, StatesOK, RoutesOK, VerifyOK, LookedAt
<1>2. RegistryInv /\ [Registry!Next]_Registry!vars => RegistryInv'
  <2>1. CASE Registry!Next
      BY <2>1, RegistryStep
  <2>2. CASE UNCHANGED Registry!vars
      BY <2>2 DEF Registry!vars, RegistryInv, StatesOK, RoutesOK, VerifyOK, LookedAt, Verifies,
                  Registry!SwitchedOff, Registry!Runs
  <2> QED BY <2>1, <2>2
<1> QED BY <1>1, <1>2, PTL DEF Registry!Spec

\* Each capability runs, failed or is off, never two of them, and a command is
\* answered by one that runs or refused for one that is off; verify_input is that
\* of the lamps wherever there are lamps (Registry!ThreeStates, VerifyInputBelongs).
THEOREM CapabilitiesAreOne ==
    Registry!Spec => [](Registry!ThreeStates /\ Registry!VerifyInputBelongs)
<1>1. RegistryInv => Registry!ThreeStates /\ Registry!VerifyInputBelongs
  <2> SUFFICES ASSUME RegistryInv PROVE Registry!ThreeStates /\ Registry!VerifyInputBelongs
      OBVIOUS
  <2>1. StatesOK /\ RoutesOK /\ VerifyOK
      BY DEF RegistryInv
  <2>2. Registry!Started => next = 4
      BY <2>1 DEF StatesOK, Registry!Started, Registry!Capabilities
  <2>3. Registry!Started => caps \cup failed \cup disabled = Registry!Names
      BY <2>1, <2>2 DEF StatesOK, LookedAt, Registry!Names
  <2>4. Registry!ThreeStates
      BY <2>1, <2>3 DEF StatesOK, RoutesOK, Registry!ThreeStates, Registry!HasDefault
  <2>5. Registry!VerifyInputBelongs
      BY <2>1 DEF VerifyOK, Verifies, Registry!VerifyInputBelongs
  <2> QED BY <2>4, <2>5
<1> QED BY RegistryInductive, <1>1, PTL

-----------------------------------------------------------------------------
(* Several profiles in one daemon (Profiles).                              *)

\* Of the profiles that go through the bridge one at most is built, each
\* once and in its turn, and beats as itself.
BuiltOK ==
    /\ DOMAIN found \subseteq Nat \ {0}
    /\ todo \subseteq Profiles!ConflictFree(found)
    /\ built \in Seq([of : Profiles!ConflictFree(found), beat : Nat])
    /\ \A b \in DOMAIN built :
         /\ built[b].beat = built[b].of
         /\ \A i \in todo : built[b].of < i
    /\ \A a, b \in DOMAIN built : built[a].of = built[b].of => a = b

\* Nothing is served before all of them were tried, and one was built.
ServedOK == web # "not yet" => todo = {} /\ built # <<>>

\* A socket leads where its path says.
SocketsOK ==
    /\ \A s \in unbound : s.inst \in DOMAIN built /\ s.path \in Profiles!Paths(s.inst)
    /\ \A p \in DOMAIN bound : bound[p] \in DOMAIN built /\ p \in Profiles!Paths(bound[p])

\* A request has the instance it named, and that one's configuration.
Reached(k) ==
    /\ k.inst \in DOMAIN built /\ k.cfg = built[k.inst].of
    /\ k.at = "web" => k.name = Profiles!NoName \/ Profiles!NameOf(k.inst) = k.name
    /\ k.at = "socket" => k.path \in Profiles!Paths(k.inst)

RequestOK(k) ==
    \/ k.at = "idle"
    \/ k.at = "open" /\ web = "up"
    \/ k.at = "web" /\ web = "up" /\ Reached(k)
    \/ k.at = "socket" /\ Reached(k)

RequestsOK == DOMAIN profileCall = Requests /\ \A c \in Requests : RequestOK(profileCall[c])

ProfilesInv == BuiltOK /\ ServedOK /\ SocketsOK /\ RequestsOK

\* What is found at the start; of files none need bear the primary's name.
LEMMA ProfilesFound ==
    ASSUME Profiles!Init, Profiles!ProfilesAssumption
    PROVE  /\ DOMAIN found \subseteq Nat \ {0} /\ todo = Profiles!ConflictFree(found)
           /\ ~SameName => \A i \in DOMAIN found : i # 1 => found[i].name # found[1].name
<1>a. PICK primary \in ProfileNames \cup {Profiles!NoName}, others \in SUBSET ProfileNames,
           hids \in [ProfileNames \cup {Profiles!NoName} -> BOOLEAN] :
             /\ SameName \/ primary \notin others
             /\ \E names \in Profiles!InOrder(others) :
                   found = Profiles!Discovered(primary, names, hids)
             /\ todo = Profiles!ConflictFree(found)
    BY DEF Profiles!Init
<1>1. PICK names \in Profiles!InOrder(others) : found = Profiles!Discovered(primary, names, hids)
    BY <1>a
<1>2. IsFiniteSet(others)
  <2>1. IsFiniteSet(ProfileNames) /\ others \subseteq ProfileNames
      BY DEF Profiles!ProfilesAssumption, Profiles!IsFiniteSet, IsFiniteSet
  <2> QED BY <2>1, FS_Subset
<1>3. PICK n \in Nat : n = Cardinality(others)
    BY <1>2, FS_CardinalityType
<1>4. names \in [1 .. n -> others]
    BY <1>1, <1>3 DEF Profiles!InOrder, Profiles!Cardinality, Cardinality
<1>5. names \in Seq(others) /\ Len(names) = n
    BY <1>4, LenProperties, SeqDef
<1>6. DOMAIN found = 1 .. n + 1
    BY <1>1, <1>5 DEF Profiles!Discovered
<1>7. found[1].name = primary
    BY <1>1, <1>5 DEF Profiles!Discovered
<1>8. ASSUME NEW i \in DOMAIN found, i # 1 PROVE found[i].name \in others
  <2>1. i - 1 \in 1 .. n /\ i \in 1 .. n + 1
      BY <1>6, <1>8
  <2>2. found[i].name = names[i - 1]
      BY <1>1, <1>5, <1>8, <2>1 DEF Profiles!Discovered
  <2> QED BY <1>4, <2>1, <2>2
<1> QED BY <1>a, <1>6, <1>7, <1>8

\* What a step leaves of the instances and their names.
LEMMA PathsKept ==
    ASSUME found' = found, NEW b, built'[b] = built[b]
    PROVE  /\ Profiles!Paths(b)' = Profiles!Paths(b)
           /\ Profiles!NameOf(b)' = Profiles!NameOf(b)
BY DEF Profiles!Paths, Profiles!NameOf

LEMMA ReachedKept ==
    ASSUME NEW k, Reached(k), found' = found, DOMAIN built \subseteq DOMAIN built',
           \A b \in DOMAIN built : built'[b] = built[b]
    PROVE  Reached(k)'
<1>1. k.inst \in DOMAIN built /\ k.inst \in DOMAIN built' /\ built'[k.inst] = built[k.inst]
    BY DEF Reached
<1>2. /\ Profiles!Paths(k.inst)' = Profiles!Paths(k.inst)
      /\ Profiles!NameOf(k.inst)' = Profiles!NameOf(k.inst)
    BY <1>1, PathsKept
<1> QED BY <1>1, <1>2 DEF Reached

\* A step that changes no request: what they have is there still.
LEMMA RequestsKept ==
    ASSUME RequestsOK, profileCall' = profileCall, found' = found, web = "up" => web' = "up",
           DOMAIN built \subseteq DOMAIN built', \A b \in DOMAIN built : built'[b] = built[b]
    PROVE  RequestsOK'
<1>1. ASSUME NEW c \in Requests PROVE RequestOK(profileCall[c])'
  <2>1. PICK k : k = profileCall[c]
      OBVIOUS
  <2>2. RequestOK(k)
      BY <2>1 DEF RequestsOK
  <2>3. Reached(k) => Reached(k)'
      BY ReachedKept
  <2> QED BY <2>1, <2>2, <2>3 DEF RequestOK
<1> QED BY <1>1 DEF RequestsOK

LEMMA OneRequestGoesOn ==
    ASSUME RequestsOK, NEW c \in Requests, NEW k, RequestOK(k),
           profileCall' = [profileCall EXCEPT ![c] = k], UNCHANGED <<found, built, web>>
    PROVE  RequestsOK'
<1>1. \A j : RequestOK(j)' <=> RequestOK(j)
    BY DEF RequestOK, Reached, Profiles!NameOf, Profiles!Paths
<1>2. \A d \in Requests : profileCall'[d] = IF d = c THEN k ELSE profileCall[d]
    BY DEF RequestsOK
<1> QED BY <1>1, <1>2 DEF RequestsOK

LEMMA ProfilesStep ==
    ASSUME ProfilesInv, Profiles!Next
    PROVE  ProfilesInv'
<1>0. BuiltOK /\ ServedOK /\ SocketsOK /\ RequestsOK
    BY DEF ProfilesInv
<1>1. ASSUME NEW i \in todo, Profiles!Build(i) PROVE ProfilesInv'
  <2> DEFINE r == [of |-> i, beat |-> i]
  <2>1. /\ built' = Append(built, r) /\ todo' = todo \ {i} /\ \A j \in todo : i <= j
        /\ UNCHANGED <<found, web, unbound, bound, profileCall>>
      BY <1>1 DEF Profiles!Build, Profiles!BeatsAs, Profiles!NextToBuild
  <2>2. i \in Nat /\ i \in Profiles!ConflictFree(found) /\ todo \subseteq Nat
      BY <1>0 DEF BuiltOK, Profiles!ConflictFree
  <2>3. r \in [of : Profiles!ConflictFree(found), beat : Nat]
      BY <2>2
  <2> HIDE DEF r
  <2>4. PICK n \in Nat : n = Len(built) /\ DOMAIN built = 1 .. n
      BY <1>0 DEF BuiltOK
  <2>5. /\ built' \in Seq([of : Profiles!ConflictFree(found), beat : Nat])
        /\ DOMAIN built' = 1 .. n + 1 /\ built'[n + 1] = r
        /\ \A b \in DOMAIN built : built'[b] = built[b]
      BY <1>0, <2>1, <2>3, <2>4, AppendProperties DEF BuiltOK
  <2>6. r.of = i /\ r.beat = i
      BY DEF r
  <2>7. \A b \in DOMAIN built : built[b].of < i
      BY <1>0 DEF BuiltOK
  <2>8. BuiltOK'
    <3>1. \A b \in DOMAIN built' : built'[b].beat = built'[b].of
                                   /\ \A j \in todo' : built'[b].of < j
        BY <1>0, <2>1, <2>2, <2>4, <2>5, <2>6 DEF BuiltOK
    <3>2. ASSUME NEW a \in DOMAIN built', NEW b \in DOMAIN built', built'[a].of = built'[b].of
          PROVE  a = b
      <4>1. CASE a \in DOMAIN built /\ b \in DOMAIN built
          BY <1>0, <2>5, <3>2, <4>1 DEF BuiltOK
      <4>2. CASE a = n + 1 /\ b \in DOMAIN built
          BY <2>2, <2>5, <2>6, <2>7, <3>2, <4>2
      <4>3. CASE b = n + 1 /\ a \in DOMAIN built
          BY <2>2, <2>5, <2>6, <2>7, <3>2, <4>3
      <4>4. CASE a = n + 1 /\ b = n + 1
          BY <4>4
      <4> QED BY <2>4, <2>5, <4>1, <4>2, <4>3, <4>4
    <3> QED BY <1>0, <2>1, <2>5, <3>1, <3>2 DEF BuiltOK
  <2>9. DOMAIN built \subseteq DOMAIN built'
      BY <2>4, <2>5
  <2>10. ServedOK'
      BY <1>0, <2>1 DEF ServedOK
  <2>11. SocketsOK'
    <3>1. \A b \in DOMAIN built : Profiles!Paths(b)' = Profiles!Paths(b)
        BY <2>1, <2>5, PathsKept
    <3> QED BY <1>0, <2>1, <2>9, <3>1 DEF SocketsOK
  <2>12. RequestsOK'
      BY <1>0, <2>1, <2>5, <2>9, RequestsKept
  <2> QED BY <2>8, <2>10, <2>11, <2>12 DEF ProfilesInv
<1>2. ASSUME NEW i \in todo, Profiles!BuildFails(i) PROVE ProfilesInv'
  <2>1. /\ todo' = todo \ {i} /\ UNCHANGED <<found, built, web, unbound, bound, profileCall>>
      BY <1>2 DEF Profiles!BuildFails
  <2>2. BuiltOK' /\ ServedOK'
      BY <1>0, <2>1 DEF BuiltOK, ServedOK
  <2>3. SocketsOK'
      BY <1>0, <2>1 DEF SocketsOK, Profiles!Paths, Profiles!NameOf
  <2>4. RequestsOK'
      BY <1>0, <2>1, RequestsKept
  <2> QED BY <2>2, <2>3, <2>4 DEF ProfilesInv
<1>3. CASE Profiles!StartWeb
  <2>1. /\ todo = {} /\ built # <<>> /\ web = "not yet"
        /\ unbound' = UNION {{[path |-> p, inst |-> b] : p \in Profiles!Paths(b)} : b \in DOMAIN built}
        /\ UNCHANGED <<found, todo, built, bound, profileCall>>
      BY <1>3 DEF Profiles!StartWeb
  <2>2. BuiltOK' /\ ServedOK'
      BY <1>0, <2>1 DEF BuiltOK, ServedOK
  <2>3. ASSUME NEW s \in unbound'
        PROVE  s.inst \in DOMAIN built /\ s.path \in Profiles!Paths(s.inst)
    <3>1. PICK b \in DOMAIN built :
              s \in {[path |-> p, inst |-> b] : p \in Profiles!Paths(b)}
        BY <2>1
    <3>2. s.inst = b /\ s.path \in Profiles!Paths(b)
        BY <3>1
    <3> QED BY <3>2
  <2>4. \A b : Profiles!Paths(b)' = Profiles!Paths(b)
      BY <2>1 DEF Profiles!Paths, Profiles!NameOf
  <2>5. SocketsOK'
      BY <1>0, <2>1, <2>3, <2>4 DEF SocketsOK
  <2>6. RequestsOK'
      BY <1>0, <2>1, RequestsKept
  <2> QED BY <2>2, <2>5, <2>6 DEF ProfilesInv
<1>4. CASE Profiles!Bind
  <2>1. PICK s \in unbound :
          /\ unbound' = unbound \ {s}
          /\ bound' = [p \in DOMAIN bound \cup {s.path} |->
                            IF p = s.path THEN s.inst ELSE bound[p]]
          /\ UNCHANGED <<found, todo, built, web, profileCall>>
      BY <1>4 DEF Profiles!Bind
  <2>2. BuiltOK' /\ ServedOK'
      BY <1>0, <2>1 DEF BuiltOK, ServedOK
  <2>3. \A b : Profiles!Paths(b)' = Profiles!Paths(b)
      BY <2>1 DEF Profiles!Paths, Profiles!NameOf
  <2>4. SocketsOK'
      BY <1>0, <2>1, <2>3 DEF SocketsOK
  <2>5. RequestsOK'
      BY <1>0, <2>1, RequestsKept
  <2> QED BY <2>2, <2>4, <2>5 DEF ProfilesInv
<1>5. ASSUME NEW c \in Requests, UNCHANGED <<found, todo, built, web, unbound, bound>>,
             NEW k, profileCall' = [profileCall EXCEPT ![c] = k], RequestOK(k)
      PROVE  ProfilesInv'
  <2>1. BuiltOK' /\ ServedOK'
      BY <1>0, <1>5 DEF BuiltOK, ServedOK
  <2>2. SocketsOK'
      BY <1>0, <1>5 DEF SocketsOK, Profiles!Paths, Profiles!NameOf
  <2>3. RequestsOK'
      BY <1>0, <1>5, OneRequestGoesOn
  <2> QED BY <2>1, <2>2, <2>3 DEF ProfilesInv
<1>6. ASSUME NEW c \in Requests, Profiles!SocketRequest(c) PROVE ProfilesInv'
  <2>1. PICK path \in DOMAIN bound :
          profileCall' = [profileCall EXCEPT ![c] =
              [at |-> "socket", path |-> path, inst |-> bound[path], cfg |-> built[bound[path]].of]]
      BY <1>6 DEF Profiles!SocketRequest
  <2>2. PICK k : k = [at |-> "socket", path |-> path, inst |-> bound[path],
                      cfg |-> built[bound[path]].of]
      OBVIOUS
  <2>3. Reached(k)
      BY <1>0, <2>2 DEF Reached, SocketsOK
  <2>4. RequestOK(k)
      BY <2>2, <2>3 DEF RequestOK
  <2> QED BY <1>5, <1>6, <2>1, <2>2, <2>4 DEF Profiles!SocketRequest
<1>7. ASSUME NEW c \in Requests, Profiles!WebConnects(c) PROVE ProfilesInv'
  <2>1. PICK k : k = [at |-> "open", cfg |-> 1]
      OBVIOUS
  <2>2. RequestOK(k)
      BY <1>7, <2>1 DEF RequestOK, Profiles!WebConnects
  <2> QED BY <1>5, <1>7, <2>1, <2>2 DEF Profiles!WebConnects
<1>8. ASSUME NEW c \in Requests, NEW name \in ProfileNames \cup {Profiles!NoName},
             Profiles!WebRequest(c, name)
      PROVE  ProfilesInv'
  <2>1. PICK b \in Profiles!Routes(name) :
          profileCall' = [profileCall EXCEPT ![c] =
              [at |-> "web", name |-> name, inst |-> b,
               cfg |-> Profiles!BindsTo(profileCall[c].cfg, b)]]
      BY <1>8 DEF Profiles!WebRequest
  <2>2. PICK k : k = [at |-> "web", name |-> name, inst |-> b, cfg |-> built[b].of]
      OBVIOUS
  <2>3. profileCall' = [profileCall EXCEPT ![c] = k]
      BY <2>1, <2>2 DEF Profiles!BindsTo
  <2>4. web = "up"
      BY <1>0, <1>8 DEF RequestsOK, RequestOK, Profiles!WebRequest
  <2>5. DOMAIN built = 1 .. Len(built) /\ Len(built) \in Nat /\ 1 \in DOMAIN built
    <3>1. built # <<>> /\ built \in Seq([of : Profiles!ConflictFree(found), beat : Nat])
        BY <1>0, <2>4 DEF ServedOK, BuiltOK
    <3> QED BY <3>1, EmptySeq
  <2>6. b \in DOMAIN built /\ (name = Profiles!NoName \/ Profiles!NameOf(b) = name)
    <3>1. CASE name = Profiles!NoName
        BY <2>1, <2>5, <3>1 DEF Profiles!Routes
    <3>2. CASE name # Profiles!NoName
        BY <2>1, <3>2 DEF Profiles!Routes
    <3> QED BY <3>1, <3>2
  <2>7. RequestOK(k)
      BY <2>2, <2>4, <2>6 DEF RequestOK, Reached
  <2> QED BY <1>5, <1>8, <2>3, <2>7 DEF Profiles!WebRequest
<1>9. ASSUME NEW c \in Requests, Profiles!WebAnswers(c) PROVE ProfilesInv'
  <2>1. PICK k : k = [at |-> "open", cfg |-> profileCall[c].cfg]
      OBVIOUS
  <2>2. RequestOK(k)
      BY <1>0, <1>9, <2>1 DEF RequestsOK, RequestOK, Profiles!WebAnswers
  <2> QED BY <1>5, <1>9, <2>1, <2>2 DEF Profiles!WebAnswers
<1>10. ASSUME NEW c \in Requests, Profiles!Ends(c) PROVE ProfilesInv'
  <2>1. PICK k : k = Profiles!Idle
      OBVIOUS
  <2>2. RequestOK(k)
      BY <2>1 DEF RequestOK, Profiles!Idle
  <2> QED BY <1>5, <1>10, <2>1, <2>2 DEF Profiles!Ends
<1> QED BY <1>1, <1>2, <1>3, <1>4, <1>6, <1>7, <1>8, <1>9, <1>10 DEF Profiles!Next

LEMMA BuiltOfFound ==
    ASSUME BuiltOK, NEW b \in DOMAIN built
    PROVE  built[b].of \in Profiles!ConflictFree(found) /\ built[b].of \in DOMAIN found
<1>1. built \in Seq([of : Profiles!ConflictFree(found), beat : Nat])
    BY DEF BuiltOK
<1>2. built[b] \in [of : Profiles!ConflictFree(found), beat : Nat]
    BY <1>1, ElementOfSeq, LenProperties
<1>3. built[b].of \in Profiles!ConflictFree(found)
    BY <1>2
<1> QED BY <1>3 DEF Profiles!ConflictFree

LEMMA ProfilesInductive == Profiles!Spec => []ProfilesInv
<1>1. Profiles!Init => ProfilesInv
  <2> SUFFICES ASSUME Profiles!Init PROVE ProfilesInv
      OBVIOUS
  <2>1. DOMAIN found \subseteq Nat \ {0} /\ todo = Profiles!ConflictFree(found)
      BY ProfilesFound, PartsAssumption DEF PartsAssumption
  <2>2. /\ built = <<>> /\ web = "not yet" /\ unbound = {} /\ bound = <<>>
        /\ profileCall = [c \in Requests |-> Profiles!Idle]
      BY DEF Profiles!Init
  <2>a. DOMAIN built = {} /\ DOMAIN bound = {}
    <3>1. << >> \in Seq(Nat) /\ Len(<< >>) = 0
        BY EmptySeq
    <3>2. DOMAIN << >> = {}
        BY <3>1
    <3> QED BY <2>2, <3>2
  <2>3. built \in Seq([of : Profiles!ConflictFree(found), beat : Nat])
      BY <2>2, EmptySeq
  <2>4. BuiltOK
      BY <2>1, <2>a, <2>3 DEF BuiltOK
  <2>5. ServedOK /\ SocketsOK
      BY <2>a, <2>2 DEF ServedOK, SocketsOK
  <2>6. RequestsOK
      BY <2>2 DEF RequestsOK, RequestOK, Profiles!Idle
  <2> QED BY <2>4, <2>5, <2>6 DEF ProfilesInv
<1>2. ProfilesInv /\ [Profiles!Next]_Profiles!vars => ProfilesInv'
  <2>1. CASE Profiles!Next
      BY <2>1, ProfilesStep
  <2>2. CASE UNCHANGED Profiles!vars
    <3>1. UNCHANGED <<found, todo, built, web, unbound, bound, profileCall>>
        BY <2>2 DEF Profiles!vars
    <3>2. BuiltOK' <=> BuiltOK
        BY <3>1 DEF BuiltOK
    <3>3. (ServedOK' <=> ServedOK) /\ (SocketsOK' <=> SocketsOK)
        BY <3>1 DEF ServedOK, SocketsOK, Profiles!Paths, Profiles!NameOf
    <3>4. RequestsOK' <=> RequestsOK
        BY <3>1 DEF RequestsOK, RequestOK, Reached, Profiles!Paths, Profiles!NameOf
    <3> QED BY <3>2, <3>3, <3>4 DEF ProfilesInv
  <2> QED BY <2>1, <2>2
<1> QED BY <1>1, <1>2, PTL DEF Profiles!Spec

\* No file bears the primary's name.
LEMMA PrimaryIsApart ==
    ASSUME ~SameName
    PROVE  Profiles!Spec => [](\A i \in DOMAIN found : i # 1 => found[i].name # found[1].name)
<1> DEFINE Apart == \A i \in DOMAIN found : i # 1 => found[i].name # found[1].name
<1>1. Profiles!Init => Apart
    BY ProfilesFound, PartsAssumption DEF PartsAssumption
<1>2. Apart /\ [Profiles!Next]_Profiles!vars => Apart'
  <2>1. [Profiles!Next]_Profiles!vars => found' = found
      BY DEF Profiles!Next, Profiles!Build, Profiles!BuildFails, Profiles!StartWeb,
             Profiles!Bind,
             Profiles!SocketRequest, Profiles!WebConnects, Profiles!WebRequest,
             Profiles!WebAnswers, Profiles!Ends, Profiles!vars
  <2> QED BY <2>1
<1> QED BY <1>1, <1>2, PTL DEF Profiles!Spec

\* A request runs under the configuration of the profile whose devices it
\* drives, and so does the power heartbeat; a name leads to the profile of that
\* name, and no two of them drive the one bridge; and by whichever path, where no
\* file bears the primary's name (Profiles!AnswersForItself,
\* NamesReachTheirProfile, EitherPath).
THEOREM ProfilesAnswerForThemselves ==
    ASSUME ~SameName
    PROVE  Profiles!Spec => [](/\ Profiles!AnswersForItself /\ Profiles!NamesReachTheirProfile
                               /\ Profiles!EitherPath)
<1> DEFINE Apart == \A i \in DOMAIN found : i # 1 => found[i].name # found[1].name
<1>1. ProfilesInv => Profiles!AnswersForItself
    BY DEF ProfilesInv, BuiltOK, RequestsOK, RequestOK, Reached, Profiles!AnswersForItself
<1>2. ProfilesInv => Profiles!NamesReachTheirProfile
  <2> SUFFICES ASSUME ProfilesInv PROVE Profiles!NamesReachTheirProfile
      OBVIOUS
  <2>1. ASSUME NEW c \in Requests
        PROVE  /\ profileCall[c].at = "web" /\ profileCall[c].name # Profiles!NoName =>
                      Profiles!NameOf(profileCall[c].inst) = profileCall[c].name
               /\ profileCall[c].at = "socket" =>
                      profileCall[c].path \in Profiles!Paths(profileCall[c].inst)
      BY DEF ProfilesInv, RequestsOK, RequestOK, Reached
  <2>2. ASSUME NEW a \in DOMAIN built, NEW b \in DOMAIN built,
               ~found[built[a].of].hid, ~found[built[b].of].hid
        PROVE  a = b
    <3>1. /\ built[a].of \in Profiles!ConflictFree(found)
          /\ built[b].of \in Profiles!ConflictFree(found)
        BY BuiltOfFound DEF ProfilesInv
    <3>2. PICK i, j : i = built[a].of /\ j = built[b].of
        OBVIOUS
    <3>3. /\ i \in Nat /\ j \in Nat /\ ~found[i].hid /\ ~found[j].hid
          /\ \A m \in 1 .. i - 1 : found[m].hid
          /\ \A m \in 1 .. j - 1 : found[m].hid
          /\ i # 0 /\ j # 0
        BY <2>2, <3>1, <3>2 DEF Profiles!ConflictFree, ProfilesInv, BuiltOK
    <3>5. i = j
        BY <3>3
    <3> QED BY <3>2, <3>5 DEF ProfilesInv, BuiltOK
  <2> QED BY <2>1, <2>2 DEF Profiles!NamesReachTheirProfile
<1>3. ProfilesInv /\ Apart => Profiles!EitherPath
  <2> SUFFICES ASSUME ProfilesInv, Apart,
                      NEW c \in Requests, profileCall[c].at = "socket",
                      profileCall[c].path # Profiles!Alias,
                      NEW b \in DOMAIN built, built[b].of = 1,
                      profileCall[c].path \in Profiles!Paths(b)
               PROVE  profileCall[c].inst = b
      BY DEF Profiles!EitherPath
  <2>1. PICK k : k = profileCall[c]
      OBVIOUS
  <2>2. Reached(k) /\ k.at = "socket"
      BY <2>1 DEF ProfilesInv, RequestsOK, RequestOK
  <2>3. k.inst \in DOMAIN built /\ k.path = found[built[k.inst].of].name
      BY <2>1, <2>2 DEF Reached, Profiles!Paths, Profiles!NameOf
  <2>4. k.path = found[1].name
      BY <2>1 DEF Profiles!Paths, Profiles!NameOf
  <2>5. built[k.inst].of \in DOMAIN found
      BY <2>3, BuiltOfFound DEF ProfilesInv
  <2>6. built[k.inst].of = 1
      BY <2>3, <2>4, <2>5
  <2> QED BY <2>1, <2>3, <2>6 DEF ProfilesInv, BuiltOK
<1>4. Profiles!Spec => []Apart
    BY PrimaryIsApart
<1> HIDE DEF Apart
<1> QED BY ProfilesInductive, <1>1, <1>2, <1>3, <1>4, PTL

-----------------------------------------------------------------------------
(* The bus (EventBus).                                                     *)

\* The ring holds the newest events without a hole; what the page got without being
\* told of a gap is a stretch of numbers up to the one it asks from.
RingOK ==
    /\ busSeq \in Nat /\ events \in Seq(Nat) /\ Len(events) <= busSeq
    /\ \A i \in 1 .. Len(events) : events[i] = busSeq - Len(events) + i

PageOK ==
    LET had == given["page"]
        from == readerAt["page"]
    IN  /\ from \in Nat /\ had \subseteq Nat
        /\ 0 \notin had =>
              /\ EventBus!Unbroken(had)
              /\ had = {} => from = 0
              /\ had # {} => from \in had /\ \A n \in had : n <= from

BusInv ==
    /\ RingOK /\ PageOK
    /\ DOMAIN given = EventBus!Readers /\ DOMAIN readerAt = EventBus!Readers

Reply(from) == {events[i] : i \in EventBus!Answered(from)}

\* A reply is a stretch of numbers above the one that was asked for, from the next
\* one on if that is still in the ring.
LEMMA ReplyIs ==
    ASSUME RingOK, EventsPerPage \in Nat \ {0}, NEW from \in Nat
    PROVE  /\ Reply(from) \subseteq Nat /\ \A n \in Reply(from) : n > from
           /\ EventBus!Unbroken(Reply(from))
           /\ EventBus!Missed(from) => Reply(from) # {}
           /\ ~EventBus!Missed(from) /\ from # 0 /\ Reply(from) # {} => from + 1 \in Reply(from)
<1>1. PICK k \in Nat : k = Len(events) /\ DOMAIN events = 1 .. k
    BY DEF RingOK
<1>2. PICK b \in Nat : b = busSeq - k
  <2>1. busSeq \in Nat /\ k <= busSeq
      BY <1>1 DEF RingOK
  <2>2. busSeq - k \in Nat
      BY <2>1
  <2> QED BY <2>2
<1>3. /\ \A i \in 1 .. k : events[i] = b + i
      /\ events = <<>> <=> k = 0
    BY <1>1, <1>2, EmptySeq DEF RingOK
<1>4. \A i : i \in EventBus!Answered(from) <=>
          i \in 1 .. k /\ b + i > from /\ \A j \in 1 .. k : b + j > from => i < j + EventsPerPage
    BY <1>1, <1>3 DEF EventBus!Answered
<1>5. \A n : n \in Reply(from) <=> \E i \in EventBus!Answered(from) : n = b + i
    BY <1>3, <1>4 DEF Reply
<1>6. Reply(from) \subseteq Nat /\ \A n \in Reply(from) : n > from
    BY <1>4, <1>5
<1>7. EventBus!Unbroken(Reply(from))
  <2> SUFFICES ASSUME NEW m \in Reply(from), NEW n \in Reply(from), NEW x \in m .. n
               PROVE  x \in Reply(from)
      BY DEF EventBus!Unbroken
  <2>1. PICK i, h : /\ i \in EventBus!Answered(from) /\ m = b + i
                    /\ h \in EventBus!Answered(from) /\ n = b + h
      BY <1>5
  <2>2. /\ i \in 1 .. k /\ h \in 1 .. k /\ b + i > from
        /\ \A j \in 1 .. k : b + j > from => h < j + EventsPerPage
      BY <1>4, <2>1
  <2>3. PICK y \in 1 .. k : x = b + y /\ y <= h /\ i <= y
    <3>1. x \in Nat /\ b + i <= x /\ x <= b + h
        BY <2>1, <2>2
    <3>2. x - b \in 1 .. k /\ x = b + (x - b)
        BY <2>2, <3>1
    <3> QED BY <2>2, <3>1, <3>2
  <2>4. b + y > from /\ \A j \in 1 .. k : b + j > from => y < j + EventsPerPage
      BY <2>2, <2>3
  <2>5. y \in EventBus!Answered(from)
      BY <1>4, <2>4
  <2> QED BY <1>5, <2>3, <2>5
<1>8. EventBus!Oldest = IF k = 0 THEN 0 ELSE b + 1
    BY <1>3 DEF EventBus!Oldest
<1>9. ASSUME EventBus!Missed(from) PROVE Reply(from) # {}
  <2>1. k # 0 /\ b + 1 > from
      BY <1>8, <1>9 DEF EventBus!Missed
  <2>2. 1 \in EventBus!Answered(from)
      BY <1>4, <2>1
  <2> QED BY <1>5, <2>2
<1>10. ASSUME ~EventBus!Missed(from), from # 0, Reply(from) # {} PROVE from + 1 \in Reply(from)
  <2>1. PICK i \in 1 .. k : b + i > from
      BY <1>4, <1>5, <1>10
  <2>2. b + 1 <= from + 1
      BY <1>8, <1>10, <2>1 DEF EventBus!Missed
  <2>3. PICK y \in 1 .. k : b + y = from + 1
    <3>1. from + 1 - b \in 1 .. k /\ b + (from + 1 - b) = from + 1
        BY <2>1, <2>2
    <3> QED BY <3>1
  <2>4. \A j \in 1 .. k : b + j > from => y < j + EventsPerPage
      BY <2>3
  <2>5. y \in EventBus!Answered(from)
      BY <1>4, <2>3, <2>4
  <2> QED BY <1>5, <2>3, <2>5
<1> QED BY <1>6, <1>7, <1>9, <1>10

LEMMA RingGrows ==
    ASSUME RingOK, EventBus!Publish
    PROVE  RingOK'
<1>1. PICK k \in Nat : k = Len(events) /\ DOMAIN events = 1 .. k
    BY DEF RingOK
<1>2. PICK n \in Nat : n = busSeq + 1
  <2>1. busSeq + 1 \in Nat
      BY DEF RingOK
  <2> QED BY <2>1
<1>3. PICK longer \in Seq(Nat) : longer = Append(events, n)
  <2>1. events \in Seq(Nat)
      BY DEF RingOK
  <2>2. Append(events, n) \in Seq(Nat)
      BY <2>1, AppendProperties
  <2> QED BY <2>2
<1>4. /\ Len(longer) = k + 1 /\ longer[k + 1] = n /\ longer # <<>>
      /\ \A i \in 1 .. k : longer[i] = events[i]
    BY <1>1, <1>2, <1>3, AppendProperties DEF RingOK
<1>5. /\ busSeq' = n
      /\ events' = IF Len(longer) > Cap THEN Tail(longer) ELSE longer
    BY <1>2, <1>3 DEF EventBus!Publish
<1>6. k <= busSeq /\ \A i \in 1 .. k : events[i] = busSeq - k + i
    BY <1>1 DEF RingOK
<1>7. \A i \in 1 .. k + 1 : longer[i] = n - (k + 1) + i
  <2> SUFFICES ASSUME NEW i \in 1 .. k + 1 PROVE longer[i] = n - (k + 1) + i
      OBVIOUS
  <2>1. CASE i = k + 1
      BY <1>4, <2>1
  <2>2. CASE i \in 1 .. k
      BY <1>2, <1>4, <1>6, <2>2 DEF RingOK
  <2> QED BY <2>1, <2>2
<1>8. PICK shorter \in Seq(Nat) : shorter = Tail(longer)
    BY <1>4, HeadTailProperties
<1>9. Len(shorter) = k /\ \A i \in 1 .. k : shorter[i] = longer[i + 1]
    BY <1>4, <1>8, HeadTailProperties
<1>10. \A i \in 1 .. k : shorter[i] = n - k + i
  <2> SUFFICES ASSUME NEW i \in 1 .. k PROVE shorter[i] = n - k + i
      OBVIOUS
  <2>1. i + 1 \in 1 .. k + 1
      OBVIOUS
  <2>2. longer[i + 1] = n - (k + 1) + (i + 1)
      BY <1>7, <2>1
  <2> QED BY <1>9, <2>2
<1>11. CASE Len(longer) > Cap
  <2>1. events' = shorter /\ busSeq' = n /\ Len(shorter) = k /\ k <= n
      BY <1>2, <1>5, <1>6, <1>8, <1>9, <1>11 DEF RingOK
  <2>2. Len(events') = k /\ busSeq' \in Nat /\ events' \in Seq(Nat)
      BY <2>1
  <2> QED BY <1>10, <2>1, <2>2 DEF RingOK
<1>12. CASE ~(Len(longer) > Cap)
  <2>1. events' = longer /\ busSeq' = n /\ Len(longer) = k + 1 /\ k + 1 <= n
      BY <1>2, <1>4, <1>5, <1>6, <1>12 DEF RingOK
  <2>2. Len(events') = k + 1 /\ busSeq' \in Nat /\ events' \in Seq(Nat)
      BY <2>1
  <2> QED BY <1>7, <2>1, <2>2 DEF RingOK
<1> QED BY <1>11, <1>12

LEMMA PageGoesOn ==
    ASSUME BusInv, EventsPerPage \in Nat \ {0}, EventBus!PagePolls
    PROVE  PageOK'
<1>1. PICK from \in Nat : from = readerAt["page"]
    BY DEF BusInv, PageOK
<1>2. PICK had \in SUBSET Nat : had = given["page"]
    BY DEF BusInv, PageOK
<1>3. PICK reply : reply = Reply(from)
    OBVIOUS
<1>4. /\ reply \subseteq Nat /\ \A n \in reply : n > from
      /\ EventBus!Unbroken(reply)
      /\ EventBus!Missed(from) => reply # {}
      /\ ~EventBus!Missed(from) /\ from # 0 /\ reply # {} => from + 1 \in reply
    BY <1>3, ReplyIs DEF BusInv
<1>5. "page" \in DOMAIN given /\ "page" \in DOMAIN readerAt
    BY DEF BusInv, EventBus!Readers
<1>6. given'["page"] = IF EventBus!Missed(from) THEN reply ELSE had \cup reply
    BY <1>1, <1>2, <1>3, <1>5 DEF EventBus!PagePolls, EventBus!Gets, Reply
<1>7. \/ reply = {} /\ readerAt'["page"] = from
      \/ \E n \in reply : (\A m \in reply : m <= n) /\ readerAt'["page"] = n
    BY <1>1, <1>3, <1>5 DEF EventBus!PagePolls, Reply
<1>8. /\ 0 \notin had => /\ EventBus!Unbroken(had)
                         /\ had = {} => from = 0
                         /\ had # {} => from \in had /\ \A n \in had : n <= from
    BY <1>1, <1>2 DEF BusInv, PageOK
<1>9. CASE reply = {}
    BY <1>2, <1>4, <1>6, <1>7, <1>8, <1>9 DEF PageOK
<1>10. CASE reply # {}
  <2>1. PICK top \in reply : (\A m \in reply : m <= top) /\ readerAt'["page"] = top
      BY <1>7, <1>10
  <2>2. CASE EventBus!Missed(from)
      BY <1>4, <1>6, <1>10, <2>1, <2>2 DEF PageOK
  <2>3. CASE ~EventBus!Missed(from)
    <3>1. given'["page"] = had \cup reply /\ had \cup reply \subseteq Nat
        BY <1>2, <1>4, <1>6, <2>3
    <3>2. top \in had \cup reply /\ top \in Nat
        BY <1>4, <2>1
    <3>3. ASSUME 0 \notin had \cup reply
          PROVE  EventBus!Unbroken(had \cup reply) /\ \A n \in had \cup reply : n <= top
      <4>1. CASE had = {}
          BY <1>4, <2>1, <4>1
      <4>2. CASE had # {}
        <5>1. /\ from \in had /\ from # 0 /\ from + 1 \in reply /\ EventBus!Unbroken(had)
              /\ \A n \in had : n <= from
            BY <1>4, <1>8, <1>10, <2>3, <3>3, <4>2
        <5>2. \A n \in had : n <= top
            BY <1>2, <1>4, <2>1, <5>1
        <5>3. ASSUME NEW m \in had \cup reply, NEW n \in had \cup reply, NEW x \in m .. n
              PROVE  x \in had \cup reply
          <6>1. CASE m \in had /\ n \in had
              BY <5>1, <6>1 DEF EventBus!Unbroken
          <6>2. CASE m \in reply /\ n \in reply
              BY <1>4, <6>2 DEF EventBus!Unbroken
          <6>3. CASE m \in had /\ n \in reply
            <7>1. m .. from \subseteq had /\ from + 1 .. n \subseteq reply
                BY <1>4, <5>1, <6>3 DEF EventBus!Unbroken
            <7>2. x \in m .. from \/ x \in from + 1 .. n
                BY <1>2, <1>4, <6>3
            <7> QED BY <7>1, <7>2
          <6>4. CASE m \in reply /\ n \in had
              BY <1>2, <1>4, <5>1, <6>4
          <6> QED BY <6>1, <6>2, <6>3, <6>4
        <5>4. EventBus!Unbroken(had \cup reply)
            BY <5>3 DEF EventBus!Unbroken
        <5> QED BY <2>1, <5>2, <5>4
      <4> QED BY <4>1, <4>2
    <3> QED BY <2>1, <3>1, <3>2, <3>3 DEF PageOK
  <2> QED BY <2>2, <2>3
<1> QED BY <1>9, <1>10

LEMMA BusInductive == EventBus!Spec => []BusInv
<1>1. EventBus!Init => BusInv
  <2> SUFFICES ASSUME EventBus!Init PROVE BusInv
      OBVIOUS
  <2>1. /\ busSeq = 0 /\ events = <<>>
        /\ readerAt = [r \in EventBus!Readers |-> 0] /\ given = [r \in EventBus!Readers |-> {}]
      BY DEF EventBus!Init
  <2>2. given["page"] = {} /\ readerAt["page"] = 0
      BY <2>1 DEF EventBus!Readers
  <2>3. RingOK
      BY <2>1, EmptySeq DEF RingOK
  <2>4. PageOK
      BY <2>2 DEF PageOK, EventBus!Unbroken
  <2> QED BY <2>1, <2>3, <2>4 DEF BusInv
<1>2. BusInv /\ [EventBus!Next]_EventBus!vars => BusInv'
  <2> SUFFICES ASSUME BusInv, [EventBus!Next]_EventBus!vars PROVE BusInv'
      OBVIOUS
  <2>0. /\ EventsPerPage \in Nat \ {0} /\ RingOK /\ PageOK /\ "page" \in EventBus!Readers
        /\ DOMAIN given = EventBus!Readers /\ DOMAIN readerAt = EventBus!Readers
      BY PartsAssumption DEF PartsAssumption, EventBus!BusAssumption, BusInv, EventBus!Readers
  <2>1. CASE EventBus!Publish
    <3>1. RingOK' /\ UNCHANGED <<readerAt, given>>
        BY <2>0, <2>1, RingGrows DEF EventBus!Publish
    <3> QED BY <2>0, <3>1 DEF BusInv, PageOK, EventBus!Unbroken
  <2>2. CASE EventBus!PagePolls
    <3>1. PageOK'
        BY <2>0, <2>2, PageGoesOn
    <3>2. /\ UNCHANGED <<busSeq, events>>
          /\ DOMAIN given' = EventBus!Readers /\ DOMAIN readerAt' = EventBus!Readers
        BY <2>0, <2>2 DEF EventBus!PagePolls, EventBus!Gets
    <3> QED BY <2>0, <3>1, <3>2 DEF BusInv, RingOK
  <2>3. CASE EventBus!MirrorPolls
    <3>1. /\ UNCHANGED <<busSeq, events>>
          /\ DOMAIN given' = EventBus!Readers /\ DOMAIN readerAt' = EventBus!Readers
          /\ given'["page"] = given["page"] /\ readerAt'["page"] = readerAt["page"]
        BY <2>0, <2>3 DEF EventBus!MirrorPolls, EventBus!Gets
    <3> QED BY <2>0, <3>1 DEF BusInv, RingOK, PageOK, EventBus!Unbroken
  <2>4. CASE EventBus!Restart
    <3>1. /\ busSeq' = 0 /\ events' = <<>> /\ readerAt' = readerAt
          /\ DOMAIN given' = EventBus!Readers
          /\ given'["page"] = IF readerAt["page"] = 0 THEN {} ELSE {0}
        BY <2>0, <2>4 DEF EventBus!Restart
    <3>2. RingOK'
        BY <3>1, EmptySeq DEF RingOK
    <3>3. PageOK'
        BY <2>0, <3>1 DEF PageOK, EventBus!Unbroken
    <3> QED BY <2>0, <3>1, <3>2, <3>3 DEF BusInv
  <2>5. CASE EventBus!Reload
    <3>1. /\ UNCHANGED <<busSeq, events>>
          /\ DOMAIN given' = EventBus!Readers /\ DOMAIN readerAt' = EventBus!Readers
          /\ given'["page"] = {} /\ readerAt'["page"] = 0
        BY <2>0, <2>5 DEF EventBus!Reload
    <3> QED BY <2>0, <3>1 DEF BusInv, RingOK, PageOK, EventBus!Unbroken
  <2>6. CASE UNCHANGED EventBus!vars
      BY <2>6 DEF EventBus!vars, BusInv, RingOK, PageOK, EventBus!Unbroken
  <2> QED BY <2>1, <2>2, <2>3, <2>4, <2>5, <2>6 DEF EventBus!Next
<1> QED BY <1>1, <1>2, PTL DEF EventBus!Spec

\* What a page got since it was last told of a gap has none, however far the ring has
\* moved on between its polls (EventBus!PageIsTold).
THEOREM GapsAreTold == EventBus!Spec => []EventBus!PageIsTold
<1>1. BusInv => EventBus!PageIsTold
    BY DEF BusInv, PageOK, EventBus!PageIsTold
<1> QED BY BusInductive, <1>1, PTL

-----------------------------------------------------------------------------
(* The input log (InputLog).                                               *)

FileNumbers == 1 .. KeptFiles + 1

\* What is in the files fs of n lines: older files have older lines, nothing is
\* missing after the oldest line that is there, and the oldest file is full if a line
\* is gone.
FilesOK(fs, n) ==
    /\ n \in Nat /\ fs \in [FileNumbers -> SUBSET (1 .. n)]
    /\ \A i, h \in FileNumbers : h < i => \A a \in fs[i], b \in fs[h] : a < b
    /\ \A i \in FileNumbers : \A a \in fs[i], b \in 1 .. n :
          b > a => \E h \in FileNumbers : b \in fs[h]
    /\ \A i \in 2 .. KeptFiles + 1 : fs[i] # {} => InputLog!IsLong(fs[i])
    /\ n > 0 => (\E i \in FileNumbers : 1 \in fs[i]) \/ fs[KeptFiles + 1] # {}

\* One thread rotates at a time; where it is, a file that is still to be moved has
\* its place free, unless it takes the oldest's.
MovesOK ==
    /\ nextFile \in 1 .. KeptFiles
    /\ \A t, u \in Publishers : logPc[t] = "rotates" /\ logPc[u] = "rotates" => t = u
    /\ \A t \in Publishers : logPc[t] = "rotates" =>
          /\ InputLog!IsLong(files[1])
          /\ nextFile < KeptFiles => files[nextFile + 1] = {}

LogInv == FilesOK(files, written) /\ MovesOK /\ DOMAIN logPc = Publishers

LEMMA LineIsAdded ==
    ASSUME KeptFiles \in Nat \ {0}, NEW fs, NEW n, FilesOK(fs, n), NEW new,
           new = [fs EXCEPT ![1] = @ \cup {n + 1}]
    PROVE  FilesOK(new, n + 1)
<1>1. n \in Nat /\ fs \in [FileNumbers -> SUBSET (1 .. n)] /\ 1 \in FileNumbers
    BY DEF FilesOK, FileNumbers
<1>2. /\ new[1] = fs[1] \cup {n + 1} /\ DOMAIN new = FileNumbers
      /\ \A i \in FileNumbers : i # 1 => new[i] = fs[i]
    BY <1>1
<1>3. \A i \in FileNumbers : fs[i] \subseteq 1 .. n /\ fs[i] \subseteq new[i]
    BY <1>1, <1>2
<1>4. new \in [FileNumbers -> SUBSET (1 .. n + 1)]
    BY <1>1, <1>2, <1>3
<1>5. ASSUME NEW i \in FileNumbers, NEW h \in FileNumbers, h < i, NEW a \in new[i], NEW b \in new[h]
      PROVE  a < b
  <2>1. i # 1 /\ a \in fs[i] /\ a <= n
      BY <1>1, <1>2, <1>3, <1>5 DEF FileNumbers
  <2>2. b \in fs[h] \/ b = n + 1
      BY <1>2
  <2> QED BY <1>1, <1>3, <1>5, <2>1, <2>2 DEF FilesOK
<1>6. ASSUME NEW i \in FileNumbers, NEW a \in new[i], NEW b \in 1 .. n + 1, b > a
      PROVE  \E h \in FileNumbers : b \in new[h]
  <2>1. CASE b = n + 1
      BY <1>1, <1>2, <2>1
  <2>2. CASE b \in 1 .. n
    <3>1. a \in fs[i]
        BY <1>1, <1>2, <1>6, <2>2
    <3>2. PICK h \in FileNumbers : b \in fs[h]
        BY <1>6, <2>2, <3>1 DEF FilesOK
    <3> QED BY <1>3, <3>2
  <2> QED BY <1>1, <2>1, <2>2
<1>7. \A i \in 2 .. KeptFiles + 1 : i \in FileNumbers /\ i # 1
    BY DEF FileNumbers
<1>8. \A i \in 2 .. KeptFiles + 1 : new[i] # {} => InputLog!IsLong(new[i])
    BY <1>2, <1>7 DEF FilesOK
<1>9. (\E i \in FileNumbers : 1 \in new[i]) \/ new[KeptFiles + 1] # {}
  <2>1. CASE n = 0
      BY <1>1, <1>2, <2>1
  <2>2. CASE n > 0
      BY <1>3, <2>2 DEF FilesOK, FileNumbers
  <2> QED BY <1>1, <2>1, <2>2
<1> QED BY <1>1, <1>4, <1>5, <1>6, <1>8, <1>9 DEF FilesOK

\* A file that takes a free place, or the oldest's, loses no line before its turn.
LEMMA FileIsMoved ==
    ASSUME KeptFiles \in Nat \ {0}, NEW fs, NEW n, FilesOK(fs, n), NEW k \in 1 .. KeptFiles,
           fs[k] # {}, InputLog!IsLong(fs[k]), k < KeptFiles => fs[k + 1] = {},
           NEW new, new = [fs EXCEPT ![k + 1] = fs[k], ![k] = {}]
    PROVE  FilesOK(new, n)
<1>1. /\ n \in Nat /\ fs \in [FileNumbers -> SUBSET (1 .. n)]
      /\ k \in FileNumbers /\ k + 1 \in FileNumbers /\ k # k + 1
    BY DEF FilesOK, FileNumbers
<1>2. /\ new[k + 1] = fs[k] /\ new[k] = {} /\ DOMAIN new = FileNumbers
      /\ \A i \in FileNumbers : i # k /\ i # k + 1 => new[i] = fs[i]
    BY <1>1
<1>3. new \in [FileNumbers -> SUBSET (1 .. n)]
    BY <1>1, <1>2
<1>4. ASSUME NEW i \in FileNumbers, NEW h \in FileNumbers, h < i, NEW a \in new[i], NEW b \in new[h]
      PROVE  a < b
  <2>1. CASE i = k + 1
    <3>1. h < k /\ a \in fs[k] /\ b \in fs[h]
        BY <1>1, <1>2, <1>4, <2>1 DEF FileNumbers
    <3> QED BY <1>1, <3>1 DEF FilesOK
  <2>2. CASE h = k + 1
    <3>1. k < i /\ a \in fs[i] /\ b \in fs[k]
        BY <1>1, <1>2, <1>4, <2>2 DEF FileNumbers
    <3> QED BY <1>1, <3>1 DEF FilesOK
  <2>3. CASE i # k + 1 /\ h # k + 1
    <3>1. a \in fs[i] /\ b \in fs[h]
        BY <1>2, <1>4, <2>3
    <3> QED BY <1>4, <3>1 DEF FilesOK
  <2> QED BY <2>1, <2>2, <2>3
<1>5. ASSUME NEW i \in FileNumbers, NEW a \in new[i]
      PROVE  \E h \in FileNumbers : a \in fs[h] /\ (k = KeptFiles => h < k + 1)
    BY <1>1, <1>2, <1>5 DEF FileNumbers
<1>6. ASSUME NEW i \in FileNumbers, NEW a \in new[i], NEW b \in 1 .. n, b > a
      PROVE  \E h \in FileNumbers : b \in new[h]
  <2>1. PICK g \in FileNumbers : a \in fs[g] /\ (k = KeptFiles => g < k + 1)
      BY <1>5
  <2>2. PICK h \in FileNumbers : b \in fs[h]
      BY <1>6, <2>1 DEF FilesOK
  <2>3. h # k + 1
    <3>1. CASE k = KeptFiles
      <4>1. h = k + 1 => b < a
          BY <1>1, <2>1, <2>2, <3>1 DEF FilesOK
      <4> QED BY <1>1, <1>3, <1>6, <4>1
    <3>2. CASE k < KeptFiles
        BY <2>2, <3>2
    <3> QED BY <3>1, <3>2
  <2> QED BY <1>1, <1>2, <2>2, <2>3
<1>7. \A i \in 2 .. KeptFiles + 1 : new[i] # {} => InputLog!IsLong(new[i])
  <2> SUFFICES ASSUME NEW i \in 2 .. KeptFiles + 1, new[i] # {} PROVE InputLog!IsLong(new[i])
      OBVIOUS
  <2>1. i \in FileNumbers
      BY DEF FileNumbers
  <2> QED BY <1>2, <2>1 DEF FilesOK
<1>8. n > 0 => (\E i \in FileNumbers : 1 \in new[i]) \/ new[KeptFiles + 1] # {}
  <2>1. CASE k = KeptFiles
      BY <1>2, <2>1
  <2>2. CASE k < KeptFiles
    <3>1. KeptFiles + 1 \in FileNumbers /\ (KeptFiles + 1 # k + 1) /\ KeptFiles + 1 # k
        BY <2>2 DEF FileNumbers
    <3>2. new[KeptFiles + 1] = fs[KeptFiles + 1]
        BY <1>2, <3>1
    <3>3. \A i \in FileNumbers : 1 \in fs[i] => \E h \in FileNumbers : 1 \in new[h]
        BY <1>1, <1>2, <2>2
    <3> QED BY <3>2, <3>3 DEF FilesOK
  <2>3. k = KeptFiles \/ k < KeptFiles
      OBVIOUS
  <2> QED BY <2>1, <2>2, <2>3
<1> QED BY <1>1, <1>3, <1>4, <1>6, <1>7, <1>8 DEF FilesOK

LEMMA LogStep ==
    ASSUME KeptFiles \in Nat \ {0}, LogInv, InputLog!Next
    PROVE  LogInv'
<1>0. /\ FilesOK(files, written) /\ MovesOK /\ DOMAIN logPc = Publishers
      /\ written \in Nat /\ DOMAIN files = FileNumbers /\ 1 \in FileNumbers
    BY DEF LogInv, FilesOK, FileNumbers
<1>1. ASSUME UNCHANGED <<nextFile, files, written>>, DOMAIN logPc' = Publishers,
             \A t \in Publishers : logPc'[t] = "rotates" => logPc[t] = "rotates"
      PROVE  LogInv'
    BY <1>0, <1>1 DEF LogInv, MovesOK, FilesOK
<1>2. CASE InputLog!Restart
    BY <1>0, <1>1, <1>2 DEF InputLog!Restart
<1>3. ASSUME NEW t \in Publishers,
             InputLog!Publish(t) \/ InputLog!RecordFails(t) \/ InputLog!MoveFails(t)
      PROVE  LogInv'
  <2>1. PICK s \in {"published", "idle"} : logPc' = [logPc EXCEPT ![t] = s]
      BY <1>3 DEF InputLog!Publish, InputLog!RecordFails, InputLog!MoveFails
  <2>2. UNCHANGED <<nextFile, files, written>>
      BY <1>3 DEF InputLog!Publish, InputLog!RecordFails, InputLog!MoveFails
  <2> QED BY <1>0, <1>1, <2>1, <2>2
<1>4. ASSUME NEW t \in Publishers, NEW whole \in BOOLEAN, InputLog!Record(t, whole)
      PROVE  LogInv'
  <2>1. /\ \A u \in Publishers : logPc[u] # "rotates"
        /\ written' = written + 1 /\ files' = [files EXCEPT ![1] = @ \cup {written + 1}]
        /\ \/ /\ InputLog!IsLong(files'[1]) /\ logPc' = [logPc EXCEPT ![t] = "rotates"]
              /\ nextFile' = KeptFiles
           \/ logPc' = [logPc EXCEPT ![t] = "idle"] /\ nextFile' = nextFile
      BY <1>4 DEF InputLog!Record, InputLog!Unlocked
  <2>2. FilesOK(files, written)'
    <3>1. PICK fs, n, new : fs = files /\ n = written /\ new = [fs EXCEPT ![1] = @ \cup {n + 1}]
        OBVIOUS
    <3>2. FilesOK(new, n + 1)
        BY <1>0, <3>1, LineIsAdded
    <3>3. files' = new /\ written' = n + 1
        BY <2>1, <3>1
    <3> QED BY <3>2, <3>3 DEF FilesOK
  <2>3. MovesOK' /\ DOMAIN logPc' = Publishers
    <3>1. CASE InputLog!IsLong(files'[1]) /\ logPc' = [logPc EXCEPT ![t] = "rotates"]
               /\ nextFile' = KeptFiles
        BY <1>0, <2>1, <3>1 DEF MovesOK, InputLog!IsLong
    <3>2. CASE logPc' = [logPc EXCEPT ![t] = "idle"] /\ nextFile' = nextFile
        BY <1>0, <2>1, <3>2 DEF MovesOK
    <3> QED BY <2>1, <3>1, <3>2
  <2> QED BY <2>2, <2>3 DEF LogInv
<1>5. ASSUME NEW t \in Publishers, InputLog!Moves(t) PROVE LogInv'
  <2>1. PICK k \in 1 .. KeptFiles : k = nextFile
      BY <1>0 DEF MovesOK
  <2>2. /\ logPc[t] = "rotates" /\ InputLog!IsLong(files[1])
        /\ k < KeptFiles => files[k + 1] = {}
        /\ written' = written
        /\ files' = IF files[k] = {} THEN files ELSE [files EXCEPT ![k + 1] = files[k], ![k] = {}]
        /\ IF k = 1 THEN logPc' = [logPc EXCEPT ![t] = "idle"] /\ nextFile' = nextFile
                    ELSE nextFile' = k - 1 /\ logPc' = logPc
      BY <1>0, <1>5, <2>1 DEF InputLog!Moves, MovesOK
  <2>3. FilesOK(files, written)'
    <3>1. CASE files[k] = {}
        BY <1>0, <2>2, <3>1 DEF FilesOK
    <3>2. CASE files[k] # {}
      <4>1. InputLog!IsLong(files[k])
        <5>1. k \in 2 .. KeptFiles + 1 \/ k = 1
            OBVIOUS
        <5> QED BY <1>0, <2>2, <3>2, <5>1 DEF FilesOK
      <4>2. PICK fs, n, new : /\ fs = files /\ n = written
                              /\ new = [fs EXCEPT ![k + 1] = fs[k], ![k] = {}]
          OBVIOUS
      <4>3. FilesOK(new, n)
          BY <1>0, <2>2, <3>2, <4>1, <4>2, FileIsMoved
      <4>4. files' = new /\ written' = n
          BY <2>2, <3>2, <4>2
      <4> QED BY <4>3, <4>4 DEF FilesOK
    <3> QED BY <3>1, <3>2
  <2>4. MovesOK' /\ DOMAIN logPc' = Publishers
    <3>1. CASE k = 1
      <4>1. /\ nextFile' \in 1 .. KeptFiles /\ DOMAIN logPc' = Publishers
            /\ \A u \in Publishers : logPc'[u] # "rotates"
          BY <1>0, <2>1, <2>2, <3>1 DEF MovesOK
      <4> QED BY <4>1 DEF MovesOK
    <3>2. CASE k # 1
      <4>1. files'[1] = files[1] /\ files'[k] = {}
        <5>1. 1 # k /\ 1 # k + 1 /\ k \in FileNumbers /\ k # k + 1 /\ k + 1 \in FileNumbers
            BY <3>2 DEF FileNumbers
        <5> QED BY <1>0, <2>2, <5>1
      <4>2. nextFile' = k - 1 /\ k - 1 \in 1 .. KeptFiles /\ nextFile' + 1 = k /\ logPc' = logPc
          BY <2>2, <3>2
      <4> QED BY <1>0, <2>2, <4>1, <4>2 DEF MovesOK, InputLog!IsLong
    <3> QED BY <3>1, <3>2
  <2> QED BY <2>3, <2>4 DEF LogInv
<1> QED BY <1>2, <1>3, <1>4, <1>5 DEF InputLog!Next

LEMMA LogInductive == InputLog!Spec => []LogInv
<1>0. KeptFiles \in Nat \ {0}
    BY PartsAssumption DEF PartsAssumption, InputLog!LogAssumption
<1>1. InputLog!Init => LogInv
  <2> SUFFICES ASSUME InputLog!Init PROVE LogInv
      OBVIOUS
  <2>1. /\ files = [i \in FileNumbers |-> {}] /\ written = 0 /\ nextFile = KeptFiles
        /\ logPc = [t \in Publishers |-> "idle"]
      BY DEF InputLog!Init, FileNumbers
  <2>2. \A i \in 2 .. KeptFiles + 1 : i \in FileNumbers
      BY DEF FileNumbers
  <2>3. FilesOK(files, written)
      BY <2>1, <2>2 DEF FilesOK
  <2>4. MovesOK
      BY <1>0, <2>1 DEF MovesOK
  <2> QED BY <2>1, <2>3, <2>4 DEF LogInv
<1>2. LogInv /\ [InputLog!Next]_InputLog!vars => LogInv'
  <2>1. CASE InputLog!Next
      BY <1>0, <2>1, LogStep
  <2>2. CASE UNCHANGED InputLog!vars
      BY <2>2 DEF InputLog!vars, LogInv, MovesOK, FilesOK
  <2> QED BY <2>1, <2>2
<1> QED BY <1>1, <1>2, PTL DEF InputLog!Spec

\* What the log's files hold is read in the order of writing, without a hole down to
\* the last line written but for torn lines and the ones right after them, and nothing
\* is lost at the old end before a full file takes its place: over rotations that fail
\* or end half-way, and over restarts (InputLog!LogKeepsLines).
THEOREM LinesAreKept == InputLog!Spec => []InputLog!LogKeepsLines
<1>1. LogInv => InputLog!LogKeepsLines
  <2> SUFFICES ASSUME LogInv PROVE InputLog!LogKeepsLines
      OBVIOUS
  <2>1. /\ FilesOK(files, written) /\ DOMAIN files = FileNumbers /\ written \in Nat
        /\ KeptFiles + 1 \in 2 .. KeptFiles + 1
      BY PartsAssumption DEF LogInv, FilesOK, PartsAssumption, InputLog!LogAssumption
  <2>2. \A i, h \in DOMAIN files : h < i => \A m \in files[i], n \in files[h] : m < n
      BY <2>1 DEF FilesOK
  <2>3. ASSUME NEW m \in InputLog!ReadBack, NEW n \in 1 .. written, n > m,
               n \notin torn, n - 1 \notin torn
        PROVE  n \in InputLog!ReadBack
    <3>1. PICK i \in FileNumbers : m \in files[i]
        BY <2>1 DEF InputLog!ReadBack, InputLog!Readable
    <3>2. PICK h \in FileNumbers : n \in files[h]
        BY <2>1, <2>3, <3>1 DEF FilesOK
    <3>3. n \in InputLog!Readable(h)
        BY <2>3, <3>2 DEF InputLog!Readable
    <3> QED BY <2>1, <3>3 DEF InputLog!ReadBack
  <2>4. written > 0 => \/ \E i \in DOMAIN files : 1 \in files[i]
                       \/ InputLog!IsLong(files[KeptFiles + 1])
      BY <2>1 DEF FilesOK
  <2>5. \A m \in InputLog!ReadBack, n \in 1 .. written :
            n > m => n \in InputLog!ReadBack \/ {n, n - 1} \cap torn # {}
      BY <2>3
  <2> QED BY <2>2, <2>4, <2>5 DEF InputLog!LogKeepsLines
<1> QED BY LogInductive, <1>1, PTL

-----------------------------------------------------------------------------
(* The pointer's queue (PointerQueue).                                     *)

\* Steps of a move: what they have sent of it after i of n.
SentAfter(px, n, i) == (px * i) \div n

\* What the worker holds: nothing, a move of which it has sent some steps, or
\* one that is sent, and all that wait for it with it.
HandHolds(h) ==
    /\ h.px \in Int /\ h.all \in Int /\ h.step \in Nat /\ h.seq \in Nat
    /\ \/ h = PointerQueue!None
       \/ h.at = "taken" /\ h.px = h.all /\ h.step = 0
       \/ /\ h.at = "sending" /\ h.step < PointerQueue!StepCount(h.all)
          /\ h.px = h.all - SentAfter(h.all, PointerQueue!StepCount(h.all), h.step)
       \/ h.at = "sent" /\ h.px = 0

Carries(h) ==
    h.at # "none" =>
        /\ h.seq <= pointerSeq /\ h.carries = PointerQueue!Between(done, h.seq)
        /\ h.at = "sent" => h.carries \subseteq gone

QueueOK ==
    /\ HandHolds(hand) /\ Carries(hand)
    /\ pq \in Int /\ owed = pq + hand.px

\* Requests are counted; what is said to be done has gone.
CountsOK ==
    /\ pointerSeq \in 0 .. MostMoves /\ done \in 0 .. pointerSeq
    /\ \A m \in 1 .. done : m \in gone
    /\ DOMAIN wait = Movers
    /\ \A t \in Movers :
         \/ wait[t] = PointerQueue!NotIn
         \/ wait[t].at = "waits" /\ wait[t].mine \in 1 .. pointerSeq

PointerInv == QueueOK /\ CountsOK

LEMMA StepsCounted ==
    ASSUME NEW a \in Int
    PROVE  PointerQueue!StepCount(a) \in Nat \ {0}
<1>1. Widest \in Nat \ {0}
    BY PartsAssumption DEF PartsAssumption, PointerQueue!QueueAssumption
<1>2. PICK b \in Nat : b = PointerQueue!Abs(a)
    BY DEF PointerQueue!Abs
<1>3. CASE b > Widest
  <2>1. PICK c \in Nat : c = b + Widest - 1 /\ c >= Widest
      BY <1>1, <1>3
  <2>2. c \div Widest \in Int /\ c \div Widest >= 1
      BY <1>1, <2>1
  <2> QED BY <1>2, <1>3, <2>1, <2>2 DEF PointerQueue!StepCount
<1>4. CASE ~(b > Widest)
    BY <1>2, <1>4 DEF PointerQueue!StepCount
<1> QED BY <1>3, <1>4

LEMMA StepsAddUp ==
    ASSUME NEW a \in Int, NEW n \in Nat \ {0}, NEW i \in Nat
    PROVE  /\ SentAfter(a, n, i) \in Int
           /\ SentAfter(a, n, 0) = 0 /\ SentAfter(a, n, n) = a
           /\ PointerQueue!Step(a, n, i) = SentAfter(a, n, i + 1) - SentAfter(a, n, i)
<1>1. a * i \in Int /\ a * 0 = 0
    OBVIOUS
<1>2. (a * i) \div n \in Int
    BY <1>1
<1>3. (a * n) \div n = a
    OBVIOUS
<1> QED BY <1>1, <1>2, <1>3 DEF SentAfter, PointerQueue!Step

LEMMA BetweenIs ==
    ASSUME NEW a \in 0 .. MostMoves, NEW b \in 0 .. MostMoves, NEW m \in 1 .. b, m > a
    PROVE  m \in PointerQueue!Between(a, b)
<1>1. MostMoves \in Nat
    BY PartsAssumption DEF PartsAssumption, PointerQueue!QueueAssumption
<1> QED BY <1>1 DEF PointerQueue!Between

\* The worker goes on with the move it has.
LEMMA HandGoesOn ==
    ASSUME PointerInv, NEW h, h = hand', HandHolds(h), h.at # "none",
           NEW px \in Int, h.px = hand.px - px, owed' = owed - px,
           hand.at # "none", h.seq = hand.seq, h.carries = hand.carries,
           gone' = IF h.at = "sent" THEN gone \cup hand.carries ELSE gone,
           UNCHANGED <<pq, who, pointerSeq, done, wait>>
    PROVE  PointerInv'
<1>1. QueueOK /\ CountsOK /\ HandHolds(hand) /\ Carries(hand) /\ pq \in Int /\ hand.px \in Int
    BY DEF PointerInv, QueueOK, HandHolds
<1>2. Carries(h)'
    BY <1>1 DEF Carries
<1>3. owed' = pq' + hand'.px
    BY <1>1 DEF QueueOK
<1>4. QueueOK'
    BY <1>1, <1>2, <1>3 DEF QueueOK
<1>5. CountsOK'
    BY <1>1 DEF CountsOK
<1> QED BY <1>4, <1>5 DEF PointerInv

LEMMA PointerStep ==
    ASSUME PointerInv, PointerQueue!Next
    PROVE  PointerInv'
<1>0. /\ QueueOK /\ CountsOK /\ HandHolds(hand) /\ Carries(hand)
      /\ pq \in Int /\ owed = pq + hand.px
      /\ MostMoves \in Nat /\ pointerSeq \in Nat /\ done \in Nat /\ hand.px \in Int
    BY PartsAssumption DEF PointerInv, QueueOK, CountsOK, HandHolds, PartsAssumption,
                           PointerQueue!QueueAssumption
<1>1. CASE PointerQueue!LockChanges
  <2>1. UNCHANGED <<pq, who, pointerSeq, done, hand, wait, owed, gone>>
      BY <1>1 DEF PointerQueue!LockChanges
  <2> QED BY <1>0, <2>1 DEF PointerInv, QueueOK, CountsOK, Carries
<1>2. CASE PointerQueue!Rest
  <2>1. /\ hand = PointerQueue!None /\ done' = pointerSeq
        /\ gone' = gone \cup PointerQueue!Between(done, pointerSeq)
        /\ UNCHANGED <<pq, who, pointerSeq, hand, wait, owed>>
      BY <1>2 DEF PointerQueue!Rest
  <2>2. QueueOK'
      BY <1>0, <2>1 DEF QueueOK, Carries, PointerQueue!None
  <2>3. \A m \in 1 .. pointerSeq : m \in gone'
      BY <1>0, <2>1, BetweenIs DEF CountsOK
  <2>4. CountsOK'
      BY <1>0, <2>1, <2>3 DEF CountsOK
  <2> QED BY <2>2, <2>4 DEF PointerInv
<1>3. CASE PointerQueue!Take
  <2>1. /\ hand = PointerQueue!None /\ pq' = 0
        /\ hand' = [at |-> "taken", px |-> pq, all |-> pq, step |-> 0, seq |-> pointerSeq,
                    who |-> who, carries |-> PointerQueue!Between(done, pointerSeq)]
        /\ UNCHANGED <<who, pointerSeq, done, wait, owed, gone>>
      BY <1>3 DEF PointerQueue!Take
  <2>2. PICK h : h = hand'
      OBVIOUS
  <2>3. HandHolds(h)
      BY <1>0, <2>1, <2>2 DEF HandHolds
  <2>4. Carries(h)'
      BY <1>0, <2>1, <2>2 DEF Carries
  <2>5. owed' = pq' + hand'.px
      BY <1>0, <2>1 DEF PointerQueue!None
  <2> QED BY <1>0, <2>1, <2>2, <2>3, <2>4, <2>5 DEF PointerInv, QueueOK, CountsOK
<1>5. CASE PointerQueue!Check
  <2>0. /\ hand.at = "taken" /\ UNCHANGED <<pq, who, pointerSeq, done, wait>>
        /\ hand.px = hand.all /\ hand.step = 0 /\ hand.all \in Int /\ hand.seq \in Nat
      BY <1>0, <1>5 DEF PointerQueue!Check, HandHolds, PointerQueue!None
  <2>1. CASE hand' = [hand EXCEPT !.at = "sending"] /\ UNCHANGED <<owed, gone>>
    <3>1. PICK h : h = [hand EXCEPT !.at = "sending"]
        OBVIOUS
    <3>2. /\ h = hand' /\ h.at = "sending" /\ h.px = hand.px /\ h.all = hand.all /\ h.step = 0
          /\ h.seq = hand.seq /\ h.carries = hand.carries
        BY <2>0, <2>1, <3>1
    <3>3. /\ PointerQueue!StepCount(h.all) \in Nat \ {0}
          /\ SentAfter(h.all, PointerQueue!StepCount(h.all), 0) = 0
        BY <2>0, <3>2, StepsCounted, StepsAddUp
    <3>4. HandHolds(h)
        BY <2>0, <3>2, <3>3 DEF HandHolds
    <3>5. PICK px \in Int : px = 0
        OBVIOUS
    <3>6. /\ h.px = hand.px - px /\ owed' = owed - px
          /\ gone' = IF h.at = "sent" THEN gone \cup hand.carries ELSE gone
        BY <1>0, <2>1, <3>2, <3>5
    <3> QED BY <2>0, <3>2, <3>4, <3>6, HandGoesOn
  <2>2. CASE /\ hand' = [hand EXCEPT !.at = "sent", !.px = 0]
             /\ owed' = owed - hand.px /\ gone' = gone \cup hand.carries
    <3>1. PICK h : h = [hand EXCEPT !.at = "sent", !.px = 0]
        OBVIOUS
    <3>2. /\ h = hand' /\ h.at = "sent" /\ h.px = 0 /\ h.all = hand.all /\ h.step = 0
          /\ h.seq = hand.seq /\ h.carries = hand.carries
        BY <2>0, <2>2, <3>1
    <3>3. HandHolds(h)
        BY <2>0, <3>2 DEF HandHolds
    <3>4. PICK px \in Int : px = hand.px
        BY <1>0
    <3>5. /\ h.px = hand.px - px /\ owed' = owed - px
          /\ gone' = IF h.at = "sent" THEN gone \cup hand.carries ELSE gone
        BY <1>0, <2>2, <3>2, <3>4
    <3> QED BY <2>0, <3>2, <3>3, <3>5, HandGoesOn
  <2> QED BY <1>5, <2>1, <2>2 DEF PointerQueue!Check
<1>6. CASE PointerQueue!SendStep
  <2>0. /\ hand.at = "sending" /\ UNCHANGED <<pq, who, pointerSeq, done, wait>>
        /\ hand.all \in Int /\ hand.seq \in Nat /\ hand.step \in Nat
        /\ hand.step < PointerQueue!StepCount(hand.all)
        /\ hand.px = hand.all - SentAfter(hand.all, PointerQueue!StepCount(hand.all), hand.step)
      BY <1>0, <1>6 DEF PointerQueue!SendStep, HandHolds, PointerQueue!None
  <2>1. PICK a \in Int, i \in Nat : a = hand.all /\ i = hand.step
      BY <2>0
  <2>2. PICK n \in Nat \ {0} : n = PointerQueue!StepCount(a)
      BY StepsCounted
  <2>3. PICK px : px = PointerQueue!Step(a, n, i)
      OBVIOUS
  <2>4. /\ hand' = [hand EXCEPT !.at = IF i + 1 = n THEN "sent" ELSE "sending",
                                !.px = @ - px, !.step = @ + 1]
        /\ owed' = owed - px
        /\ gone' = IF i + 1 = n THEN gone \cup hand.carries ELSE gone
      BY <1>6, <2>1, <2>2, <2>3 DEF PointerQueue!SendStep
  <2>5. /\ px = SentAfter(a, n, i + 1) - SentAfter(a, n, i) /\ px \in Int
        /\ SentAfter(a, n, i + 1) \in Int /\ SentAfter(a, n, i) \in Int
        /\ SentAfter(a, n, n) = a
      BY <2>3, StepsAddUp
  <2>6. PICK h : h = hand'
      OBVIOUS
  <2>7. /\ h.at = (IF i + 1 = n THEN "sent" ELSE "sending") /\ h.px = hand.px - px
        /\ h.step = i + 1 /\ h.all = a /\ h.seq = hand.seq /\ h.carries = hand.carries
      BY <2>0, <2>1, <2>4, <2>6
  <2>8. h.px = a - SentAfter(a, n, i + 1)
      BY <2>0, <2>1, <2>2, <2>5, <2>7
  <2>9. HandHolds(h)
    <3>1. CASE i + 1 = n
        BY <2>0, <2>1, <2>2, <2>5, <2>7, <2>8, <3>1 DEF HandHolds
    <3>2. CASE i + 1 # n
        BY <2>0, <2>1, <2>2, <2>5, <2>7, <2>8, <3>2 DEF HandHolds
    <3> QED BY <3>1, <3>2
  <2>10. gone' = IF h.at = "sent" THEN gone \cup hand.carries ELSE gone
      BY <2>4, <2>7
  <2> QED BY <2>0, <2>4, <2>5, <2>6, <2>7, <2>9, <2>10, HandGoesOn
<1>7. CASE PointerQueue!SendFails
  <2>0. /\ hand.at = "sending" /\ UNCHANGED <<pq, who, pointerSeq, done, wait>>
        /\ hand' = [hand EXCEPT !.at = "sent", !.px = 0]
        /\ owed' = owed - hand.px /\ gone' = gone \cup hand.carries
        /\ hand.all \in Int /\ hand.seq \in Nat /\ hand.step \in Nat
      BY <1>0, <1>7 DEF PointerQueue!SendFails, HandHolds
  <2>1. PICK h : h = [hand EXCEPT !.at = "sent", !.px = 0]
      OBVIOUS
  <2>2. /\ h = hand' /\ h.at = "sent" /\ h.px = 0 /\ h.all = hand.all /\ h.step = hand.step
        /\ h.seq = hand.seq /\ h.carries = hand.carries
      BY <2>0, <2>1
  <2>3. HandHolds(h)
      BY <2>0, <2>2 DEF HandHolds
  <2>4. PICK px \in Int : px = hand.px
      BY <1>0
  <2>5. /\ h.px = hand.px - px /\ owed' = owed - px
        /\ gone' = IF h.at = "sent" THEN gone \cup hand.carries ELSE gone
      BY <1>0, <2>0, <2>2, <2>4
  <2> QED BY <2>0, <2>2, <2>3, <2>5, HandGoesOn
<1>8. CASE PointerQueue!Sent
  <2>1. /\ hand.at = "sent" /\ done' = (IF done < hand.seq THEN hand.seq ELSE done)
        /\ hand' = PointerQueue!None
        /\ UNCHANGED <<pq, who, pointerSeq, wait, owed, gone>>
      BY <1>8 DEF PointerQueue!Sent
  <2>2. /\ hand.px = 0 /\ hand.seq \in Nat /\ hand.seq <= pointerSeq
        /\ PointerQueue!Between(done, hand.seq) \subseteq gone
      BY <1>0, <2>1 DEF HandHolds, Carries, PointerQueue!None
  <2>3. PICK h : h = PointerQueue!None
      OBVIOUS
  <2>4. HandHolds(h) /\ Carries(h)' /\ h.px = 0
      BY <2>3 DEF HandHolds, Carries, PointerQueue!None
  <2>5. \A m \in 1 .. done' : m \in gone
    <3>1. PICK s \in 0 .. MostMoves : s = hand.seq
        BY <1>0, <2>2 DEF CountsOK
    <3>2. \A m \in 1 .. s : m > done => m \in gone
        BY <1>0, <2>2, <3>1, BetweenIs DEF CountsOK
    <3> QED BY <1>0, <2>1, <3>1, <3>2 DEF CountsOK
  <2>6. QueueOK'
      BY <1>0, <2>1, <2>2, <2>3, <2>4 DEF QueueOK
  <2>7. CountsOK'
      BY <1>0, <2>1, <2>2, <2>5 DEF CountsOK
  <2> QED BY <2>6, <2>7 DEF PointerInv
<1>9. ASSUME NEW t \in Movers, NEW d \in {-1, 1}, NEW queue \in BOOLEAN,
             PointerQueue!Move(t, d, queue)
      PROVE  PointerInv'
  <2>1. /\ pointerSeq < MostMoves /\ pq' = pq + d /\ pointerSeq' = pointerSeq + 1
        /\ wait' = IF queue THEN wait
                   ELSE [wait EXCEPT ![t] = [at |-> "waits", mine |-> pointerSeq + 1]]
        /\ owed' = owed + d /\ UNCHANGED <<done, hand, gone>>
      BY <1>9 DEF PointerQueue!Move
  <2>2. Carries(hand)'
      BY <1>0, <2>1 DEF Carries, HandHolds
  <2>3. QueueOK'
      BY <1>0, <2>1, <2>2 DEF QueueOK
  <2>4. ASSUME NEW u \in Movers
        PROVE  \/ wait'[u] = PointerQueue!NotIn
               \/ wait'[u].at = "waits" /\ wait'[u].mine \in 1 .. pointerSeq'
    <3>1. \/ wait[u] = PointerQueue!NotIn
          \/ wait[u].at = "waits" /\ wait[u].mine \in 1 .. pointerSeq
        BY <1>0 DEF CountsOK
    <3>2. wait'[u] = IF ~queue /\ u = t THEN [at |-> "waits", mine |-> pointerSeq + 1] ELSE wait[u]
        BY <1>0, <2>1 DEF CountsOK
    <3>3. CASE ~queue /\ u = t
        BY <1>0, <2>1, <3>2, <3>3
    <3>4. CASE ~(~queue /\ u = t)
        BY <1>0, <2>1, <3>1, <3>2, <3>4
    <3> QED BY <3>3, <3>4
  <2>5. CountsOK'
      BY <1>0, <2>1, <2>4 DEF CountsOK
  <2> QED BY <2>3, <2>5 DEF PointerInv
<1>10. ASSUME NEW t \in Movers, PointerQueue!Returns(t) \/ PointerQueue!TimesOut(t)
       PROVE  PointerInv'
  <2>1. /\ wait' = [wait EXCEPT ![t] = PointerQueue!NotIn]
        /\ UNCHANGED <<pq, who, pointerSeq, done, hand, owed, gone>>
      BY <1>10 DEF PointerQueue!Returns, PointerQueue!TimesOut
  <2>2. QueueOK'
      BY <1>0, <2>1 DEF QueueOK, Carries
  <2>3. CountsOK'
      BY <1>0, <2>1 DEF CountsOK
  <2> QED BY <2>2, <2>3 DEF PointerInv
<1> QED BY <1>1, <1>2, <1>3, <1>5, <1>6, <1>7, <1>8, <1>9, <1>10 DEF PointerQueue!Next

LEMMA PointerInductive == PointerQueue!Spec => []PointerInv
<1>1. PointerQueue!Init => PointerInv
  <2> SUFFICES ASSUME PointerQueue!Init PROVE PointerInv
      OBVIOUS
  <2>1. /\ pq = 0 /\ pointerSeq = 0 /\ done = 0 /\ owed = 0 /\ hand = PointerQueue!None
        /\ wait = [t \in Movers |-> PointerQueue!NotIn] /\ MostMoves \in Nat
      BY PartsAssumption DEF PointerQueue!Init, PartsAssumption, PointerQueue!QueueAssumption
  <2>2. QueueOK
      BY <2>1 DEF QueueOK, HandHolds, Carries, PointerQueue!None
  <2>3. CountsOK
      BY <2>1 DEF CountsOK
  <2> QED BY <2>2, <2>3 DEF PointerInv
<1>2. PointerInv /\ [PointerQueue!Next]_PointerQueue!vars => PointerInv'
  <2>1. CASE PointerQueue!Next
      BY <2>1, PointerStep
  <2>2. CASE UNCHANGED PointerQueue!vars
      BY <2>2 DEF PointerQueue!vars, PointerInv, QueueOK, CountsOK, Carries
  <2> QED BY <2>1, <2>2
<1> QED BY <1>1, <1>2, PTL DEF PointerQueue!Spec

\* Merging loses no pixel and sends none twice, however a move is cut into steps
\* and whatever arrives while it is sent, and a request that comes back as sent
\* comes back when its own move is dealt with, sent or dropped
\* (PointerQueue!NothingLost, SentComesAfter).
THEOREM MovesArrive ==
    PointerQueue!Spec => []PointerQueue!NothingLost /\ PointerQueue!SentComesAfter
<1> DEFINE Returned == \A t \in Movers :
        wait[t].at = "waits" /\ wait'[t] = PointerQueue!NotIn /\ done >= wait[t].mine
          => wait[t].mine \in gone
<1>1. PointerInv => PointerQueue!NothingLost
    BY DEF PointerInv, QueueOK, PointerQueue!NothingLost
<1>2. PointerInv => [Returned]_PointerQueue!vars
  <2> SUFFICES ASSUME PointerInv, NEW t \in Movers,
                      wait[t].at = "waits", done >= wait[t].mine
               PROVE  wait[t].mine \in gone
      OBVIOUS
  <2>1. wait[t].mine \in 1 .. pointerSeq /\ pointerSeq \in Nat /\ done \in Nat
      BY DEF PointerInv, CountsOK, PointerQueue!NotIn
  <2>2. wait[t].mine \in 1 .. done
      BY <2>1
  <2> QED BY <2>2 DEF PointerInv, CountsOK
<1>3. []PointerInv => [][Returned]_PointerQueue!vars
    BY <1>2, PTL
<1> QED BY PointerInductive, <1>1, <1>3, PTL DEF PointerQueue!SentComesAfter

-----------------------------------------------------------------------------
(* Caps Lock (CapsTrack).                                                  *)

Odd == {k \in Keyboards : unread[k] % 2 = 1}

\* What is remembered is saved, unless a save failed, and right up to the presses
\* still to be read, unless a press was missed or an old file loaded.
CapsInv ==
    /\ target \in {"on", "off"} /\ {state, saved} \subseteq {"on", "off", "unknown"}
    /\ capsStale \in {"no", "behind", "loaded"} /\ (capsStale = "no" => saved = state)
    /\ unread \in [Keyboards -> Nat] /\ missed \in BOOLEAN
    /\ state # "unknown" /\ ~missed /\ capsStale # "loaded" =>
           (state = IF CapsTrack!ParityOf(Keyboards) = 0 THEN target ELSE CapsTrack!Flipped(target))

LEMMA ParityIsOdd ==
    ASSUME TRUE
    PROVE  CapsTrack!ParityOf(Keyboards) = Cardinality(Odd) % 2 /\ IsFiniteSet(Odd)
<1>1. IsFiniteSet(Keyboards)
    BY PartsAssumption DEF PartsAssumption, CapsTrack!CapsAssumption, CapsTrack!IsFiniteSet,
                           IsFiniteSet
<1>2. Odd \in SUBSET Keyboards
    BY DEF Odd
<1>3. IsFiniteSet(Odd)
    BY <1>1, <1>2, FS_Subset
<1> QED BY <1>3 DEF CapsTrack!ParityOf, Odd, CapsTrack!Cardinality, Cardinality

LEMMA OneMoreOrLess ==
    ASSUME NEW A, NEW B, NEW k, IsFiniteSet(A),
           \/ B = A \cup {k} /\ k \notin A
           \/ B = A \ {k} /\ k \in A
    PROVE  Cardinality(A) % 2 = 0 <=> Cardinality(B) % 2 # 0
<1>1. Cardinality(A) \in Nat
    BY FS_CardinalityType
<1>2. CASE B = A \cup {k} /\ k \notin A
  <2>1. Cardinality(B) = Cardinality(A) + 1
      BY <1>2, FS_AddElement
  <2> QED BY <1>1, <2>1
<1>3. CASE B = A \ {k} /\ k \in A
  <2>1. Cardinality(B) = Cardinality(A) - 1 /\ IsFiniteSet(B)
      BY <1>3, FS_RemoveElement
  <2>2. Cardinality(B) \in Nat
      BY <2>1, FS_CardinalityType
  <2> QED BY <1>1, <2>1, <2>2
<1> QED BY <1>2, <1>3

\* A press more to be read, or one less.
LEMMA ParityFlips ==
    ASSUME unread \in [Keyboards -> Nat], NEW k \in Keyboards, NEW n \in Nat,
           unread' = [unread EXCEPT ![k] = n], n = unread[k] + 1 \/ unread[k] = n + 1
    PROVE  CapsTrack!ParityOf(Keyboards) = 0 <=> CapsTrack!ParityOf(Keyboards)' # 0
<1>1. CapsTrack!ParityOf(Keyboards) = Cardinality(Odd) % 2 /\ IsFiniteSet(Odd)
    BY ParityIsOdd
<1>a. CapsTrack!ParityOf(Keyboards)' = Cardinality(Odd') % 2
    BY DEF CapsTrack!ParityOf, Odd, CapsTrack!Cardinality, Cardinality
<1>2. PICK A, B : A = Odd /\ B = Odd'
    OBVIOUS
<1>3. n % 2 = 1 <=> unread[k] % 2 # 1
    OBVIOUS
<1>4. \A j \in Keyboards : unread'[j] = IF j = k THEN n ELSE unread[j]
    OBVIOUS
<1>5. \/ B = A \cup {k} /\ k \notin A
      \/ B = A \ {k} /\ k \in A
  <2>1. CASE n % 2 = 1
      BY <1>2, <1>3, <1>4, <2>1 DEF Odd
  <2>2. CASE n % 2 # 1
      BY <1>2, <1>3, <1>4, <2>2 DEF Odd
  <2> QED BY <2>1, <2>2
<1> QED BY <1>1, <1>a, <1>2, <1>5, OneMoreOrLess

LEMMA NoneUnread ==
    ASSUME unread \in [Keyboards -> Nat], CapsTrack!Unread = {}
    PROVE  /\ unread = [k \in Keyboards |-> 0]
           /\ CapsTrack!ParityOf(Keyboards) = 0
<1>1. \A k \in Keyboards : unread[k] = 0
    BY DEF CapsTrack!Unread
<1>2. Odd = {}
    BY <1>1 DEF Odd
<1>3. CapsTrack!ParityOf(Keyboards) = Cardinality({}) % 2
    BY <1>2, ParityIsOdd
<1> QED BY <1>1, <1>3, FS_EmptySet

LEMMA CapsStep ==
    ASSUME CapsInv, CapsTrack!Next
    PROVE  CapsInv'
<1> DEFINE P == CapsTrack!ParityOf(Keyboards)
<1>0. /\ target \in {"on", "off"} /\ {state, saved} \subseteq {"on", "off", "unknown"}
      /\ capsStale \in {"no", "behind", "loaded"} /\ (capsStale = "no" => saved = state)
      /\ unread \in [Keyboards -> Nat] /\ missed \in BOOLEAN
      /\ state # "unknown" /\ ~missed /\ capsStale # "loaded" =>
             (state = IF P = 0 THEN target ELSE CapsTrack!Flipped(target))
    BY DEF CapsInv
<1>a. unread' = unread => P' = P
    BY DEF CapsTrack!ParityOf
<1>b. /\ CapsTrack!Flipped("on") = "off" /\ CapsTrack!Flipped("off") = "on"
      /\ CapsTrack!Flipped("unknown") = "unknown"
    BY DEF CapsTrack!Flipped
<1>1. CASE CapsTrack!Starts \/ CapsTrack!Scan
  <2>1. /\ UNCHANGED <<target, saved, unread, missed>>
        /\ \/ state' = saved /\ capsStale' = IF capsStale = "behind" THEN "loaded" ELSE capsStale
           \/ UNCHANGED <<state, capsStale>>
      BY <1>1 DEF CapsTrack!Starts, CapsTrack!Scan
  <2> QED BY <1>0, <1>a, <1>b, <2>1 DEF CapsInv
<1>2. CASE CapsTrack!Ends
  <2>1. /\ unread' = [k \in Keyboards |-> 0] /\ missed' = (missed \/ CapsTrack!Unread # {})
        /\ UNCHANGED <<target, state, saved, capsStale>>
      BY <1>2 DEF CapsTrack!Ends
  <2>2. CapsTrack!Unread = {} => unread' = unread
      BY <1>0, <2>1, NoneUnread
  <2>3. unread' \in [Keyboards -> Nat] /\ missed' \in BOOLEAN
      BY <1>0, <2>1
  <2>4. CASE CapsTrack!Unread = {}
      BY <1>0, <1>a, <2>1, <2>2, <2>3, <2>4 DEF CapsInv
  <2>5. CASE CapsTrack!Unread # {}
      BY <1>0, <2>1, <2>3, <2>5 DEF CapsInv
  <2> QED BY <2>4, <2>5
<1>3. ASSUME NEW s \in {"on", "off", "unknown"}, CapsTrack!Set(s) PROVE CapsInv'
  <2>1. /\ state' = s
        /\ \/ saved' = s /\ capsStale' = "no"
           \/ UNCHANGED saved /\ capsStale' = "behind"
        /\ missed' = (s # "unknown" /\ (s # target \/ CapsTrack!Unread # {}))
        /\ UNCHANGED <<target, unread>>
      BY <1>3 DEF CapsTrack!Set
  <2>2. CapsTrack!Unread = {} => P = 0
      BY <1>0, NoneUnread
  <2>3. missed' \in BOOLEAN
      BY <2>1
  <2> QED BY <1>0, <1>a, <2>1, <2>2, <2>3 DEF CapsInv
<1>4. ASSUME NEW k \in Keyboards, CapsTrack!Pressed(k) PROVE CapsInv'
  <2>1. target' = CapsTrack!Flipped(target) /\ UNCHANGED <<state, saved, capsStale>>
      BY <1>4 DEF CapsTrack!Pressed
  <2>2. CASE unread' = [unread EXCEPT ![k] = @ + 1] /\ UNCHANGED missed
    <3>1. PICK n \in Nat : n = unread[k] + 1
        BY <1>0
    <3>2. unread' = [unread EXCEPT ![k] = n]
        BY <2>2, <3>1
    <3>3. P = 0 <=> P' # 0
        BY <1>0, <3>1, <3>2, ParityFlips
    <3>4. unread' \in [Keyboards -> Nat]
        BY <1>0, <3>2
    <3> QED BY <1>0, <1>b, <2>1, <2>2, <3>3, <3>4 DEF CapsInv
  <2>3. CASE missed' = TRUE /\ UNCHANGED unread
      BY <1>0, <1>b, <2>1, <2>3 DEF CapsInv
  <2> QED BY <1>4, <2>2, <2>3 DEF CapsTrack!Pressed
<1>5. ASSUME NEW k \in Keyboards, CapsTrack!Replug(k) PROVE CapsInv'
  <2>1. /\ unread' = [unread EXCEPT ![k] = 0] /\ missed' = (missed \/ unread[k] > 0)
        /\ UNCHANGED <<target, state, saved, capsStale>>
      BY <1>5 DEF CapsTrack!Replug
  <2>2. unread' \in [Keyboards -> Nat] /\ missed' \in BOOLEAN
      BY <1>0, <2>1
  <2>3. CASE unread[k] > 0
      BY <1>0, <2>1, <2>2, <2>3 DEF CapsInv
  <2>4. CASE ~(unread[k] > 0)
    <3>1. unread' = unread
        BY <1>0, <2>1, <2>4
    <3> QED BY <1>0, <1>a, <2>1, <2>2, <2>4, <3>1 DEF CapsInv
  <2> QED BY <2>3, <2>4
<1>6. ASSUME NEW k \in Keyboards, CapsTrack!Drop(k) PROVE CapsInv'
    BY <1>0, <1>6, <1>a DEF CapsInv, CapsTrack!Drop
<1>7. ASSUME NEW k \in Keyboards, CapsTrack!Read(k) PROVE CapsInv'
  <2>1. /\ unread[k] > 0 /\ unread' = [unread EXCEPT ![k] = @ - 1]
        /\ state' = CapsTrack!Flipped(state)
        /\ \/ saved' = state' /\ capsStale' = IF capsStale = "behind" THEN "no" ELSE capsStale
           \/ saved' = saved /\ capsStale' = IF capsStale = "no" THEN "behind" ELSE capsStale
        /\ UNCHANGED <<target, missed>>
      BY <1>7 DEF CapsTrack!Read, CapsTrack!Save
  <2>2. PICK n \in Nat : n = unread[k] - 1
      BY <1>0, <2>1
  <2>3. unread' = [unread EXCEPT ![k] = n] /\ unread[k] = n + 1
      BY <1>0, <2>1, <2>2
  <2>4. P = 0 <=> P' # 0
      BY <1>0, <2>2, <2>3, ParityFlips
  <2>5. unread' \in [Keyboards -> Nat]
      BY <1>0, <2>3
  <2> QED BY <1>0, <1>b, <2>1, <2>4, <2>5 DEF CapsInv
<1> QED BY <1>1, <1>2, <1>3, <1>4, <1>5, <1>6, <1>7 DEF CapsTrack!Next

LEMMA CapsInductive == CapsTrack!Spec => []CapsInv
<1>1. CapsTrack!Init => CapsInv
  <2> SUFFICES ASSUME CapsTrack!Init PROVE CapsInv
      OBVIOUS
  <2>1. /\ target \in {"on", "off"} /\ state = "unknown" /\ saved = "unknown" /\ missed = FALSE
        /\ capsStale = "no" /\ unread = [k \in Keyboards |-> 0]
      BY DEF CapsTrack!Init
  <2>2. unread \in [Keyboards -> Nat]
      BY <2>1
  <2> QED BY <2>1, <2>2 DEF CapsInv
<1>2. CapsInv /\ [CapsTrack!Next]_CapsTrack!vars => CapsInv'
  <2>1. CASE CapsTrack!Next
      BY <2>1, CapsStep
  <2>2. CASE UNCHANGED CapsTrack!vars
      BY <2>2 DEF CapsTrack!vars, CapsInv, CapsTrack!ParityOf
  <2> QED BY <2>1, <2>2
<1> QED BY <1>1, <1>2, PTL DEF CapsTrack!Spec

\* Where no press was missed, the operator told the truth and the daemon has not
\* started from a file that a failed save left behind, the tracked latch is the
\* target's up to the presses still to be read, across restarts of the daemon and
\* keyboards that come and go (CapsTrack!TrackedIsTrue).
THEOREM LatchIsTracked == CapsTrack!Spec => []CapsTrack!TrackedIsTrue
<1>1. CapsInv => CapsTrack!TrackedIsTrue
    BY DEF CapsInv, CapsTrack!TrackedIsTrue, CapsTrack!AsTheTarget
<1> QED BY CapsInductive, <1>1, PTL

-----------------------------------------------------------------------------
(* The power plug (Plugs).                                                 *)

\* A reply that says something says what the relay r has done during the call.
ReplyOK(k) ==
    IF k.doing = "read"
    THEN k.reply \in {"on", "off", "unsure", "lost"} /\ (k.reply \in {"on", "off"} => k.reply \in k.seen)
    ELSE k.reply \in {"done", "refused", "lost", "unsure"} /\ (k.reply = "done" => k.doing \in k.seen)

PlugCallOK(k, r) ==
    /\ k.want \in {"read", "on", "off"} /\ k.doing \in {k.want, "read"}
    /\ k.at # "idle" => r \in k.seen
    /\ k.at = "back" => ReplyOK(k)

\* No second attempt has, or finds on the table, the session of the first.
FreshOn(k, t) == k.bad # NoSession => k.ses # k.bad /\ t # k.bad

PlugInv ==
    /\ DOMAIN plugCall = PlugCallers /\ relay \in {"on", "off"}
    /\ \A c \in PlugCallers : PlugCallOK(plugCall[c], relay) /\ FreshOn(plugCall[c], table)
    /\ IsFiniteSet(live) /\ Cardinality(live) <= 1

\* What a call that ends may tell.
Truth(k, t) ==
    /\ t \in {"on", "off"} => t \in k.seen
    /\ t = "ok" /\ k.reply # "unsure" => k.want \in k.seen

TellsTruly ==
    \A c \in PlugCallers : plugCall[c].at # "idle" /\ plugCall'[c].at = "idle"
                              => Truth(plugCall[c], plugTold')

\* One call goes on, or ends.
LEMMA PlugCallGoesOn ==
    ASSUME PlugInv, NEW c \in PlugCallers, NEW k, plugCall' = [plugCall EXCEPT ![c] = k],
           relay' = relay, live' = live, table' = table \/ table' = NoSession,
           PlugCallOK(k, relay), FreshOn(k, table'),
           plugCall[c].at # "idle" /\ k.at = "idle" => Truth(plugCall[c], plugTold')
    PROVE  PlugInv' /\ TellsTruly
<1>1. \A d \in PlugCallers : plugCall'[d] = IF d = c THEN k ELSE plugCall[d]
    BY DEF PlugInv
<1>2. \A d \in PlugCallers : FreshOn(plugCall[d], table')
    BY DEF PlugInv, FreshOn
<1>3. \A d \in PlugCallers : PlugCallOK(plugCall'[d], relay) /\ FreshOn(plugCall'[d], table')
    BY <1>1, <1>2 DEF PlugInv
<1>4. DOMAIN plugCall' = PlugCallers
    BY DEF PlugInv
<1>5. PlugInv'
    BY <1>3, <1>4 DEF PlugInv
<1>6. TellsTruly
    BY <1>1 DEF TellsTruly
<1> QED BY <1>5, <1>6

\* All that are in a call witness what the relay does.
LEMMA AllWitness ==
    ASSUME PlugInv, NEW r \in {"on", "off"}, NEW c \in PlugCallers
    PROVE  LET w == Plugs!Witnessed(r)[c] k == plugCall[c] IN
           /\ PlugCallOK(w, r) /\ (\A t : FreshOn(w, t) <=> FreshOn(k, t))
           /\ w.at = k.at /\ w.want = k.want /\ w.doing = k.doing /\ w.ses = k.ses /\ w.bad = k.bad
           /\ w.at # "idle" => r \in w.seen
<1>1. PICK k, w : k = plugCall[c] /\ w = Plugs!Witnessed(r)[c]
    OBVIOUS
<1>2. w = IF k.at = "idle" THEN k ELSE [k EXCEPT !.seen = @ \cup {r}]
    BY <1>1 DEF Plugs!Witnessed
<1>3. PlugCallOK(k, relay)
    BY <1>1 DEF PlugInv
<1>4. /\ w.at = k.at /\ w.want = k.want /\ w.doing = k.doing /\ w.ses = k.ses /\ w.bad = k.bad
      /\ w.reply = k.reply /\ k.seen \subseteq w.seen /\ (k.at # "idle" => r \in w.seen)
    BY <1>2
<1>5. ReplyOK(k) => ReplyOK(w)
    BY <1>4 DEF ReplyOK
<1>6. PlugCallOK(w, r)
    BY <1>3, <1>4, <1>5 DEF PlugCallOK
<1>7. \A t : FreshOn(w, t) <=> FreshOn(k, t)
    BY <1>4 DEF FreshOn
<1> QED BY <1>1, <1>4, <1>6, <1>7

\* There is always a session that nobody has.
LEMMA NewSession ==
    ASSUME PlugInv, PlugCallers # {}
    PROVE  \E s \in Sessions : s \notin Plugs!InUse
<1> DEFINE ses == {plugCall[c].ses : c \in PlugCallers}
           bad == {plugCall[c].bad : c \in PlugCallers}
           n == Cardinality(PlugCallers)
<1>1. /\ IsFiniteSet(PlugCallers) /\ IsFiniteSet(Sessions)
      /\ Cardinality(Sessions) > 3 * n + 1
    BY PartsAssumption
       DEF PartsAssumption, Plugs!PlugAssumption, Plugs!IsFiniteSet, IsFiniteSet,
                           Plugs!Cardinality, Cardinality
<1>2. n \in Nat /\ n # 0
    BY <1>1, FS_CardinalityType, FS_EmptySet
<1>3. IsFiniteSet(ses) /\ Cardinality(ses) <= n
  <2>1. PICK f : f = [c \in PlugCallers |-> plugCall[c].ses]
      OBVIOUS
  <2>2. f \in Surjection(PlugCallers, ses)
      BY <2>1 DEF Surjection
  <2> QED BY <1>1, <2>2, FS_Surjection
<1>4. IsFiniteSet(bad) /\ Cardinality(bad) <= n
  <2>1. PICK f : f = [c \in PlugCallers |-> plugCall[c].bad]
      OBVIOUS
  <2>2. f \in Surjection(PlugCallers, bad)
      BY <2>1 DEF Surjection
  <2> QED BY <1>1, <2>2, FS_Surjection
<1>5. IsFiniteSet({table}) /\ Cardinality({table}) = 1 /\ IsFiniteSet(live) /\ Cardinality(live) <= 1
    BY FS_Singleton DEF PlugInv
<1> HIDE DEF ses, bad, n
<1>6. ASSUME NEW A, NEW B, IsFiniteSet(A), IsFiniteSet(B)
      PROVE  IsFiniteSet(A \cup B) /\ Cardinality(A \cup B) <= Cardinality(A) + Cardinality(B)
  <2>1. /\ IsFiniteSet(A \cup B)
        /\ Cardinality(A \cup B) = Cardinality(A) + Cardinality(B) - Cardinality(A \cap B)
      BY <1>6, FS_Union
  <2>2. IsFiniteSet(A \cap B)
      BY <1>6, FS_Intersection
  <2>3. Cardinality(A) \in Nat /\ Cardinality(B) \in Nat /\ Cardinality(A \cap B) \in Nat
      BY <1>6, <2>2, FS_CardinalityType
  <2> QED BY <2>1, <2>3
<1>7. PICK A : A = {table} \cup live
    OBVIOUS
<1>8. PICK B : B = ses \cup bad
    OBVIOUS
<1>9. IsFiniteSet(A) /\ Cardinality(A) <= Cardinality({table}) + Cardinality(live)
    BY <1>5, <1>6, <1>7
<1>10. IsFiniteSet(B) /\ Cardinality(B) <= Cardinality(ses) + Cardinality(bad)
    BY <1>3, <1>4, <1>6, <1>8
<1>11. IsFiniteSet(A \cup B) /\ Cardinality(A \cup B) <= Cardinality(A) + Cardinality(B)
    BY <1>6, <1>9, <1>10
<1>12. /\ Cardinality(live) \in Nat /\ Cardinality(ses) \in Nat /\ Cardinality(bad) \in Nat
       /\ Cardinality(A) \in Nat /\ Cardinality(B) \in Nat /\ Cardinality(A \cup B) \in Nat
       /\ Cardinality(Sessions) \in Nat
    BY <1>1, <1>3, <1>4, <1>5, <1>9, <1>10, <1>11, FS_CardinalityType
<1>13. Cardinality(A \cup B) < Cardinality(Sessions)
    BY <1>1, <1>2, <1>3, <1>4, <1>5, <1>9, <1>10, <1>11, <1>12
<1>14. ~(Sessions \subseteq A \cup B)
    BY <1>11, <1>12, <1>13, FS_Subset
<1>15. Plugs!InUse \subseteq A \cup B
  <2>1. UNION {{plugCall[c].ses, plugCall[c].bad} : c \in PlugCallers} \subseteq ses \cup bad
      BY DEF ses, bad
  <2> QED BY <1>7, <1>8, <2>1 DEF Plugs!InUse
<1> QED BY <1>14, <1>15

\* What a wish may be.
LEMMA WishIs ==
    ASSUME NEW c \in PlugCallers, NEW wish \in Wishes[c]
    PROVE  wish \in {"read", "on", "off"}
BY PartsAssumption DEF PartsAssumption, Plugs!PlugAssumption

\* The steps that are the surroundings' or the plug's: all who are in a call see them.
LEMMA PlugMoves ==
    ASSUME PlugInv,
           \/ Plugs!ByHand
           \/ Plugs!Restarts
           \/ \E c \in PlugCallers : Plugs!Serve(c)
    PROVE  PlugInv' /\ TellsTruly
<1>1. CASE Plugs!ByHand
  <2>1. /\ relay' \in {"on", "off"} /\ plugCall' = Plugs!Witnessed(relay')
        /\ UNCHANGED <<live, table>>
      BY <1>1 DEF Plugs!ByHand
  <2>2. PICK r \in {"on", "off"} : r = relay'
      BY <2>1
  <2>3. \A c \in PlugCallers : /\ PlugCallOK(plugCall'[c], r) /\ FreshOn(plugCall'[c], table)
                               /\ plugCall'[c].at = plugCall[c].at
      BY <2>1, <2>2, AllWitness DEF PlugInv
  <2>4. DOMAIN plugCall' = PlugCallers
      BY <2>1 DEF Plugs!Witnessed
  <2>5. PlugInv'
      BY <2>1, <2>2, <2>3, <2>4 DEF PlugInv
  <2> QED BY <2>3, <2>5 DEF TellsTruly
<1>2. CASE Plugs!Restarts
  <2>1. live' = {} /\ UNCHANGED <<relay, table, plugCall>>
      BY <1>2 DEF Plugs!Restarts
  <2>2. IsFiniteSet({}) /\ Cardinality({}) <= 1
      BY FS_EmptySet
  <2>3. PlugInv'
      BY <2>1, <2>2 DEF PlugInv
  <2> QED BY <2>1, <2>3 DEF TellsTruly
<1>3. ASSUME NEW c \in PlugCallers, Plugs!Serve(c) PROVE PlugInv' /\ TellsTruly
  <2>1. PICK did \in BOOLEAN, r \in Plugs!Replies :
          /\ IF plugCall[c].doing = "read" THEN ~did /\ r \in {relay, "unsure", "lost"}
             ELSE r \in {IF did THEN "done" ELSE "refused", "lost"}
                          \cup (IF backend = "shell" THEN {} ELSE {"unsure"})
          /\ relay' = IF did THEN plugCall[c].doing ELSE relay
          /\ plugCall' = [Plugs!Witnessed(relay') EXCEPT ![c].at = "back", ![c].reply = r]
      BY <1>3 DEF Plugs!Serve
  <2>2. plugCall[c].at = "sent" /\ UNCHANGED <<live, table>>
      BY <1>3 DEF Plugs!Serve
  <2>3. PICK k : k = plugCall[c]
      OBVIOUS
  <2>4. k.doing \in {"read", "on", "off"}
      BY <2>3 DEF PlugInv, PlugCallOK
  <2>5. /\ k.doing = "read" => ~did /\ r \in {relay, "unsure", "lost"}
        /\ k.doing # "read" /\ did => r \in {"done", "lost", "unsure"}
        /\ k.doing # "read" /\ ~did => r \in {"refused", "lost", "unsure"}
    <3>1. CASE k.doing = "read"
        BY <2>1, <2>3, <3>1
    <3>2. CASE k.doing # "read" /\ did
        BY <2>1, <2>3, <3>2
    <3>3. CASE k.doing # "read" /\ ~did
        BY <2>1, <2>3, <3>3
    <3> QED BY <3>1, <3>2, <3>3
  <2>6. PICK s \in {"on", "off"} : s = relay' /\ s = IF did THEN k.doing ELSE relay
      BY <2>1, <2>3, <2>4, <2>5 DEF PlugInv
  <2>7. \A d \in PlugCallers :
            /\ PlugCallOK(Plugs!Witnessed(s)[d], s) /\ FreshOn(Plugs!Witnessed(s)[d], table)
            /\ Plugs!Witnessed(s)[d].at = plugCall[d].at
      BY AllWitness DEF PlugInv
  <2>8. PICK w : w = Plugs!Witnessed(s)[c]
      OBVIOUS
  <2>9. PICK v : v = [w EXCEPT !.at = "back", !.reply = r]
      OBVIOUS
  <2>10. \A d \in PlugCallers : plugCall'[d] = IF d = c THEN v ELSE Plugs!Witnessed(s)[d]
      BY <2>1, <2>6, <2>8, <2>9 DEF Plugs!Witnessed
  <2>11. /\ w.at = "sent" /\ w.want = k.want /\ w.doing = k.doing /\ w.ses = k.ses /\ w.bad = k.bad
         /\ s \in w.seen /\ PlugCallOK(w, s) /\ FreshOn(w, table)
      BY <2>2, <2>3, <2>8, AllWitness DEF PlugInv
  <2>12. /\ v.at = "back" /\ v.reply = r /\ v.want = w.want /\ v.doing = w.doing
         /\ v.ses = w.ses /\ v.bad = w.bad /\ v.seen = w.seen
      BY <2>9
  <2>13. ReplyOK(v)
    <3>1. CASE k.doing = "read"
        BY <2>5, <2>6, <2>11, <2>12, <3>1 DEF ReplyOK
    <3>2. CASE k.doing # "read"
        BY <2>5, <2>6, <2>11, <2>12, <3>2 DEF ReplyOK
    <3> QED BY <3>1, <3>2
  <2>14. PlugCallOK(v, s) /\ FreshOn(v, table)
      BY <2>11, <2>12, <2>13 DEF PlugCallOK, FreshOn
  <2>15. DOMAIN plugCall' = PlugCallers
      BY <2>1 DEF Plugs!Witnessed
  <2>16. PlugInv'
      BY <2>2, <2>6, <2>7, <2>10, <2>14, <2>15 DEF PlugInv
  <2>17. TellsTruly
      BY <2>7, <2>10, <2>12 DEF TellsTruly
  <2> QED BY <2>16, <2>17
<1> QED BY <1>1, <1>2, <1>3

LEMMA PlugStep ==
    ASSUME PlugInv, Plugs!Next
    PROVE  PlugInv' /\ TellsTruly
<1>1. CASE Plugs!ByHand \/ Plugs!Restarts
    BY <1>1, PlugMoves
<1>2. ASSUME NEW c \in PlugCallers, Plugs!CallerStep(c) PROVE PlugInv' /\ TellsTruly
  <2> DEFINE j == plugCall[c]
  <2>0. PlugCallOK(j, relay) /\ FreshOn(j, table) /\ DOMAIN plugCall = PlugCallers
      BY DEF PlugInv
  \* The call ends.
  <2>a. ASSUME NEW t, Plugs!Tells(c, t), Truth(j, t), relay' = relay, live' = live, table' = table
        PROVE  PlugInv' /\ TellsTruly
    <3>1. PICK k : k = Plugs!Idle
        OBVIOUS
    <3>2. PlugCallOK(k, relay) /\ FreshOn(k, table)
        BY <3>1 DEF PlugCallOK, FreshOn, Plugs!Idle
    <3>3. plugCall' = [plugCall EXCEPT ![c] = k] /\ plugTold' = t
        BY <2>a, <3>1 DEF Plugs!Tells
    <3> QED BY <2>a, <3>2, <3>3, PlugCallGoesOn
  \* It goes on, in the session it has, with what it has seen.
  <2>b. ASSUME NEW k, plugCall' = [plugCall EXCEPT ![c] = k], j.at # "idle", k.at # "idle",
               k.want = j.want, k.doing \in {j.doing, "read"}, k.seen = j.seen,
               k.at = "back" => ReplyOK(k),
               k.bad = j.bad, k.ses \in {j.ses, table},
               relay' = relay, live' = live, table' = table
        PROVE  PlugInv' /\ TellsTruly
    <3>1. PlugCallOK(k, relay) /\ FreshOn(k, table)
        BY <2>0, <2>b DEF PlugCallOK, FreshOn
    <3> QED BY <2>b, <3>1, PlugCallGoesOn
  <2> HIDE DEF j
  <2>c. j = plugCall[c]
      BY DEF j
  <2>1. ASSUME NEW wish \in Wishes[c], Plugs!Call(c, wish) PROVE PlugInv' /\ TellsTruly
    <3>1. PICK at, left, k :
            /\ at # "idle" /\ at # "back"
            /\ k = [Plugs!Idle EXCEPT !.at = at, !.want = wish, !.doing = wish,
                                      !.seen = {relay}, !.left = left]
            /\ plugCall' = [plugCall EXCEPT ![c] = k]
      <4>1. plugCall' = [plugCall EXCEPT ![c] = [Plugs!Idle EXCEPT
                !.at = IF backend \in {"klap", "wemo"} THEN "ask" ELSE "sent",
                !.want = wish, !.doing = wish, !.seen = {relay},
                !.left = IF backend = "wemo" THEN Plugs!Candidates ELSE <<>>]]
          BY <2>1 DEF Plugs!Call
      <4>2. PICK at, left :
              /\ at = IF backend \in {"klap", "wemo"} THEN "ask" ELSE "sent"
              /\ left = IF backend = "wemo" THEN Plugs!Candidates ELSE <<>>
          OBVIOUS
      <4>3. PICK k : k = [Plugs!Idle EXCEPT !.at = at, !.want = wish, !.doing = wish,
                                            !.seen = {relay}, !.left = left]
          OBVIOUS
      <4>4. plugCall' = [plugCall EXCEPT ![c] = k]
          BY <4>1, <4>2, <4>3
      <4>5. at # "idle" /\ at # "back"
          BY <4>2
      <4> QED BY <4>3, <4>4, <4>5
    <3>2. /\ k.at = at /\ k.want = wish /\ k.doing = wish /\ k.seen = {relay}
          /\ k.bad = NoSession
        BY <3>1 DEF Plugs!Idle
    <3>3. PlugCallOK(k, relay) /\ FreshOn(k, table)
        BY <3>1, <3>2, WishIs DEF PlugCallOK, FreshOn
    <3>4. relay' = relay /\ live' = live /\ table' = table
        BY <2>1 DEF Plugs!Call, Plugs!plugVars
    <3> QED BY <3>1, <3>2, <3>3, <3>4, PlugCallGoesOn
  <2>2. CASE Plugs!TryPort(c)
    <3>0. j.at = "ask" /\ UNCHANGED <<relay, live, table>>
        BY <2>2, <2>c DEF Plugs!TryPort, Plugs!plugVars
    <3>1. CASE plugCall' = [plugCall EXCEPT ![c].at = "sent"]
      <4>1. PICK k : k = [j EXCEPT !.at = "sent"]
          OBVIOUS
      <4>2. plugCall' = [plugCall EXCEPT ![c] = k]
          BY <2>c, <3>1, <4>1
      <4>f. k.at = "sent" /\ k.want = j.want /\ k.doing = j.doing /\ k.seen = j.seen
            /\ k.bad = j.bad /\ k.ses = j.ses
          BY <4>1
      <4> QED BY <2>b, <3>0, <4>f, <4>2
    <3>2. CASE plugCall' = [plugCall EXCEPT ![c].left = Tail(@)]
      <4>1. PICK k : k = [j EXCEPT !.left = Tail(@)]
          OBVIOUS
      <4>2. plugCall' = [plugCall EXCEPT ![c] = k]
          BY <2>c, <3>2, <4>1
      <4>f. k.at = "ask" /\ k.want = j.want /\ k.doing = j.doing /\ k.seen = j.seen
            /\ k.bad = j.bad /\ k.ses = j.ses
          BY <3>0, <4>1
      <4> QED BY <2>b, <3>0, <4>f, <4>2
    <3> QED BY <2>2, <3>1, <3>2 DEF Plugs!TryPort
  <2>3. CASE Plugs!NoPortAnswers(c) \/ Plugs!HandshakeFails(c) \/ Plugs!Fails(c)
    <3>1. Plugs!Tells(c, "raised") /\ UNCHANGED <<relay, live, table>>
        BY <2>3 DEF Plugs!NoPortAnswers, Plugs!HandshakeFails, Plugs!Fails, Plugs!plugVars
    <3>2. Truth(j, "raised")
        BY DEF Truth
    <3> QED BY <2>a, <3>1, <3>2
  <2>4. CASE Plugs!UseSession(c)
    <3>0. j.at = "ask" /\ UNCHANGED <<relay, live, table>>
        BY <2>4, <2>c DEF Plugs!UseSession, Plugs!plugVars
    <3>1. PICK k : k = [j EXCEPT !.at = IF table = NoSession THEN "shake" ELSE "bump", !.ses = table]
        OBVIOUS
    <3>2. plugCall' = [plugCall EXCEPT ![c] = k]
        BY <2>4, <2>c, <3>1 DEF Plugs!UseSession
    <3>3. k.at \in {"shake", "bump"} /\ k.want = j.want /\ k.doing = j.doing /\ k.seen = j.seen
          /\ k.bad = j.bad /\ k.ses = table
        BY <3>1
    <3> QED BY <2>b, <3>0, <3>2, <3>3
  <2>5. CASE Plugs!Handshake(c)
    <3>1. /\ j.at = "shake" /\ table' = (CHOOSE s \in Sessions : s \notin Plugs!InUse)
          /\ live' = {table'} /\ relay' = relay
          /\ plugCall' = [plugCall EXCEPT ![c] = [@ EXCEPT !.at = "bump", !.ses = table']]
        BY <2>5, <2>c DEF Plugs!Handshake
    <3>2. table' \in Sessions /\ table' \notin Plugs!InUse
        BY <3>1, NewSession
    <3>3. PICK s \in Sessions : s = table'
        BY <3>2
    <3>4. \A d \in PlugCallers : plugCall[d].bad # s
        BY <3>2, <3>3 DEF Plugs!InUse
    <3>5. PICK k : k = [j EXCEPT !.at = "bump", !.ses = s]
        OBVIOUS
    <3>6. plugCall' = [plugCall EXCEPT ![c] = k]
        BY <2>c, <3>1, <3>3, <3>5
    <3>7. k.at = "bump" /\ k.want = j.want /\ k.doing = j.doing /\ k.seen = j.seen
          /\ k.bad = j.bad /\ k.ses = s
        BY <3>5
    <3>8. PlugCallOK(k, relay) /\ FreshOn(k, s)
        BY <2>0, <2>c, <3>1, <3>4, <3>7 DEF PlugCallOK, FreshOn
    <3>9. \A d \in PlugCallers : FreshOn(plugCall[d], s)
        BY <3>4 DEF PlugInv, FreshOn
    <3>10. \A d \in PlugCallers : plugCall'[d] = IF d = c THEN k ELSE plugCall[d]
        BY <2>0, <3>6
    <3>11. IsFiniteSet(live') /\ Cardinality(live') <= 1
      <4>1. IsFiniteSet({s}) /\ Cardinality({s}) = 1
          BY FS_Singleton
      <4>2. live' = {s}
          BY <3>1, <3>3
      <4> QED BY <4>1, <4>2
    <3>12. DOMAIN plugCall' = PlugCallers
        BY <2>0, <3>6
    <3>13. PlugInv'
        BY <3>1, <3>3, <3>8, <3>9, <3>10, <3>11, <3>12 DEF PlugInv
    <3> QED BY <3>7, <3>10, <3>13 DEF TellsTruly
  <2>6. CASE Plugs!Bump(c)
    <3>1. /\ j.at = "bump" /\ UNCHANGED <<relay, live, table>>
          /\ plugCall' = [d \in PlugCallers |->
                IF d = c THEN [plugCall[c] EXCEPT !.at = "seal"]
                ELSE [plugCall[d] EXCEPT !.torn =
                         @ \/ (plugCall[d].at = "quote" /\ plugCall[d].ses = plugCall[c].ses)]]
        BY <2>6, <2>c DEF Plugs!Bump, Plugs!plugVars
    <3>2. ASSUME NEW d \in PlugCallers
          PROVE  /\ PlugCallOK(plugCall'[d], relay) /\ FreshOn(plugCall'[d], table)
                 /\ plugCall[d].at # "idle" => plugCall'[d].at # "idle"
      <4>1. PICK k, l : k = plugCall[d] /\ l = plugCall'[d]
          OBVIOUS
      <4>2. PlugCallOK(k, relay) /\ FreshOn(k, table)
          BY <4>1 DEF PlugInv
      <4>3. CASE d = c
        <5>1. l = [k EXCEPT !.at = "seal"]
            BY <3>1, <4>1, <4>3
        <5>2. l.at = "seal" /\ l.want = k.want /\ l.doing = k.doing /\ l.seen = k.seen
              /\ l.bad = k.bad /\ l.ses = k.ses
            BY <5>1
        <5>3. k.at = "bump"
            BY <2>c, <3>1, <4>1, <4>3
        <5> QED BY <4>1, <4>2, <5>2, <5>3 DEF PlugCallOK, FreshOn
      <4>4. CASE d # c
        <5>1. PICK b : l = [k EXCEPT !.torn = b]
            BY <3>1, <4>1, <4>4
        <5>2. l.at = k.at /\ l.want = k.want /\ l.doing = k.doing /\ l.seen = k.seen
              /\ l.bad = k.bad /\ l.ses = k.ses /\ l.reply = k.reply
            BY <5>1
        <5> QED BY <4>1, <4>2, <5>2 DEF PlugCallOK, FreshOn, ReplyOK
      <4> QED BY <4>3, <4>4
    <3>3. DOMAIN plugCall' = PlugCallers
        BY <3>1
    <3>4. PlugInv'
        BY <3>1, <3>2, <3>3 DEF PlugInv
    <3> QED BY <3>2, <3>4 DEF TellsTruly
  <2>7. CASE Plugs!Seal(c)
    <3>0. j.at = "seal" /\ UNCHANGED <<relay, live, table>>
        BY <2>7, <2>c DEF Plugs!Seal, Plugs!plugVars
    <3>1. PICK k : k = [j EXCEPT !.at = "quote"]
        OBVIOUS
    <3>2. plugCall' = [plugCall EXCEPT ![c] = k]
        BY <2>7, <2>c, <3>1 DEF Plugs!Seal
    <3>f. k.at = "quote" /\ k.want = j.want /\ k.doing = j.doing /\ k.seen = j.seen
          /\ k.bad = j.bad /\ k.ses = j.ses
        BY <3>1
    <3> QED BY <2>b, <3>0, <3>f, <3>2
  <2>8. CASE Plugs!Quote(c)
    <3>0. j.at = "quote" /\ UNCHANGED <<relay, live, table>>
        BY <2>8, <2>c DEF Plugs!Quote, Plugs!plugVars
    <3>1. PICK k : k = [j EXCEPT !.at = IF Plugs!Good(c) THEN "sent" ELSE "back", !.reply = "lost"]
        OBVIOUS
    <3>2. plugCall' = [plugCall EXCEPT ![c] = k]
        BY <2>8, <2>c, <3>1 DEF Plugs!Quote
    <3>3. k.at \in {"sent", "back"} /\ k.want = j.want /\ k.doing = j.doing /\ k.seen = j.seen
          /\ k.bad = j.bad /\ k.ses = j.ses /\ k.reply = "lost"
        BY <3>1
    <3>4. ReplyOK(k)
        BY <3>3 DEF ReplyOK
    <3> QED BY <2>b, <3>0, <3>2, <3>3, <3>4
  <2>9. CASE Plugs!SessionFails(c)
    <3>0. /\ j.at = "back" /\ table' = NoSession /\ UNCHANGED <<relay, live>>
          /\ Plugs!Again(c)
        BY <2>9, <2>c DEF Plugs!SessionFails, Plugs!plugVars
    <3>1. CASE j.bad = NoSession
      <4>1. PICK k : k = [j EXCEPT !.at = "ask", !.ses = NoSession, !.bad = j.ses, !.torn = FALSE]
          OBVIOUS
      <4>2. plugCall' = [plugCall EXCEPT ![c] = k]
          BY <2>c, <3>0, <3>1, <4>1 DEF Plugs!Again
      <4>3. k.at = "ask" /\ k.want = j.want /\ k.doing = j.doing /\ k.seen = j.seen
            /\ k.bad = j.ses /\ k.ses = NoSession
          BY <4>1
      <4>4. PlugCallOK(k, relay) /\ FreshOn(k, table')
          BY <2>0, <3>0, <4>3 DEF PlugCallOK, FreshOn
      <4> QED BY <3>0, <4>2, <4>3, <4>4, PlugCallGoesOn
    <3>2. CASE j.bad # NoSession
      <4>1. PICK k : k = Plugs!Idle
          OBVIOUS
      <4>2. plugCall' = [plugCall EXCEPT ![c] = k] /\ plugTold' = "raised"
          BY <2>c, <3>0, <3>2, <4>1 DEF Plugs!Again, Plugs!Tells
      <4>3. PlugCallOK(k, relay) /\ FreshOn(k, table')
          BY <4>1 DEF PlugCallOK, FreshOn, Plugs!Idle
      <4>4. Truth(j, plugTold')
          BY <4>2 DEF Truth
      <4> QED BY <2>c, <3>0, <4>2, <4>3, <4>4, PlugCallGoesOn
    <3> QED BY <3>1, <3>2
  <2>10. CASE Plugs!Unheard(c)
    <3>0. j.at = "back" /\ UNCHANGED <<relay, live, table>>
        BY <2>10, <2>c DEF Plugs!Unheard, Plugs!plugVars
    <3>1. PICK k : k = [j EXCEPT !.at = "ask", !.left = Tail(@)]
        OBVIOUS
    <3>2. plugCall' = [plugCall EXCEPT ![c] = k]
        BY <2>10, <2>c, <3>1 DEF Plugs!Unheard
    <3>f. k.at = "ask" /\ k.want = j.want /\ k.doing = j.doing /\ k.seen = j.seen
          /\ k.bad = j.bad /\ k.ses = j.ses
        BY <3>1
    <3> QED BY <2>b, <3>0, <3>f, <3>2
  <2>11. CASE Plugs!IsRead(c)
    <3>1. /\ j.at = "back" /\ j.want = "read" /\ UNCHANGED <<relay, live, table>>
          /\ Plugs!Tells(c, j.reply)
        BY <2>11, <2>c DEF Plugs!IsRead, Plugs!plugVars, Plugs!Reading
    <3>2. ReplyOK(j) /\ j.doing = "read"
        BY <2>0, <3>1 DEF PlugCallOK
    <3>3. Truth(j, j.reply)
        BY <3>2 DEF Truth, ReplyOK
    <3>4. PICK t : t = j.reply
        OBVIOUS
    <3> QED BY <2>a, <3>1, <3>3, <3>4
  <2>12. CASE Plugs!IsSet(c)
    <3>0. /\ j.at = "back" /\ j.want # "read" /\ UNCHANGED <<relay, live, table>>
        BY <2>12, <2>c DEF Plugs!IsSet, Plugs!plugVars
    <3>1. ReplyOK(j) /\ j.want \in {"on", "off"} /\ j.doing \in {j.want, "read"}
        BY <2>0, <3>0 DEF PlugCallOK
    <3>2. CASE backend = "wemo" /\ j.doing # "read" /\ j.reply # "done"
      <4>1. PICK left, k : left = Plugs!Candidates
                           /\ k = [j EXCEPT !.at = "ask", !.doing = "read", !.left = left]
          OBVIOUS
      <4>2. plugCall' = [plugCall EXCEPT ![c] = k]
          BY <2>12, <2>c, <3>2, <4>1 DEF Plugs!IsSet
      <4>f. k.at = "ask" /\ k.want = j.want /\ k.doing = "read" /\ k.seen = j.seen
            /\ k.bad = j.bad /\ k.ses = j.ses
          BY <4>1
      <4> QED BY <2>b, <3>0, <4>f, <4>2
    <3>3. CASE ~(backend = "wemo" /\ j.doing # "read" /\ j.reply # "done")
      <4>1. PICK t : t = IF Plugs!Succeeds(c) THEN "ok" ELSE "raised"
          OBVIOUS
      <4>2. Plugs!Tells(c, t)
          BY <2>12, <2>c, <3>3, <4>1 DEF Plugs!IsSet
      <4>0. t \in {"ok", "raised"} /\ (t = "ok" => j.reply \in {"done", j.want, "unsure"})
          BY <2>c, <4>1 DEF Plugs!Succeeds
      <4>3. Truth(j, t)
        <5>1. CASE j.doing = "read"
            BY <3>1, <4>0, <5>1 DEF Truth, ReplyOK
        <5>2. CASE j.doing # "read"
            BY <3>1, <4>0, <5>2 DEF Truth, ReplyOK
        <5> QED BY <5>1, <5>2
      <4> QED BY <2>a, <3>0, <4>2, <4>3
    <3> QED BY <3>2, <3>3
  <2>13. CASE Plugs!Serve(c)
      BY <2>13, PlugMoves
  <2> QED BY <1>2, <2>1, <2>2, <2>3, <2>4, <2>5, <2>6, <2>7, <2>8, <2>9, <2>10, <2>11, <2>12,
             <2>13
          DEF Plugs!CallerStep
<1> QED BY <1>1, <1>2 DEF Plugs!Next

LEMMA PlugInductive == Plugs!Spec => []PlugInv
<1>1. Plugs!Init => PlugInv
  <2> SUFFICES ASSUME Plugs!Init PROVE PlugInv
      OBVIOUS
  <2>1. /\ relay \in {"on", "off"} /\ live = {} /\ table = NoSession
        /\ plugCall = [c \in PlugCallers |-> Plugs!Idle]
      BY DEF Plugs!Init
  <2>2. IsFiniteSet(live) /\ Cardinality(live) <= 1
      BY <2>1, FS_EmptySet
  <2>3. \A c \in PlugCallers : PlugCallOK(plugCall[c], relay) /\ FreshOn(plugCall[c], table)
      BY <2>1 DEF PlugCallOK, FreshOn, Plugs!Idle
  <2> QED BY <2>1, <2>2, <2>3 DEF PlugInv
<1>2. PlugInv /\ [Plugs!Next]_Plugs!vars => PlugInv'
  <2>1. CASE Plugs!Next
      BY <2>1, PlugStep
  <2>2. CASE UNCHANGED Plugs!vars
    <3>1. UNCHANGED <<relay, live, table, plugCall>>
        BY <2>2 DEF Plugs!vars
    <3> QED BY <3>1 DEF PlugInv
  <2> QED BY <2>1, <2>2
<1> QED BY <1>1, <1>2, PTL DEF Plugs!Spec

\* A reading that is given out is of a state the relay had during the call, a set
\* that did not raise and was answered with a verdict was done, whichever protocol,
\* retry or read-back led to the answer; and no second attempt goes out on the
\* session of the first (Plugs!ToldTruly, RetryIsFresh).
THEOREM PlugToldTruly == Plugs!Spec => Plugs!ToldTruly /\ []Plugs!RetryIsFresh
<1>1. PlugInv => Plugs!RetryIsFresh
    BY DEF PlugInv, FreshOn, Plugs!RetryIsFresh
<1>2. PlugInv /\ [Plugs!Next]_Plugs!vars => [TellsTruly]_Plugs!vars
    BY PlugStep
<1>3. [TellsTruly]_Plugs!vars =>
          [\A c \in PlugCallers : Plugs!Ends(c) =>
              /\ plugTold' \in {"on", "off"} => plugTold' \in plugCall[c].seen
              /\ plugTold' = "ok" /\ plugCall[c].reply # "unsure"
                    => plugCall[c].want \in plugCall[c].seen]_Plugs!vars
    BY DEF TellsTruly, Truth, Plugs!Ends
<1> QED BY PlugInductive, <1>1, <1>2, <1>3, PTL DEF Plugs!Spec, Plugs!ToldTruly

-----------------------------------------------------------------------------
(* The agent's side of the input lock. *)

\* When the daemon's lock is ours, the manager remembers it, or a call that will
\* make it remember, or give it back, is on its way, or one failed; and what is
\* remembered but not sticky is remembered on behalf of a call under way.
Accounted ==
    /\ lockOwner = Me => \/ heldFlag
                         \/ \E t \in Tools : toolAt[t] \in {"granted", "releasing"}
                         \/ lockWatch = "releasing"
                         \/ abandoned
    /\ heldFlag /\ ~sticky =>
           \E t \in Tools : toolAt[t] \in {"ready", "driven", "finishing"}

LEMMA LockAssumed == McpLock!LockAssumption
  BY PartsAssumption DEF PartsAssumption

\* Every variable keeps its type.
THEOREM LockTypes == McpLock!Spec => []McpLock!TypeOK
<1> USE LockAssumed DEF McpLock!LockAssumption, McpLock!TypeOK, McpLock!Progress, McpLock!failures
<1>1. McpLock!Init => McpLock!TypeOK
  BY DEF McpLock!Init
<1>2. ASSUME McpLock!TypeOK, [McpLock!Next]_McpLock!vars PROVE McpLock!TypeOK'
  <2> USE <1>2
  <2>1. ASSUME NEW t \in Tools, McpLock!GatedCall(t) \/ McpLock!KeepEnsures(t)
        PROVE  McpLock!TypeOK'
    BY <2>1 DEF McpLock!GatedCall, McpLock!KeepEnsures, McpLock!Ensure, McpLock!Goes
  <2>2. ASSUME NEW t \in Tools, McpLock!KeepCall(t) \/ McpLock!LetGo(t) PROVE McpLock!TypeOK'
    BY <2>2 DEF McpLock!KeepCall, McpLock!LetGo, McpLock!Goes, McpLock!Forget
  <2>3. ASSUME NEW t \in Tools,
               \/ McpLock!AskDaemon(t) \/ McpLock!AskFails(t) \/ McpLock!AnswerLost(t)
               \/ McpLock!Remember(t) \/ McpLock!ToldDaemon(t)
        PROVE  McpLock!TypeOK'
    BY <2>3
       DEF McpLock!AskDaemon, McpLock!AskFails, McpLock!AnswerLost, McpLock!Remember,
           McpLock!ToldDaemon, McpLock!ReleaseAtDaemon, McpLock!Released, McpLock!Goes
  <2>4. ASSUME NEW t \in Tools,
               McpLock!Drive(t) \/ McpLock!Finish(t) \/ McpLock!FinishReleases(t) \/ McpLock!MarkSticky(t)
        PROVE  McpLock!TypeOK'
    BY <2>4
       DEF McpLock!Drive, McpLock!Finish, McpLock!FinishReleases, McpLock!MarkSticky,
           McpLock!Forget, McpLock!Goes
  <2>5. ASSUME NEW o \in OtherOwners, McpLock!OtherStep(o) PROVE McpLock!TypeOK'
    BY <2>5
       DEF McpLock!OtherStep, McpLock!OtherAcquires, McpLock!OtherReleases, McpLock!OtherBreaks
  <2>6. CASE McpLock!IdleStep
    BY <2>6
       DEF McpLock!IdleStep, McpLock!IdleExpires, McpLock!IdleForgets, McpLock!IdleTellsDaemon,
           McpLock!Forget, McpLock!ReleaseAtDaemon, McpLock!Released
  <2>7. CASE \/ McpLock!JobStarts \/ McpLock!JobEnds
             \/ McpLock!StrayAcquire \/ McpLock!StrayRelease
    BY <2>7 DEF McpLock!JobStarts, McpLock!JobEnds, McpLock!StrayAcquire, McpLock!StrayRelease,
                McpLock!Released
  <2>8. CASE UNCHANGED McpLock!vars
    BY <2>8 DEF McpLock!vars
  <2> QED BY <2>1, <2>2, <2>3, <2>4, <2>5, <2>6, <2>7, <2>8
             DEF McpLock!Next, McpLock!ToolStep, McpLock!Continue
<1> QED BY <1>1, <1>2, PTL DEF McpLock!Spec

LEMMA AccountedStep ==
    ASSUME McpLock!TypeOK, Accounted, [McpLock!Next]_McpLock!vars
    PROVE  Accounted'
<1> USE LockAssumed DEF McpLock!LockAssumption, Accounted, McpLock!TypeOK, McpLock!failures
<1>1. ASSUME NEW t \in Tools, McpLock!GatedCall(t) \/ McpLock!KeepEnsures(t) PROVE Accounted'
  BY <1>1 DEF McpLock!GatedCall, McpLock!KeepEnsures, McpLock!Ensure, McpLock!Goes
<1>2. ASSUME NEW t \in Tools, McpLock!KeepCall(t) PROVE Accounted'
  BY <1>2 DEF McpLock!KeepCall, McpLock!Goes
<1>3. ASSUME NEW t \in Tools, McpLock!LetGo(t) PROVE Accounted'
  BY <1>3 DEF McpLock!LetGo, McpLock!Goes, McpLock!Forget
<1>4. ASSUME NEW t \in Tools, McpLock!AskDaemon(t) PROVE Accounted'
  BY <1>4 DEF McpLock!AskDaemon, McpLock!Goes
<1>4a. ASSUME NEW t \in Tools, McpLock!AskFails(t) PROVE Accounted'
  BY <1>4a DEF McpLock!AskFails, McpLock!Goes
<1>4b. ASSUME NEW t \in Tools, McpLock!AnswerLost(t) PROVE Accounted'
  <2>1. /\ toolAt[t] = "granted" /\ toolAt' = [toolAt EXCEPT ![t] = "idle"]
        /\ abandoned' = (abandoned \/ lockOwner = Me)
        /\ UNCHANGED <<lockOwner, heldFlag, sticky, lockWatch>>
    BY <1>4b DEF McpLock!AnswerLost, McpLock!Goes
  <2>2. lockOwner' = Me => abandoned'
    BY <2>1
  <2> QED BY <2>1, <2>2
<1>5. ASSUME NEW t \in Tools, McpLock!Remember(t) PROVE Accounted'
  BY <1>5 DEF McpLock!Remember, McpLock!Goes
<1>6. ASSUME NEW t \in Tools, McpLock!ToldDaemon(t) PROVE Accounted'
  BY <1>6 DEF McpLock!ToldDaemon, McpLock!ReleaseAtDaemon, McpLock!Released, McpLock!Goes
<1>7. ASSUME NEW t \in Tools, McpLock!Drive(t) PROVE Accounted'
  BY <1>7 DEF McpLock!Drive, McpLock!Goes
<1>8. ASSUME NEW t \in Tools, McpLock!Finish(t) PROVE Accounted'
  BY <1>8 DEF McpLock!Finish, McpLock!Goes
<1>9. ASSUME NEW t \in Tools, McpLock!FinishReleases(t) PROVE Accounted'
  BY <1>9 DEF McpLock!FinishReleases, McpLock!Forget, McpLock!Goes
<1>10. ASSUME NEW t \in Tools, McpLock!MarkSticky(t) PROVE Accounted'
  BY <1>10 DEF McpLock!MarkSticky, McpLock!Goes
<1>11. ASSUME NEW o \in OtherOwners, McpLock!OtherStep(o) PROVE Accounted'
  BY <1>11
     DEF McpLock!OtherStep, McpLock!OtherAcquires, McpLock!OtherReleases, McpLock!OtherBreaks
<1>12. CASE McpLock!IdleStep
  <2>1. CASE McpLock!IdleExpires \/ McpLock!IdleForgets
    BY <2>1 DEF McpLock!IdleExpires, McpLock!IdleForgets, McpLock!Forget
  <2>2. CASE McpLock!IdleTellsDaemon
    <3>1. UNCHANGED <<heldFlag, sticky, toolAt>>
      BY <2>2 DEF McpLock!IdleTellsDaemon
    <3>2. lockOwner' = Me => abandoned'
      BY <2>2 DEF McpLock!IdleTellsDaemon, McpLock!ReleaseAtDaemon, McpLock!Released
    <3> QED BY <3>1, <3>2
  <2> QED BY <1>12, <2>1, <2>2 DEF McpLock!IdleStep
<1>13. CASE McpLock!JobStarts \/ McpLock!JobEnds
  BY <1>13 DEF McpLock!JobStarts, McpLock!JobEnds
<1>13a. CASE McpLock!StrayAcquire
  <2>1. UNCHANGED <<heldFlag, sticky, toolAt, lockWatch>>
    BY <1>13a DEF McpLock!StrayAcquire
  <2>2. /\ lockOwner' = Me => abandoned' \/ lockOwner = Me
        /\ abandoned => abandoned'
    <3>1. CASE lockOwner' = Me /\ abandoned' = (abandoned \/ lockOwner # Me)
      BY <3>1
    <3>2. CASE lockOwner' = lockOwner /\ lockOwner # Me /\ abandoned' = abandoned
      BY <3>2
    <3> QED BY <1>13a, <3>1, <3>2 DEF McpLock!StrayAcquire
  <2> QED BY <2>1, <2>2
<1>13b. CASE McpLock!StrayRelease
  BY <1>13b DEF McpLock!StrayRelease, McpLock!Released
<1>14. CASE UNCHANGED McpLock!vars
  BY <1>14 DEF McpLock!vars
<1> QED BY <1>1, <1>2, <1>3, <1>4, <1>4a, <1>4b, <1>5, <1>6, <1>7, <1>8, <1>9, <1>10,
           <1>11, <1>12, <1>13, <1>13a, <1>13b, <1>14 DEF McpLock!Next, McpLock!ToolStep, McpLock!Continue

\* However tool calls, the idle watch, an operator's break and calls that fail, are
\* lost or come late interleave: once all is quiet, a lock that nobody asked to keep
\* is ours at the daemon only where a call failed and none was answered since.
THEOREM FootprintIsMinimal == McpLock!Spec => []McpLock!QuietMeansReleased
<1>1. McpLock!Init => Accounted
  BY LockAssumed DEF McpLock!LockAssumption, McpLock!Init, Accounted
<1>2. McpLock!TypeOK /\ Accounted => McpLock!QuietMeansReleased
  BY DEF McpLock!TypeOK, Accounted, McpLock!QuietMeansReleased, McpLock!Quiet, McpLock!AllIdle
<1> QED BY <1>1, <1>2, AccountedStep, LockTypes, PTL DEF McpLock!Spec

-----------------------------------------------------------------------------
(* All of them together (Parts). *)

\* Of a step of all the parts each part sees a step of its own, or none.
LEMMA EachItsOwn ==
    ASSUME [Next]_vars
    PROVE  /\ [HarnessBoot!Next]_HarnessBoot!vars
           /\ [Staging!Next]_Staging!vars /\ [MsdLun!Next]_MsdLun!vars
           /\ [PulledStore!Next]_PulledStore!vars /\ [ListingStore!Next]_ListingStore!vars
           /\ [FileServer!Next]_FileServer!vars /\ [Plugs!Next]_Plugs!vars
           /\ [PointerQueue!Next]_PointerQueue!vars /\ [CapsTrack!Next]_CapsTrack!vars
           /\ [Profiles!Next]_Profiles!vars /\ [Registry!Next]_Registry!vars
           /\ [EventBus!Next]_EventBus!vars /\ [InputLog!Next]_InputLog!vars
           /\ [AudioRelay!Next]_AudioRelay!vars
           /\ [McpLock!Next]_McpLock!vars
<1>1. /\ UNCHANGED harnessVars => UNCHANGED HarnessBoot!vars
      /\ UNCHANGED stagedVars => UNCHANGED Staging!vars
      /\ UNCHANGED lunVars => UNCHANGED MsdLun!vars
      /\ UNCHANGED pulledVars => UNCHANGED PulledStore!vars
      /\ UNCHANGED listedVars => UNCHANGED ListingStore!vars
      /\ UNCHANGED serverVars => UNCHANGED FileServer!vars
      /\ UNCHANGED plugVars => UNCHANGED Plugs!vars
      /\ UNCHANGED pointerVars => UNCHANGED PointerQueue!vars
      /\ UNCHANGED capsVars => UNCHANGED CapsTrack!vars
      /\ UNCHANGED profileVars => UNCHANGED Profiles!vars
      /\ UNCHANGED registryVars => UNCHANGED Registry!vars
      /\ UNCHANGED busVars => UNCHANGED EventBus!vars
      /\ UNCHANGED logVars => UNCHANGED InputLog!vars
      /\ UNCHANGED relayVars => UNCHANGED AudioRelay!vars
      /\ UNCHANGED mcpVars => UNCHANGED McpLock!vars
    BY DEF plugVars, serverVars, pointerVars, capsVars, harnessVars, profileVars,
          registryVars, stagedVars, lunVars, pulledVars, PulledStore!store, PulledStore!saves,
          listedVars, busVars, logVars, relayVars,
          mcpVars, McpLock!vars, HarnessBoot!vars, Staging!vars, MsdLun!vars, PulledStore!vars, ListingStore!vars,
          FileServer!vars, Plugs!vars, PointerQueue!vars, CapsTrack!vars, Profiles!vars,
          Registry!vars, EventBus!vars, InputLog!vars, AudioRelay!vars
<1>2. CASE UNCHANGED vars
    BY <1>1, <1>2 DEF vars
<1>3. CASE Next
  <2>1. /\ moving # "harness" => UNCHANGED harnessVars
        /\ moving # "staging" => UNCHANGED stagedVars
        /\ moving # "lun" => UNCHANGED lunVars
        /\ moving # "pulled" => UNCHANGED pulledVars
        /\ moving # "listings" => UNCHANGED listedVars
        /\ moving # "file server" => UNCHANGED serverVars
        /\ moving # "plugs" => UNCHANGED plugVars
        /\ moving # "pointer" => UNCHANGED pointerVars
        /\ moving # "caps" => UNCHANGED capsVars
        /\ moving # "profiles" => UNCHANGED profileVars
        /\ moving # "registry" => UNCHANGED registryVars
        /\ moving # "bus" => UNCHANGED busVars
        /\ moving # "log" => UNCHANGED logVars
        /\ moving # "relay" => UNCHANGED relayVars
        /\ moving # "mcp" => UNCHANGED mcpVars
      BY <1>3 DEF Next, OthersStay, Stays
  <2>2. /\ moving = "harness" => HarnessBoot!Next
        /\ moving = "staging" => Staging!Next
        /\ moving = "lun" => MsdLun!Next
        /\ moving = "pulled" => PulledStore!Next
        /\ moving = "listings" => ListingStore!Next
        /\ moving = "file server" => FileServer!Next
        /\ moving = "plugs" => Plugs!Next
        /\ moving = "pointer" => PointerQueue!Next
        /\ moving = "caps" => CapsTrack!Next
        /\ moving = "profiles" => Profiles!Next
        /\ moving = "registry" => Registry!Next
        /\ moving = "bus" => EventBus!Next
        /\ moving = "log" => InputLog!Next
        /\ moving = "relay" => AudioRelay!Next
        /\ moving = "mcp" => McpLock!Next
      BY <1>3 DEF Next
  <2>3. [HarnessBoot!Next]_(HarnessBoot!vars) /\ [Staging!Next]_(Staging!vars)
      BY <1>1, <2>1, <2>2
  <2>4. [MsdLun!Next]_(MsdLun!vars) /\ [PulledStore!Next]_(PulledStore!vars)
      BY <1>1, <2>1, <2>2
  <2>5. [ListingStore!Next]_(ListingStore!vars) /\ [FileServer!Next]_(FileServer!vars)
      BY <1>1, <2>1, <2>2
  <2>6. [Plugs!Next]_(Plugs!vars) /\ [PointerQueue!Next]_(PointerQueue!vars)
      BY <1>1, <2>1, <2>2
  <2>7. [CapsTrack!Next]_(CapsTrack!vars) /\ [Profiles!Next]_(Profiles!vars)
      BY <1>1, <2>1, <2>2
  <2>8. [Registry!Next]_(Registry!vars) /\ [EventBus!Next]_(EventBus!vars)
      BY <1>1, <2>1, <2>2
  <2>10. [InputLog!Next]_(InputLog!vars)
      BY <1>1, <2>1, <2>2
  <2>9. [AudioRelay!Next]_(AudioRelay!vars) /\ [McpLock!Next]_(McpLock!vars)
      BY <1>1, <2>1, <2>2
  <2> QED BY <2>3, <2>4, <2>5, <2>6, <2>7, <2>8, <2>9, <2>10
<1> QED BY <1>2, <1>3

\* So what each part does in a behaviour of all is a behaviour of its own.
LEMMA PartsBehave ==
    Spec => /\ HarnessBoot!Spec /\ Staging!Spec /\ MsdLun!Spec /\ PulledStore!Spec
            /\ ListingStore!Spec /\ FileServer!Spec /\ Plugs!Spec /\ PointerQueue!Spec
            /\ CapsTrack!Spec /\ Profiles!Spec /\ Registry!Spec /\ EventBus!Spec
            /\ InputLog!Spec /\ AudioRelay!Spec /\ McpLock!Spec
<1>1. Init => /\ HarnessBoot!Init /\ Staging!Init /\ MsdLun!Init /\ PulledStore!Init
              /\ ListingStore!Init /\ FileServer!Init /\ Plugs!Init /\ PointerQueue!Init
              /\ CapsTrack!Init /\ Profiles!Init /\ Registry!Init /\ EventBus!Init
              /\ InputLog!Init /\ AudioRelay!Init /\ McpLock!Init
    BY DEF Init
<1> QED
    BY <1>1, EachItsOwn, PTL
       DEF Spec, HarnessBoot!Spec, Staging!Spec, MsdLun!Spec, PulledStore!Spec,
           ListingStore!Spec, FileServer!Spec, Plugs!Spec, PointerQueue!Spec, CapsTrack!Spec,
           Profiles!Spec, Registry!Spec, EventBus!Spec, InputLog!Spec, AudioRelay!Spec,
           McpLock!Spec

\* The plug and the file server: a reading that is given out is of a state the
\* relay had during the call, a retry has a session of its own, the file server is
\* offered only while it answered lately, and who asks afresh is told how it is
\* (OthersToldTruly).
THEOREM OthersAreToldTruly == Spec => OthersToldTruly
<1>1. Plugs!RetryIsFresh => Of("plugs", Plugs!RetryIsFresh)
    BY DEF Of
<1>2. FileServer!OfferedIsRecent /\ FileServer!GoIsRecent =>
          Of("file server", FileServer!OfferedIsRecent /\ FileServer!GoIsRecent)
    BY DEF Of
<1>3. FileServer!TimesAssumption
    BY PartsAssumption DEF PartsAssumption
<1>4. FileServer!Spec => [](FileServer!OfferedIsRecent /\ FileServer!GoIsRecent)
    BY <1>3, OffersAreRecent, ChecksAreRecent, PTL
<1> QED BY PartsBehave, PlugToldTruly, <1>1, <1>2, <1>4, PTL DEF OthersToldTruly

\* The pointer's queue loses no pixel and answers "sent" when the request's own move
\* is dealt with, and the caps state that is remembered is the target's, unless it
\* was loaded from a file a failed save left behind (InputIsFollowed).
THEOREM InputIsFollowedEverywhere == Spec => InputIsFollowed
<1>1. PointerQueue!NothingLost => Of("pointer", PointerQueue!NothingLost)
    BY DEF Of
<1>2. CapsTrack!TrackedIsTrue => Of("caps", CapsTrack!TrackedIsTrue)
    BY DEF Of
<1> QED BY PartsBehave, MovesArrive, LatchIsTracked, <1>1, <1>2, PTL DEF InputIsFollowed

\* The harness says "ready" of a machine that has booted since, and a probe leaves
\* Num Lock as it was (BootIsProven).
THEOREM BootsAreProven == Spec => BootIsProven
<1>1. HarnessBoot!ProbeRestores => Of("harness", HarnessBoot!ProbeRestores)
    BY DEF Of
<1> QED BY PartsBehave, ReportedStartHappened, ProbeLeavesNoTrace, <1>1, PTL DEF BootIsProven

\* A profile is served under its own configuration and found by its name, and a
\* capability is running, failed or off (ProfilesStandAlone), where no file bears
\* the primary's name.
THEOREM ProfilesDoStandAlone ==
    ASSUME ~SameName
    PROVE  Spec => []ProfilesStandAlone
<1>1. /\ Profiles!AnswersForItself /\ Profiles!NamesReachTheirProfile /\ Profiles!EitherPath
      /\ Registry!ThreeStates /\ Registry!VerifyInputBelongs
      => ProfilesStandAlone
    BY DEF ProfilesStandAlone, Of
<1> QED BY PartsBehave, ProfilesAnswerForThemselves, CapabilitiesAreOne, <1>1, PTL

\* Staged files, images, pulled copies and listings are whole (FilesAreWhole).
THEOREM FilesStayWhole == Spec => FilesAreWhole
<1>1. /\ Staging!StagingAssumption /\ MsdLun!LunAssumption
      /\ PulledStore!SizeAssumption /\ ListingStore!ListingAssumption
    BY PartsAssumption DEF PartsAssumption
<1>2. /\ Staging!PublishedWhole => Of("staging", Staging!PublishedWhole)
      /\ MsdLun!ExposedAsAsked => Of("lun", MsdLun!ExposedAsAsked)
      /\ PulledStore!RecordIsTrue /\ PulledStore!SavedIsOneCopy =>
             Of("pulled", PulledStore!RecordIsTrue /\ PulledStore!SavedIsOneCopy)
      /\ ListingStore!LastReadableKept => Of("listings", ListingStore!LastReadableKept)
    BY DEF Of
<1>3. /\ Staging!Spec => []Staging!PublishedWhole
      /\ Staging!Spec => Staging!FreshStartAccepted
      /\ Staging!Spec => Staging!ImageKept
    BY <1>1, PublishedFilesAreWhole, FreshStartsAreAccepted, ImagesAreKept
<1>4. /\ MsdLun!Spec => []MsdLun!ExposedAsAsked
      /\ PulledStore!Spec => []PulledStore!RecordIsTrue
      /\ PulledStore!Spec => []PulledStore!SavedIsOneCopy
      /\ ListingStore!Spec => []ListingStore!LastReadableKept
    BY <1>1, ImageIsAsAsked, RecordsAreTrue, SavesAreWhole, ListingsAreKept
<1> QED BY PartsBehave, <1>2, <1>3, <1>4, PTL DEF FilesAreWhole

\* A page is told of a gap, the log keeps its newest lines over rotations that fail
\* half-way, and a listener hears a stream from its headers on with nothing missing
\* (FollowersMissNothing).
THEOREM FollowersMissNothingEver == Spec => []FollowersMissNothing
<1>1. AudioRelay!RelayAssumption
    BY PartsAssumption DEF PartsAssumption
<1>2. /\ EventBus!PageIsTold /\ InputLog!LogKeepsLines
      /\ AudioRelay!HeardFromTheStart /\ AudioRelay!ListIsOfThisStream
      => FollowersMissNothing
    BY DEF FollowersMissNothing, Of
<1>3. AudioRelay!Spec => []AudioRelay!HeardFromTheStart
    BY <1>1, RelayHeardFromTheStart
<1>4. AudioRelay!Spec => []AudioRelay!ListIsOfThisStream
    BY <1>1, RelayListIsOfThisStream
<1> QED BY PartsBehave, GapsAreTold, LinesAreKept, <1>2, <1>3, <1>4, PTL

\* However tool calls, the idle watch and an operator's break interleave, a lock that
\* nobody asked to keep is not the agent's at the daemon once all is quiet
\* (LockIsGivenBack).
THEOREM LockIsAlwaysGivenBack == Spec => []LockIsGivenBack
<1>1. McpLock!QuietMeansReleased => LockIsGivenBack
    BY DEF LockIsGivenBack, Of
<1> QED BY PartsBehave, FootprintIsMinimal, <1>1, PTL
=============================================================================
