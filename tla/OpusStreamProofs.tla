-------------------------- MODULE OpusStreamProofs --------------------------
(***************************************************************************)
(* Proofs about OpusStream for any finite set of listeners, any number of  *)
(* processes and header pages, any ring length and skip-ahead rule: pages  *)
(* of two processes never meet in one connection, and there is an encoder  *)
(* only while somebody listens.                                            *)
(***************************************************************************)
EXTENDS OpusStream, TLAPS, FiniteSetTheorems, SequenceTheorems

-----------------------------------------------------------------------------
(* Types. *)

\* Starting and ending a process keep the types of the stream and of the processes.
LEMMA StartedType ==
    ASSUME StreamType, ProcessType, NEW g \in Nat, NEW others \in SUBSET Procs,
           NEW readers \in [Procs -> ReaderStates], Started(g, others, readers)
    PROVE  StreamType' /\ ProcessType'
<1>1. StreamType'
  <2>1. headers' \in Seq(Pages)
    BY EmptySeq DEF Started, EmptyStream
  <2> QED BY <2>1 DEF Started, EmptyStream, StreamType
<1>2. ProcessType'
  BY StreamAssumption DEF Started, ProcessType, ReaderStates
<1> QED BY <1>1, <1>2

LEMMA KillType ==
    ASSUME StreamType, ProcessType, Kill, reader' \in [Procs -> ReaderStates]
    PROVE  StreamType' /\ ProcessType'
<1>1. StreamType'
  <2>1. headers' \in Seq(Pages)
    BY EmptySeq DEF Kill, EmptyStream
  <2>2. proc' \in Procs \cup {NoProc} /\ generation' \in Nat
    BY DEF Kill, StreamType
  <2>3. headersDone' \in BOOLEAN /\ ring' \subseteq Entries /\ seq' \in Nat
    BY DEF Kill, EmptyStream, StreamType
  <2> QED BY <2>1, <2>2, <2>3 DEF StreamType
<1>2. ProcessType'
  BY DEF Kill, ProcessType
<1> QED BY <1>1, <1>2

LEMMA FrameType ==
    ASSUME StreamType, ProcessType, UNCHANGED <<streamVars, processVars>>
    PROVE  StreamType' /\ ProcessType'
BY DEF StreamType, ProcessType, streamVars, processVars

\* A page and the count of pages go forward together.
LEMMA Forward ==
    ASSUME NEW a \in Nat, NEW b \in Nat, NEW c \in Nat, NEW d \in Nat
    PROVE  a - b = c - d => (a + 1) - b = (c + 1) - d
OBVIOUS

LEMMA Later ==
    ASSUME NEW a \in Int, NEW k \in Int, NEW b \in Nat, NEW m \in Nat, NEW c \in Nat,
           NEW n \in Nat, a - b = k - m, a - c = k - n, c > b
    PROVE  n > m
OBVIOUS

LEMMA TrimmedSubset == ASSUME NEW S PROVE Trimmed(S) \subseteq S
BY DEF Trimmed

LEMMA RecentSubset == ASSUME NEW S PROVE Recent(S) \subseteq S
BY DEF Recent

LEMMA InitType == Init => TypeOK
<1> SUFFICES ASSUME Init PROVE TypeOK
  OBVIOUS
<1>1. headers \in Seq(Pages)
  BY EmptySeq DEF Init
<1>2. StreamType
  BY <1>1 DEF Init, StreamType
<1>3. ProcessType
  BY DEF Init, ProcessType, ReaderStates
<1>4. greeting \in [Listeners -> Seq(Pages)]
  BY EmptySeq DEF Init
<1>5. pending \in [Listeners -> SUBSET Entries]
  BY DEF Init
<1>6. ListenerType
  BY <1>4, <1>5 DEF Init, ListenerType, Stages
<1>7. CountType
  BY DEF Init, CountType
<1> QED BY <1>2, <1>3, <1>6, <1>7 DEF TypeOK

\* The last header a connection has to send is a page.
LEMMA LastHeader ==
    ASSUME NEW s \in Seq(Pages), NEW p \in Procs, Whole(s, p)
    PROVE  s[Len(s)] = [proc |-> p, n |-> HeaderPages] /\ s[Len(s)] \in Pages
BY StreamAssumption DEF Whole, Pages

\* Every variable keeps its type.
LEMMA TypeStep ==
    ASSUME TypeOK, StreamInv, [Next]_vars
    PROVE  TypeOK'
<1> USE DEF TypeOK
<1>1. ASSUME NEW l \in Listeners, Attach(l) PROVE TypeOK'
  <2>1. StreamType' /\ ProcessType'
    <3>1. CASE Spawn
      <4>1. generation + 1 \in Nat /\ alive \in SUBSET Procs
            /\ reader \in [Procs -> ReaderStates]
        BY DEF StreamType, ProcessType
      <4> QED BY <3>1, <4>1, StartedType, FrameType DEF Spawn, NotStarted
    <3> QED BY <1>1, <3>1, FrameType DEF Attach
  <2>2. ListenerType'
    BY <1>1, <2>1 DEF Attach, ListenerType, Stages, StreamType
  <2>3. CountType'
    BY <1>1 DEF Attach, CountType, stopVars
  <2> QED BY <2>1, <2>2, <2>3
<1>2. ASSUME NEW l \in Listeners, Detach(l) PROVE TypeOK'
  <2>1. StreamType' /\ ProcessType'
    BY <1>2, KillType, FrameType DEF Detach, ProcessType
  <2>2. ListenerType'
    BY <1>2 DEF Detach, ThreadEnds, ListenerType, Stages
  <2>3. CountType'
    BY <1>2 DEF Detach, CountType, stopVars
  <2> QED BY <2>1, <2>2, <2>3
<1>3. ASSUME NEW l \in Listeners,
             Outdated(l) \/ TakeHeaders(l) \/ SendHeaders(l) \/ TakePages(l)
               \/ SocketFull(l) \/ SendPages(l) \/ ClientGone(l)
      PROVE  TypeOK'
  <2>1. ListenerFrame
    BY <1>3 DEF Outdated, TakeHeaders, SendHeaders, TakePages, SocketFull, SendPages,
                ClientGone
  <2>2. StreamType' /\ ProcessType' /\ CountType'
    BY <2>1, FrameType DEF ListenerFrame, CountType, stopVars
  <2>3. CASE Outdated(l) \/ SocketFull(l) \/ ClientGone(l)
    BY <2>3, <2>2 DEF Outdated, SocketFull, ClientGone, Goes, ListenerType, Stages
  <2>4. CASE TakeHeaders(l)
    BY <2>4, <2>2 DEF TakeHeaders, Goes, ListenerType, Stages, StreamType
  <2>5. CASE TakePages(l)
    <3>1. Recent(Newer(last[l])) \in SUBSET Entries
      BY RecentSubset DEF Newer, StreamType
    <3> QED BY <2>5, <2>2, <3>1 DEF TakePages, Goes, ListenerType, Stages
  <2>6. CASE SendPages(l)
    <3>1. PICK x \in Newest(pending[l]) :
              /\ last' = [last EXCEPT ![l] = x.seq]
              /\ heard' = [heard EXCEPT ![l] = x.page]
      BY <2>6 DEF SendPages
    <3>2. x \in Entries
      BY <3>1 DEF Newest, ListenerType
    <3> QED BY <2>6, <2>2, <3>1, <3>2 DEF SendPages, Goes, ListenerType, Stages, Entries
  <2>7. CASE SendHeaders(l)
    <3>1. greeting[l][Len(greeting[l])] \in Pages
      BY <2>7, LastHeader DEF SendHeaders, StreamInv, Following, ListenerType
    <3>2. heard' \in [Listeners -> Pages \cup {NoPage}]
      BY <2>7, <3>1 DEF SendHeaders, ListenerType
    <3>3. greeting' \in [Listeners -> Seq(Pages)]
      BY <2>7, EmptySeq DEF SendHeaders, ListenerType
    <3> QED BY <2>7, <2>2, <3>2, <3>3 DEF SendHeaders, Goes, ListenerType, Stages
  <2> QED BY <1>3, <2>3, <2>4, <2>5, <2>6, <2>7
<1>4. ASSUME NEW p \in Procs, ProcDies(p) \/ ReaderReads(p) \/ ReaderAtEnd(p) \/ ReaderOutdated(p)
      PROVE  TypeOK'
  <2>1. StreamType' /\ ListenerType' /\ CountType'
    BY <1>4 DEF ProcDies, ReaderReads, ReaderAtEnd, ReaderOutdated, ReaderFrame, StreamType,
                ListenerType, CountType, streamVars, stopVars, listenerVars
  <2>2. ProcessType'
    BY <1>4 DEF ProcDies, ReaderReads, ReaderAtEnd, ReaderOutdated, ReaderFrame, ProcessType,
                ReaderStates
  <2> QED BY <2>1, <2>2
<1>5. ASSUME NEW p \in Procs, ReaderKeeps(p) PROVE TypeOK'
  <2>1. ListenerType' /\ CountType' /\ ProcessType'
    BY <1>5 DEF ReaderKeeps, ReaderFrame, ListenerType, CountType, ProcessType,
                ReaderStates, stopVars, listenerVars
  <2>2. Held(p) \in Pages
    BY <1>5, StreamAssumption DEF ReaderKeeps, Held, Pages, ProcessType, StreamInv, Births
  <2>3. StreamType'
    <3>1. CASE ~headersDone /\ IsHeader(Held(p))
      <4>1. headers' \in Seq(Pages)
        BY <1>5, <2>2, <3>1, AppendProperties DEF ReaderKeeps, StreamType
      <4> QED BY <1>5, <3>1, <4>1 DEF ReaderKeeps, StreamType
    <3>2. CASE ~(~headersDone /\ IsHeader(Held(p)))
      <4>1. [seq |-> seq + 1, page |-> Held(p)] \in Entries
        BY <2>2 DEF Entries, StreamType
      <4>2. ring' \subseteq Entries
        BY <1>5, <3>2, <4>1, TrimmedSubset DEF ReaderKeeps, StreamType
      <4>3. headersDone' = TRUE /\ seq' = seq + 1 /\ headers' = headers
        BY <1>5, <3>2, Zenon DEF ReaderKeeps
      <4>4. proc' = proc /\ generation' = generation
        BY <1>5 DEF ReaderKeeps
      <4> QED BY <4>2, <4>3, <4>4 DEF StreamType
    <3> QED BY <3>1, <3>2
  <2> QED BY <2>1, <2>3
<1>6. ASSUME NEW p \in Procs, ReaderEnds(p) PROVE TypeOK'
  <2>1. ListenerType' /\ CountType'
    BY <1>6 DEF ReaderEnds, ListenerType, CountType, stopVars, listenerVars
  <2>2. [reader EXCEPT ![p] = "gone"] \in [Procs -> ReaderStates]
    BY DEF ProcessType, ReaderStates
  <2>3. StreamType' /\ ProcessType'
    <3>1. CASE proc # p /\ reader' = [reader EXCEPT ![p] = "gone"]
               /\ UNCHANGED <<streamVars, spawned, alive, bornAs, made>>
      BY <3>1, <2>2 DEF StreamType, ProcessType, streamVars
    <3>2. CASE Kill /\ reader' = [reader EXCEPT ![p] = "gone"]
      BY <3>2, <2>2, KillType
    <3>3. CASE Started(generation + 2, alive \ {p}, [reader EXCEPT ![p] = "gone"])
      <4>1. generation + 2 \in Nat /\ alive \ {p} \in SUBSET Procs
        BY DEF StreamType, ProcessType
      <4> QED BY <3>3, <4>1, <2>2, StartedType
    <3> QED BY <1>6, <3>1, <3>2, <3>3 DEF ReaderEnds
  <2> QED BY <2>1, <2>3
<1>7. ASSUME StopBegins \/ UNCHANGED vars PROVE TypeOK'
  BY <1>7 DEF StopBegins, vars, StreamType, ProcessType, ListenerType, CountType, streamVars,
              processVars, listenerVars
<1>8. ASSUME StopKills PROVE TypeOK'
  <2>1. StreamType' /\ ProcessType'
    BY <1>8, KillType DEF StopKills, ProcessType
  <2>2. ListenerType' /\ CountType'
    BY <1>8 DEF StopKills, ListenerType, CountType, listenerVars
  <2> QED BY <2>1, <2>2
<1> QED BY <1>1, <1>2, <1>3, <1>4, <1>5, <1>6, <1>7, <1>8
        DEF Next, ListenerGoesOn, ReaderGoesOn

-----------------------------------------------------------------------------
(* The stream and its processes. *)

\* A new process is the only one of its generation and has an empty stream.
LEMMA StartedStream ==
    ASSUME TypeOK, Births, NEW g \in Nat, g > generation,
           NEW readers \in [Procs -> ReaderStates],
           \A q \in Procs : readers[q] = reader[q] \/ (readers[q] = "gone" /\ reader[q] # "unborn"),
           Started(g, {}, readers)
    PROVE  Births' /\ OwnPages' /\ generation' > generation
<1> USE StreamAssumption DEF TypeOK, StreamType, ProcessType
<1> DEFINE new == spawned + 1
<1>1. new \in Procs /\ proc' = new /\ generation' = g /\ spawned' = new
      /\ made' = made /\ alive' = {new} /\ new # NoProc
  BY DEF Started, NoProc
<1>2. /\ reader' = [readers EXCEPT ![new] = "reading"]
      /\ bornAs' = [bornAs EXCEPT ![new] = g]
  BY DEF Started
<1>3. made[new] = 0
  BY <1>1 DEF Births
<1>4. Births'
  <2>1. ASSUME NEW q \in Procs, q # new
        PROVE  /\ q > spawned' => reader'[q] = "unborn" /\ made'[q] = 0
               /\ reader'[q] = "holding" => made'[q] > 0
               /\ reader'[q] # "unborn" => bornAs'[q] < generation'
    BY <1>1, <1>2, <2>1 DEF Births
  <2>2. reader'[new] = "reading" /\ bornAs'[new] = generation'
    BY <1>1, <1>2
  <2>3. ASSUME NEW q \in Procs
        PROVE  /\ q > spawned' => reader'[q] = "unborn" /\ made'[q] = 0
               /\ reader'[q] = "holding" => made'[q] > 0
               /\ reader'[q] # "unborn" => bornAs'[q] <= generation'
               /\ reader'[q] # "unborn" /\ bornAs'[q] = generation' => q = proc'
    <3>1. CASE q = new
      BY <3>1, <2>2, <1>1
    <3>2. CASE q # new
      <4>1. bornAs'[q] \in Nat
        BY <1>1, <1>2
      <4> QED BY <3>2, <2>1, <1>1, <4>1
    <3> QED BY <3>1, <3>2
  <2>4. alive' \subseteq {proc'} \ {NoProc}
        /\ (proc' # NoProc => bornAs'[proc'] = generation' /\ reader'[proc'] # "unborn")
    BY <1>1, <2>2
  <2> QED BY <2>3, <2>4 DEF Births
<1>5. OwnPages'
  <2>1. headers' = <<>> /\ ~headersDone' /\ ring' = {}
    BY DEF Started, EmptyStream
  <2>2. Kept(proc)' = 0
    BY <1>1, <1>2, <1>3 DEF Kept
  <2>3. Len(headers') = 0
    BY <2>1
  <2> QED BY <2>1, <2>2, <2>3, <1>1 DEF OwnPages
<1> QED BY <1>1, <1>4, <1>5

\* Ending the process on record leaves nobody with the new generation.
LEMMA KillStream ==
    ASSUME TypeOK, Births, Kill, reader' \in [Procs -> ReaderStates],
           \A q \in Procs : reader'[q] = reader[q] \/ (reader'[q] = "gone" /\ reader[q] # "unborn")
    PROVE  Births' /\ OwnPages' /\ generation' > generation
<1> USE StreamAssumption DEF TypeOK, StreamType, ProcessType
<1>1. generation' = generation + 1 /\ proc' = NoProc /\ alive' = alive \ {proc}
      /\ spawned' = spawned /\ bornAs' = bornAs /\ made' = made
  BY DEF Kill
<1>2. headers' = <<>> /\ ~headersDone' /\ ring' = {}
  BY DEF Kill, EmptyStream
<1>3. Births'
  <2>1. ASSUME NEW q \in Procs
        PROVE  /\ q > spawned' => reader'[q] = "unborn" /\ made'[q] = 0
               /\ reader'[q] = "holding" => made'[q] > 0
               /\ reader'[q] # "unborn" => bornAs'[q] < generation'
    BY <1>1 DEF Births
  <2>2. alive' = {}
    BY <1>1 DEF Births
  <2> QED BY <1>1, <2>1, <2>2 DEF Births
<1>4. OwnPages'
  BY <1>1, <1>2 DEF OwnPages
<1> QED BY <1>1, <1>3, <1>4

-----------------------------------------------------------------------------
(* Listeners that the step does not move. *)

Still(l) ==
    /\ stage'[l] = stage[l] /\ gen'[l] = gen[l] /\ last'[l] = last[l]
    /\ greeting'[l] = greeting[l] /\ pending'[l] = pending[l] /\ heard'[l] = heard[l]

\* A new generation leaves a connection with what it holds of an old one.
LEMMA FollowOld ==
    ASSUME TypeOK, NEW l \in Listeners, Following(l), generation' \in Nat,
           generation' > generation, Still(l)
    PROVE  Following(l)'
<1>1. gen'[l] # generation' /\ gen'[l] <= generation'
  BY DEF TypeOK, ListenerType, StreamType, Following, Still
<1> QED BY <1>1 DEF Following, Still, Whole

\* A step that keeps the stream, and how much of it the reader has seen to,
\* keeps its pages where they are.
SameStream == UNCHANGED streamVars /\ (proc # NoProc => Kept(proc)' = Kept(proc))

LEMMA SameInStream ==
    ASSUME SameStream, NEW x PROVE InStream(x)' <=> InStream(x)
BY DEF SameStream, streamVars, InStream, Kept

LEMMA OwnSame == ASSUME SameStream, OwnPages PROVE OwnPages'
<1>1. \A x : InStream(x)' <=> InStream(x)
  BY SameInStream
<1> QED BY <1>1 DEF SameStream, streamVars, OwnPages

LEMMA FollowSame ==
    ASSUME SameStream, OwnPages, NEW l \in Listeners, Following(l), Still(l)
    PROVE  Following(l)'
<1>1. \A x : InStream(x)' <=> InStream(x)
  BY SameInStream
<1>2. headersDone => proc # NoProc
  BY DEF OwnPages
<1>3. headersDone => Kept(proc)' = Kept(proc)
  BY <1>2 DEF SameStream
<1>4. headersDone' = headersDone /\ proc' = proc /\ seq' = seq /\ generation' = generation
  BY DEF SameStream, streamVars
<1> QED BY <1>1, <1>3, <1>4 DEF Following, Still, Whole

-----------------------------------------------------------------------------
(* StreamInv, by the kind of step. *)

IInv == TypeOK /\ StreamInv

\* A step of one listener's thread alone leaves the stream and the others alone.
LEMMA ThreadFrame ==
    ASSUME IInv, ListenerFrame, NEW l \in Listeners,
           \A m \in Listeners : m # l => Still(m), Following(l)'
    PROVE  StreamInv'
<1> USE DEF IInv, StreamInv
<1>1. SameStream
  BY DEF ListenerFrame, SameStream, streamVars, processVars, Kept
<1>2. OwnPages'
  BY <1>1, OwnSame
<1>3. Births'
  BY DEF ListenerFrame, streamVars, processVars, Births
<1>4. ASSUME NEW m \in Listeners, m # l PROVE Following(m)'
  BY <1>1, <1>4, FollowSame
<1> QED BY <1>2, <1>3, <1>4

\* The pages in step with a current connection are in the order they came in.
LEMMA InOrder ==
    ASSUME TypeOK, NEW S \in SUBSET Entries, \A x \in S : InStream(x)
    PROVE  \A x, y \in S : x.seq < y.seq <=> x.page.n < y.page.n
<1> SUFFICES ASSUME NEW x \in S, NEW y \in S
             PROVE  x.seq < y.seq <=> x.page.n < y.page.n
  OBVIOUS
<1>1. x.seq \in Nat /\ y.seq \in Nat /\ x.page.n \in Nat /\ y.page.n \in Nat
  BY DEF Entries, Pages
<1>2. proc \in Procs
  BY DEF InStream, TypeOK, StreamType
<1>3. Kept(proc) \in Int /\ seq \in Int
  BY <1>2 DEF TypeOK, StreamType, ProcessType, Kept
<1>4. seq - x.seq = Kept(proc) - x.page.n /\ seq - y.seq = Kept(proc) - y.page.n
  BY DEF InStream
<1> QED BY <1>1, <1>3, <1>4

LEMMA ThreadStep ==
    ASSUME IInv, NEW l \in Listeners,
           Outdated(l) \/ TakeHeaders(l) \/ SendHeaders(l) \/ TakePages(l)
             \/ SocketFull(l) \/ SendPages(l) \/ ClientGone(l)
    PROVE  StreamInv'
<1> USE DEF IInv, TypeOK, ListenerType
<1>1. ListenerFrame
  BY DEF Outdated, TakeHeaders, SendHeaders, TakePages, SocketFull, SendPages, ClientGone
<1>2. \A m \in Listeners : m # l => Still(m)
  BY DEF Outdated, TakeHeaders, SendHeaders, TakePages, SocketFull, SendPages, ClientGone,
         Goes, Still, Newest
<1>3. SameStream
  BY <1>1 DEF ListenerFrame, SameStream, streamVars, processVars, Kept
<1>4. \A x : InStream(x)' <=> InStream(x)
  BY <1>3, SameInStream
<1>5. headersDone' = headersDone /\ proc' = proc /\ seq' = seq /\ generation' = generation
  BY <1>3 DEF SameStream, streamVars
<1>6. Following(l)
  BY DEF StreamInv
<1>7. gen'[l] = gen[l]
  BY DEF Outdated, TakeHeaders, SendHeaders, TakePages, SocketFull, SendPages, ClientGone
<1>8. CASE Outdated(l) \/ ClientGone(l)
  <2>1. stage'[l] = "leaving"
    BY <1>8 DEF Outdated, ClientGone, Goes
  <2>2. Following(l)'
    BY <2>1, <1>5, <1>6, <1>7 DEF Following
  <2> QED BY <2>2, <1>1, <1>2, ThreadFrame
<1>9. CASE TakeHeaders(l)
  <2>1. stage'[l] = "greeting" /\ greeting'[l] = headers /\ headersDone
    BY <1>9 DEF TakeHeaders, Goes
  <2>2. proc \in Procs /\ Whole(headers, proc)
    BY <2>1, StreamAssumption DEF StreamInv, OwnPages, Whole, StreamType
  <2>3. Whole(greeting'[l], proc)
    BY <2>1, <2>2
  <2>4. (\E p \in Procs : Whole(greeting[l], p))' /\ Whole(greeting[l], proc)'
    BY <2>2, <2>3, <1>5 DEF Whole
  <2>5. Following(l)'
    BY <2>1, <2>4, <1>5, <1>6, <1>7 DEF Following
  <2> QED BY <2>5, <1>1, <1>2, ThreadFrame
<1>10. CASE SendHeaders(l)
  <2>1. stage[l] = "greeting" /\ stage'[l] = "streaming" /\ last'[l] = last[l]
        /\ heard'[l] = greeting[l][Len(greeting[l])]
    BY <1>10 DEF SendHeaders, Goes
  <2>2. PICK p \in Procs : Whole(greeting[l], p)
    BY <2>1, <1>6 DEF Following
  <2>3. heard'[l] = [proc |-> p, n |-> HeaderPages] /\ heard'[l] \in Pages
    BY <2>1, <2>2, LastHeader
  <2>4. ASSUME gen[l] = generation
        PROVE  headersDone /\ heard'[l].proc = proc
    <3>1. headersDone /\ Whole(greeting[l], proc)
      BY <2>4, <2>1, <1>6 DEF Following
    <3>2. proc \in Procs
      BY <3>1 DEF StreamInv, OwnPages, StreamType
    <3>3. greeting[l] \in Seq(Pages)
      OBVIOUS
    <3>4. heard'[l] = [proc |-> proc, n |-> HeaderPages]
      BY <3>1, <3>2, <3>3, <2>1, LastHeader
    <3> QED BY <3>1, <3>4
  <2>5. heard'[l].n = HeaderPages
    BY <2>3
  <2>6. HeaderPages \in Nat
    BY StreamAssumption
  <2>7. Following(l)'
    BY <2>1, <2>3, <2>4, <2>5, <2>6, <1>5, <1>6, <1>7 DEF Following
  <2> QED BY <2>7, <1>1, <1>2, ThreadFrame
<1>11. CASE TakePages(l)
  <2>1. /\ stage[l] = "streaming" /\ gen[l] = generation /\ stage'[l] = "sending"
        /\ last'[l] = last[l] /\ heard'[l] = heard[l]
        /\ pending'[l] = Recent(Newer(last[l]))
    BY <1>11 DEF TakePages, Goes
  <2>2. pending'[l] \subseteq ring /\ \A x \in pending'[l] : x.seq > last[l]
    BY <2>1, RecentSubset DEF Newer
  <2>3. \A x \in pending'[l] : InStream(x)
    BY <2>2 DEF StreamInv, OwnPages
  <2>4. /\ heard[l] \in Pages /\ heard[l].n >= HeaderPages
        /\ headersDone /\ heard[l].proc = proc
        /\ heard[l].n = HeaderPages \/ seq - last[l] = Kept(proc) - heard[l].n
    BY <2>1, <1>6 DEF Following
  <2>5. ASSUME NEW x \in pending'[l]
        PROVE  x.page.proc = heard[l].proc /\ x.page.n > heard[l].n
    <3>1. x \in Entries /\ InStream(x) /\ x.seq > last[l]
      BY <2>2, <2>3, <2>5 DEF StreamType
    <3>2. x.seq \in Nat /\ x.page.n \in Nat /\ heard[l].n \in Nat /\ last[l] \in Nat
      BY <3>1, <2>4 DEF Entries, Pages
    <3>3. proc \in Procs /\ Kept(proc) \in Int /\ seq \in Int
      BY <2>4 DEF StreamInv, OwnPages, StreamType, ProcessType, Kept
    <3>4. x.page.proc = proc /\ x.page.n > HeaderPages
          /\ seq - x.seq = Kept(proc) - x.page.n
      BY <3>1 DEF InStream
    <3>6. CASE heard[l].n = HeaderPages
      BY <3>4, <3>6, <2>4
    <3>7. CASE seq - last[l] = Kept(proc) - heard[l].n
      <4> HIDE DEF IInv, TypeOK, ListenerType
      <4>1. x.page.n > heard[l].n
        BY <3>1, <3>2, <3>3, <3>4, <3>7, Later
      <4> QED BY <4>1, <3>4, <2>4
    <3> QED BY <3>6, <3>7, <2>4
  <2>6. \A x, y \in pending'[l] : x.seq < y.seq <=> x.page.n < y.page.n
    <3>1. pending'[l] \in SUBSET Entries
      BY <2>2 DEF StreamType
    <3> QED BY <3>1, <2>3, InOrder
  <2>7. Kept(proc)' = Kept(proc)
    BY <2>4, <1>3 DEF SameStream, StreamInv, OwnPages
  <2>8. Following(l)'
    BY <2>1, <2>3, <2>4, <2>5, <2>6, <2>7, <1>4, <1>5, <1>7, <1>6 DEF Following
  <2> QED BY <2>8, <1>1, <1>2, ThreadFrame
<1>12. CASE SocketFull(l)
  <2>1. stage[l] = "sending" /\ stage'[l] = "streaming"
        /\ last'[l] = last[l] /\ heard'[l] = heard[l]
    BY <1>12 DEF SocketFull, Goes
  <2>2. headersDone => Kept(proc)' = Kept(proc)
    BY <1>3 DEF SameStream, StreamInv, OwnPages
  <2>3. Following(l)'
    BY <2>1, <2>2, <1>5, <1>6, <1>7 DEF Following
  <2> QED BY <2>3, <1>1, <1>2, ThreadFrame
<1>13. CASE SendPages(l)
  <2>1. PICK x \in Newest(pending[l]) :
            last' = [last EXCEPT ![l] = x.seq] /\ heard' = [heard EXCEPT ![l] = x.page]
    BY <1>13 DEF SendPages
  <2>2. stage[l] = "sending" /\ stage'[l] = "streaming"
        /\ last'[l] = x.seq /\ heard'[l] = x.page /\ x \in pending[l]
    BY <1>13, <2>1 DEF SendPages, Goes, Newest
  <2>3. x.page \in Pages /\ x.page.n \in Nat
    BY <2>2 DEF Entries, Pages
  <2>4. /\ x.page.proc = heard[l].proc /\ x.page.n > heard[l].n
        /\ heard[l] \in Pages /\ heard[l].n >= HeaderPages
        /\ gen[l] = generation => headersDone /\ heard[l].proc = proc /\ InStream(x)
    BY <2>2, <1>6 DEF Following
  <2>5. x.page.n >= HeaderPages
    BY <2>3, <2>4, StreamAssumption DEF Pages
  <2>6. gen[l] = generation => seq - x.seq = Kept(proc) - x.page.n
    BY <2>4 DEF InStream
  <2>7. headersDone => Kept(proc)' = Kept(proc)
    BY <1>3 DEF SameStream, StreamInv, OwnPages
  <2>8. Following(l)'
    BY <2>2, <2>3, <2>4, <2>5, <2>6, <2>7, <1>5, <1>6, <1>7 DEF Following
  <2> QED BY <2>8, <1>1, <1>2, ThreadFrame
<1> QED BY <1>8, <1>9, <1>10, <1>11, <1>12, <1>13

\* A reader's step that changes nothing a listener can see.
LEMMA QuietReader ==
    ASSUME IInv, NEW p \in Procs,
           \/ ProcDies(p) \/ ReaderReads(p) \/ ReaderAtEnd(p) \/ ReaderOutdated(p)
           \/ ReaderEnds(p) /\ proc # p
    PROVE  StreamInv'
<1> USE StreamAssumption DEF IInv, TypeOK, StreamType, ProcessType, StreamInv
<1>1. /\ UNCHANGED streamVars /\ spawned' = spawned /\ bornAs' = bornAs
      /\ UNCHANGED listenerVars /\ alive' \subseteq alive
  BY DEF ProcDies, ReaderReads, ReaderAtEnd, ReaderOutdated, ReaderEnds, ReaderFrame
<1>2. ASSUME NEW q \in Procs, q # p
      PROVE  reader'[q] = reader[q] /\ made'[q] = made[q]
  BY <1>2 DEF ProcDies, ReaderReads, ReaderAtEnd, ReaderOutdated, ReaderEnds, ReaderFrame
<1>3. /\ reader'[p] = "unborn" <=> reader[p] = "unborn"
      /\ reader'[p] = "unborn" => made'[p] = made[p]
      /\ reader'[p] = "holding" => made'[p] > 0
  <2>1. CASE ReaderReads(p)
    BY <2>1 DEF ReaderReads
  <2>2. CASE ProcDies(p)
    BY <2>2 DEF ProcDies, Births
  <2>3. CASE ReaderAtEnd(p)
    BY <2>3 DEF ReaderAtEnd
  <2>4. CASE ReaderOutdated(p)
    BY <2>4 DEF ReaderOutdated
  <2>5. CASE ReaderEnds(p) /\ proc # p
    BY <2>5 DEF ReaderEnds
  <2> QED BY <2>1, <2>2, <2>3, <2>4, <2>5
<1>4. Births'
  <2>1. generation' = generation /\ proc' = proc
    BY <1>1 DEF streamVars
  <2>2. ASSUME NEW q \in Procs
        PROVE  /\ q > spawned' => reader'[q] = "unborn" /\ made'[q] = 0
               /\ reader'[q] = "holding" => made'[q] > 0
               /\ reader'[q] # "unborn" => bornAs'[q] <= generation'
               /\ reader'[q] # "unborn" /\ bornAs'[q] = generation' => q = proc'
    <3>1. CASE q = p
      BY <3>1, <1>1, <1>3, <2>1 DEF Births
    <3>2. CASE q # p
      BY <3>2, <1>1, <1>2, <2>1 DEF Births
    <3> QED BY <3>1, <3>2
  <2>3. proc # NoProc => bornAs'[proc] = generation' /\ reader'[proc] # "unborn"
    BY <1>1, <1>2, <1>3, <2>1 DEF Births
  <2> QED BY <1>1, <2>1, <2>2, <2>3 DEF Births
<1>5. SameStream
  <2>1. ASSUME proc # NoProc PROVE Kept(proc)' = Kept(proc)
    <3>1. CASE proc # p
      BY <3>1, <2>1, <1>2, <1>1 DEF Kept, streamVars
    <3>2. CASE proc = p
      <4>1. proc' = p
        BY <3>2, <1>1 DEF streamVars
      <4>2. CASE ReaderReads(p)
        BY <4>1, <4>2, <3>2 DEF ReaderReads, Kept
      <4>3. CASE ProcDies(p)
        BY <4>1, <4>3, <3>2 DEF ProcDies, Kept
      <4>4. CASE ReaderAtEnd(p)
        BY <4>1, <4>4, <3>2 DEF ReaderAtEnd, Kept
      <4>5. CASE ReaderOutdated(p)
        BY <4>5, <3>2, <2>1 DEF ReaderOutdated, Births
      <4> QED BY <4>2, <4>3, <4>4, <4>5, <3>2
    <3> QED BY <3>1, <3>2
  <2> QED BY <1>1, <2>1 DEF SameStream
<1>6. OwnPages'
  BY <1>5, OwnSame
<1>7. ASSUME NEW l \in Listeners PROVE Following(l)'
  <2>1. Still(l)
    BY <1>1 DEF listenerVars, Still
  <2> QED BY <2>1, <1>5, FollowSame
<1> QED BY <1>4, <1>6, <1>7

\* The reader of the process on record adds the page it has seen to last.
LEMMA KeepsPage ==
    ASSUME IInv, NEW p \in Procs, ReaderKeeps(p)
    PROVE  StreamInv'
<1> USE StreamAssumption
<1>0. /\ Births /\ OwnPages /\ \A l \in Listeners : Following(l)
      /\ StreamType /\ ProcessType /\ ListenerType
      /\ seq \in Nat /\ headers \in Seq(Pages) /\ ring \subseteq Entries
  BY DEF IInv, TypeOK, StreamInv, StreamType
<1>1. p = proc /\ proc # NoProc /\ made[p] > 0 /\ made[p] \in Nat
  BY <1>0 DEF ReaderKeeps, Births, NoProc, ProcessType
<1>2. /\ proc' = p /\ generation' = generation /\ alive' = alive /\ made' = made
      /\ spawned' = spawned /\ bornAs' = bornAs /\ UNCHANGED listenerVars
      /\ reader[p] = "holding" /\ reader' = [reader EXCEPT ![p] = "reading"]
  BY <1>1, <1>0 DEF ReaderKeeps, ReaderFrame
<1>3. Kept(p) = made[p] - 1 /\ Kept(p) \in Nat /\ Kept(proc)' = Kept(p) + 1
  BY <1>0, <1>1, <1>2 DEF Kept, ProcessType
<1>4. Births'
  BY <1>0, <1>1, <1>2 DEF Births, ProcessType
<1>5. CASE ~headersDone /\ IsHeader(Held(p))
  <2>1. headers' = Append(headers, Held(p)) /\ headersDone' = headersDone /\ ring' = ring
    BY <1>5 DEF ReaderKeeps
  <2>2. Len(headers) = Kept(p) /\ ring = {} /\ made[p] <= HeaderPages
    BY <1>0, <1>1, <1>3, <1>5 DEF OwnPages, IsHeader, Held
  <2>3. Held(p) \in Pages
    BY <1>1 DEF Held, Pages
  <2>4. Len(headers') = Kept(p) + 1
        /\ \A i \in 1 .. Len(headers') :
              headers'[i] = IF i = Kept(p) + 1 THEN Held(p) ELSE headers[i]
    BY <1>0, <2>1, <2>2, <2>3, AppendProperties
  <2>5. \A i \in 1 .. Len(headers') : headers'[i] = [proc |-> p, n |-> i]
    <3> SUFFICES ASSUME NEW i \in 1 .. Len(headers')
                 PROVE  headers'[i] = [proc |-> p, n |-> i]
      OBVIOUS
    <3>1. i \in 1 .. (Kept(p) + 1)
      BY <2>4
    <3>2. CASE i = Kept(p) + 1
      BY <3>2, <1>1, <1>3, <2>4 DEF Held
    <3>3. CASE i # Kept(p) + 1
      <4>1. i \in 1 .. Len(headers) /\ headers'[i] = headers[i]
        BY <3>1, <3>3, <1>3, <2>2, <2>4
      <4> QED BY <4>1, <1>0, <1>1 DEF OwnPages
    <3> QED BY <3>2, <3>3
  <2>6. OwnPages'
    BY <1>1, <1>2, <1>3, <1>5, <2>1, <2>2, <2>4, <2>5 DEF OwnPages
  <2>7. ASSUME NEW l \in Listeners PROVE Following(l)'
    <3>1. Following(l) /\ ~headersDone /\ gen'[l] = gen[l] /\ generation' = generation
      BY <1>0, <1>2, <1>5 DEF listenerVars
    <3>2. CASE stage[l] \in {"greeting", "streaming", "sending"}
      <4>1. gen[l] # generation
        BY <3>1, <3>2 DEF Following
      <4> QED BY <4>1, <3>1, <1>2 DEF Following, listenerVars, Whole
    <3>3. CASE stage[l] \notin {"greeting", "streaming", "sending"}
      BY <3>1, <3>3, <1>2 DEF Following, listenerVars
    <3> QED BY <3>2, <3>3
  <2> QED BY <1>4, <2>6, <2>7 DEF StreamInv
<1>6. CASE ~(~headersDone /\ IsHeader(Held(p)))
  <2>1. /\ headersDone' = TRUE /\ seq' = seq + 1 /\ headers' = headers
        /\ ring' = Trimmed(ring \cup {[seq |-> seq + 1, page |-> Held(p)]})
    BY <1>6, Zenon DEF ReaderKeeps
  <2>2. Len(headers) = HeaderPages /\ Kept(p) >= HeaderPages
    <3>1. CASE headersDone
      BY <1>0, <3>1, <1>1 DEF OwnPages
    <3>2. CASE ~headersDone
      <4>1. made[p] > HeaderPages
        BY <3>2, <1>1, <1>6 DEF IsHeader, Held
      <4> QED BY <1>0, <4>1, <3>2, <1>1, <1>3 DEF OwnPages
    <3> QED BY <3>1, <3>2
  <2>3. ASSUME NEW x \in Entries, InStream(x) PROVE InStream(x)'
    <3>1. x.seq \in Nat /\ x.page.n \in Nat
      BY <2>3 DEF Entries, Pages
    <3>2. x.page.proc = p /\ x.page.n > HeaderPages /\ seq - x.seq = Kept(p) - x.page.n
      BY <2>3, <1>1 DEF InStream
    <3>4. seq \in Nat /\ Kept(p) \in Nat
      BY <1>0, <1>3
    <3>3. (seq + 1) - x.seq = (Kept(p) + 1) - x.page.n
      BY <3>1, <3>2, <3>4, Forward
    <3> QED BY <3>2, <3>3, <2>1, <1>1, <1>2, <1>3 DEF InStream
  <2>4. ASSUME NEW x \in ring' PROVE InStream(x)'
    <3>1. CASE x \in ring
      BY <1>0, <3>1, <2>3 DEF OwnPages
    <3>2. CASE x = [seq |-> seq + 1, page |-> Held(p)]
      <4>1. x.seq = seq + 1 /\ x.page.proc = p /\ x.page.n = made[p]
        BY <3>2 DEF Held
      <4> QED BY <4>1, <2>1, <2>2, <1>0, <1>1, <1>2, <1>3 DEF InStream
    <3> QED BY <2>1, <2>4, <3>1, <3>2, TrimmedSubset
  <2>5. OwnPages'
    <3>1. \A i \in 1 .. Len(headers') : headers'[i] = [proc |-> proc', n |-> i]
      BY <1>0, <1>1, <1>2, <2>1 DEF OwnPages
    <3>2. Len(headers') = HeaderPages /\ Kept(proc)' >= HeaderPages
      BY <2>1, <2>2, <1>3
    <3>3. proc' # NoProc /\ headersDone'
      BY <1>1, <1>2, <2>1
    <3> QED BY <3>1, <3>2, <3>3, <2>4 DEF OwnPages
  <2>6. ASSUME NEW l \in Listeners PROVE Following(l)'
    <3>1. Still(l) /\ Following(l) /\ generation' = generation /\ proc' = proc
      BY <1>0, <1>1, <1>2 DEF listenerVars, Still
    <3>2. ASSUME stage[l] = "sending", gen[l] = generation, NEW x \in pending[l]
          PROVE  InStream(x)'
      <4>1. x \in Entries /\ InStream(x)
        BY <1>0, <3>1, <3>2 DEF Following, ListenerType
      <4> QED BY <4>1, <2>3
    <3>3. ASSUME stage[l] \in {"streaming", "sending"}, gen[l] = generation
          PROVE  heard[l].n = HeaderPages \/ seq' - last[l] = Kept(proc)' - heard[l].n
      <4>1. heard[l].n = HeaderPages \/ seq - last[l] = Kept(p) - heard[l].n
        BY <3>1, <3>3, <1>1 DEF Following
      <4>2. heard[l].n \in Nat /\ last[l] \in Nat
        BY <1>0, <3>1, <3>3 DEF Following, Pages, ListenerType
      <4>3. seq \in Nat /\ Kept(p) \in Nat
        BY <1>0, <1>3
      <4>4. seq - last[l] = Kept(p) - heard[l].n
                => (seq + 1) - last[l] = (Kept(p) + 1) - heard[l].n
        BY <4>2, <4>3, Forward
      <4> QED BY <4>1, <4>4, <2>1, <1>3
    <3> QED BY <3>1, <3>2, <3>3, <2>1 DEF Following, Still, Whole
  <2> QED BY <1>4, <2>5, <2>6 DEF StreamInv
<1> QED BY <1>5, <1>6

LEMMA StreamStep ==
    ASSUME IInv, [Next]_vars
    PROVE  StreamInv'
<1> USE StreamAssumption
<1>0. /\ TypeOK /\ StreamInv /\ Births /\ OwnPages /\ TypeOK'
      /\ \A l \in Listeners : Following(l)
      /\ reader \in [Procs -> ReaderStates]
      /\ generation \in Nat /\ generation' \in Nat
  BY TypeStep DEF IInv, StreamInv, TypeOK, StreamType, ProcessType
<1>1. ASSUME NEW l \in Listeners, Attach(l) PROVE StreamInv'
  <2>1. stage' = [stage EXCEPT ![l] = "waiting"] /\ gen' = [gen EXCEPT ![l] = generation']
        /\ UNCHANGED <<last, greeting, pending, heard>>
    BY <1>1 DEF Attach
  <2>2. \A m \in Listeners : m # l => Still(m)
    BY <2>1, <1>0 DEF Still, TypeOK, ListenerType
  <2>3. stage'[l] = "waiting" /\ gen'[l] = generation'
    BY <2>1, <1>0 DEF TypeOK, ListenerType
  <2>4. Following(l)'
    BY <2>3, <1>0 DEF Following
  <2>5. CASE proc = NoProc /\ Started(generation + 1, alive, reader)
    <3>1. alive = {}
      BY <2>5, <1>0 DEF Births
    <3>2. Started(generation + 1, {}, reader)
      BY <2>5, <3>1
    <3>5. generation + 1 \in Nat /\ generation + 1 > generation
      BY <1>0
    <3>3. Births' /\ OwnPages' /\ generation' > generation
      <4>1. \A q \in Procs :
                reader[q] = reader[q] \/ (reader[q] = "gone" /\ reader[q] # "unborn")
        OBVIOUS
      <4> QED BY <3>2, <3>5, <4>1, <1>0, StartedStream
    <3>4. \A m \in Listeners : m # l => Following(m)'
      BY <3>3, <2>2, <1>0, FollowOld
    <3> QED BY <3>3, <3>4, <2>4 DEF StreamInv
  <2>6. CASE UNCHANGED <<streamVars, processVars>>
    <3>1. SameStream
      BY <2>6 DEF SameStream, streamVars, processVars, Kept
    <3>2. OwnPages' /\ \A m \in Listeners : m # l => Following(m)'
      BY <3>1, <2>2, <1>0, OwnSame, FollowSame
    <3>3. Births'
      BY <2>6, <1>0 DEF Births, streamVars, processVars
    <3> QED BY <3>2, <3>3, <2>4 DEF StreamInv
  <2> QED BY <1>1, <2>5, <2>6 DEF Attach, Spawn, NotStarted
<1>2. ASSUME NEW l \in Listeners, Detach(l) PROVE StreamInv'
  <2>1. stage'[l] = "out" /\ gen'[l] = 0 /\ \A m \in Listeners : m # l => Still(m)
    BY <1>2, <1>0 DEF Detach, ThreadEnds, Still, TypeOK, ListenerType
  <2>2. Following(l)'
    BY <2>1, <1>0 DEF Following
  <2>3. CASE Kill /\ UNCHANGED reader
    <3>1. Births' /\ OwnPages' /\ generation' > generation
      <4>1. reader' \in [Procs -> ReaderStates]
            /\ \A q \in Procs :
                  reader'[q] = reader[q] \/ (reader'[q] = "gone" /\ reader[q] # "unborn")
        BY <2>3, <1>0
      <4> QED BY <2>3, <4>1, <1>0, KillStream
    <3>2. \A m \in Listeners : m # l => Following(m)'
      BY <3>1, <2>1, <1>0, FollowOld
    <3> QED BY <3>1, <3>2, <2>2 DEF StreamInv
  <2>4. CASE UNCHANGED <<streamVars, processVars>>
    <3>1. SameStream
      BY <2>4 DEF SameStream, streamVars, processVars, Kept
    <3>2. OwnPages' /\ \A m \in Listeners : m # l => Following(m)'
      BY <3>1, <2>1, <1>0, OwnSame, FollowSame
    <3>3. Births'
      BY <2>4, <1>0 DEF Births, streamVars, processVars
    <3> QED BY <3>2, <3>3, <2>2 DEF StreamInv
  <2> QED BY <1>2, <2>3, <2>4 DEF Detach
<1>3. ASSUME NEW l \in Listeners, ListenerGoesOn(l) PROVE StreamInv'
  BY <1>2, <1>3, ThreadStep DEF ListenerGoesOn
<1>4. ASSUME StopBegins \/ UNCHANGED vars PROVE StreamInv'
  <2>1. UNCHANGED <<streamVars, processVars, listenerVars>>
    BY <1>4 DEF StopBegins, vars, streamVars, processVars, listenerVars
  <2>2. SameStream
    BY <2>1 DEF SameStream, streamVars, processVars, Kept
  <2>3. \A l \in Listeners : Still(l)
    BY <2>1 DEF Still, listenerVars
  <2>4. OwnPages' /\ \A l \in Listeners : Following(l)'
    BY <2>2, <2>3, <1>0, OwnSame, FollowSame
  <2>5. Births'
    BY <2>1, <1>0 DEF Births, streamVars, processVars
  <2> QED BY <2>4, <2>5 DEF StreamInv
<1>5. ASSUME StopKills PROVE StreamInv'
  <2>1. Births' /\ OwnPages' /\ generation' > generation
    <3>1. Kill /\ reader' = reader
      BY <1>5 DEF StopKills
    <3>2. reader' \in [Procs -> ReaderStates]
          /\ \A q \in Procs :
                reader'[q] = reader[q] \/ (reader'[q] = "gone" /\ reader[q] # "unborn")
      BY <3>1, <1>0
    <3> QED BY <3>1, <3>2, <1>0, KillStream
  <2>2. \A l \in Listeners : Still(l)
    BY <1>5 DEF StopKills, Still, listenerVars
  <2>3. \A l \in Listeners : Following(l)'
    BY <2>1, <2>2, <1>0, FollowOld
  <2> QED BY <2>1, <2>3 DEF StreamInv
<1>6. ASSUME NEW p \in Procs, ReaderEnds(p), proc = p PROVE StreamInv'
  <2> DEFINE readers == [reader EXCEPT ![p] = "gone"]
  <2>1. readers \in [Procs -> ReaderStates] /\ reader[p] = "ended"
        /\ \A l \in Listeners : Still(l)
    BY <1>0, <1>6 DEF ReaderEnds, ReaderStates, Still, listenerVars
  <2>2. \A q \in Procs : readers[q] = reader[q] \/ (readers[q] = "gone" /\ reader[q] # "unborn")
    <3>1. reader \in [Procs -> ReaderStates] /\ reader[p] # "unborn"
      BY <1>0, <2>1
    <3> QED BY <3>1
  <2>3. Births' /\ OwnPages' /\ generation' > generation
    <3>1. CASE Kill /\ reader' = readers
      BY <3>1, <2>1, <2>2, <1>0, KillStream
    <3>2. CASE Started(generation + 2, alive \ {p}, readers)
      <4>1. alive \ {p} = {}
        BY <1>0, <1>6 DEF Births
      <4>2. Started(generation + 2, {}, readers)
        BY <3>2, <4>1
      <4>3. generation + 2 \in Nat /\ generation + 2 > generation
        BY <1>0
      <4> QED BY <4>2, <4>3, <2>1, <2>2, <1>0, StartedStream
    <3> QED BY <1>6, <3>1, <3>2 DEF ReaderEnds
  <2>4. \A l \in Listeners : Following(l)'
    BY <2>1, <2>3, <1>0, FollowOld
  <2> QED BY <2>3, <2>4 DEF StreamInv
<1>7. ASSUME NEW p \in Procs, ProcDies(p) \/ ReaderReads(p) \/ ReaderGoesOn(p)
      PROVE  StreamInv'
  BY <1>6, <1>7, QuietReader, KeepsPage DEF ReaderGoesOn
<1> QED BY <1>1, <1>3, <1>4, <1>5, <1>7 DEF Next

LEMMA InitStream == Init => StreamInv
<1> SUFFICES ASSUME Init PROVE StreamInv
  OBVIOUS
<1>1. Births /\ \A l \in Listeners : Following(l)
  BY StreamAssumption DEF Init, Births, Following
<1>2. OwnPages
  <2>1. Len(headers) = 0
    BY DEF Init
  <2> QED BY <2>1 DEF Init, OwnPages
<1> QED BY <1>1, <1>2 DEF StreamInv

LEMMA Invariant == Spec => []IInv
<1>1. Init => IInv
  BY InitType, InitStream DEF IInv
<1>2. IInv /\ [Next]_vars => IInv'
  BY TypeStep, StreamStep DEF IInv
<1> QED BY <1>1, <1>2, PTL DEF Spec

-----------------------------------------------------------------------------
(* The count of listeners. *)

LEMMA AttachedFinite == IsFiniteSet(Attached)
BY StreamAssumption, FS_Subset DEF Attached

\* Attach and Detach count what they move; nothing else attaches or detaches.
LEMMA CountStep ==
    ASSUME TypeOK, CountInv, [Next]_vars
    PROVE  CountInv'
<1> USE DEF TypeOK, ListenerType, CountType, StreamType
<1>0. IsFiniteSet(Attached) /\ Cardinality(Attached) = listeners /\ listeners \in Nat
  BY AttachedFinite DEF CountInv
<1>1. ASSUME NEW l \in Listeners, Attach(l) PROVE CountInv'
  <2>1. l \notin Attached /\ Attached' = Attached \cup {l} /\ listeners' = listeners + 1
    BY <1>1 DEF Attach, Attached
  <2>2. Cardinality(Attached') = listeners + 1
    BY <1>0, <2>1, FS_AddElement
  <2> QED BY <1>0, <2>1, <2>2 DEF CountInv
<1>2. ASSUME NEW l \in Listeners, Detach(l) PROVE CountInv'
  <2>1. l \in Attached /\ Attached' = Attached \ {l}
    BY <1>2 DEF Detach, ThreadEnds, Attached
  <2>2. Cardinality(Attached') = listeners - 1
    BY <1>0, <2>1, FS_RemoveElement
  <2>3. listeners # 0
    BY <1>0, <2>1, FS_EmptySet
  <2>4. listeners' = listeners - 1
    BY <1>2, <2>3 DEF Detach
  <2>5. listeners' = 0 => proc' = NoProc
    BY <1>2 DEF Detach, Kill
  <2> QED BY <2>2, <2>4, <2>5 DEF CountInv
<1>3. ASSUME NEW l \in Listeners,
             Outdated(l) \/ TakeHeaders(l) \/ SendHeaders(l) \/ TakePages(l)
               \/ SocketFull(l) \/ SendPages(l) \/ ClientGone(l)
      PROVE  CountInv'
  <2>1. UNCHANGED <<listeners, proc>>
    BY <1>3 DEF Outdated, TakeHeaders, SendHeaders, TakePages, SocketFull, SendPages,
                ClientGone, ListenerFrame, streamVars
  <2>2. Attached' = Attached
    BY <1>3 DEF Outdated, TakeHeaders, SendHeaders, TakePages, SocketFull, SendPages,
                ClientGone, Goes, Attached
  <2> QED BY <2>1, <2>2 DEF CountInv
<1>4. ASSUME NEW p \in Procs, ProcDies(p) \/ ReaderReads(p) \/ ReaderGoesOn(p)
      PROVE  CountInv'
  <2>1. listeners' = listeners /\ stage' = stage
    BY <1>4 DEF ProcDies, ReaderReads, ReaderGoesOn, ReaderAtEnd, ReaderKeeps,
                ReaderOutdated, ReaderEnds, ReaderFrame, listenerVars
  <2>2. proc' = proc \/ proc' = NoProc \/ listeners > 0
    BY <1>4 DEF ProcDies, ReaderReads, ReaderGoesOn, ReaderAtEnd, ReaderKeeps,
                ReaderOutdated, ReaderEnds, Kill, streamVars
  <2> QED BY <2>1, <2>2 DEF CountInv, Attached
<1>5. ASSUME StopBegins \/ StopKills \/ UNCHANGED vars PROVE CountInv'
  <2>1. listeners' = listeners /\ stage' = stage /\ (proc' = proc \/ proc' = NoProc)
    BY <1>5 DEF StopBegins, StopKills, Kill, vars, streamVars, listenerVars
  <2> QED BY <2>1 DEF CountInv, Attached
<1> QED BY <1>1, <1>2, <1>3, <1>4, <1>5 DEF Next, ListenerGoesOn

LEMMA InitCount == Init => CountInv
<1> SUFFICES ASSUME Init PROVE CountInv
  OBVIOUS
<1>1. Attached = {}
  BY DEF Init, Attached
<1> QED BY <1>1, FS_EmptySet DEF Init, CountInv

-----------------------------------------------------------------------------
(* What a reader should know. *)

\* Every variable keeps its type (the page a greeting ends with exists because
\* a greeting is never empty).
THEOREM TypeCorrect == Spec => []TypeOK
<1>1. IInv => TypeOK
  BY DEF IInv
<1> QED BY <1>1, Invariant, PTL

\* A connection opened with codec=opus is sent the header pages of one encoder
\* and then pages of the same encoder in order, however often the encoder is
\* ended, dies or is replaced meanwhile (generation, opus_ring).
THEOREM OneStreamPerConnection == Spec => []OneStream
<1>1. IInv => OneStream
  <2> SUFFICES ASSUME IInv, NEW l \in Listeners, Following(l)
               PROVE  /\ stage[l] = "greeting" =>
                            /\ Len(greeting[l]) = HeaderPages
                            /\ \E p \in Procs :
                                  \A i \in 1 .. HeaderPages :
                                      greeting[l][i] = [proc |-> p, n |-> i]
                      /\ stage[l] = "sending" =>
                            /\ heard[l].n >= HeaderPages
                            /\ \A x \in pending[l] :
                                  x.page.proc = heard[l].proc /\ x.page.n > heard[l].n
                            /\ \A x, y \in pending[l] : x.seq < y.seq <=> x.page.n < y.page.n
    BY DEF IInv, StreamInv, OneStream
  <2> QED BY DEF Following, Whole
<1> QED BY <1>1, Invariant, PTL

\* The encoder on record is the only one running, and with nobody attached there
\* is none (attach, detach and the reader's restart of an encoder that died).
THEOREM EncoderOnlyForListeners == Spec => []EncoderForListeners
<1>1. Init => CountInv
  BY InitCount
<1>2. IInv /\ CountInv /\ [Next]_vars => CountInv'
  BY CountStep DEF IInv
<1>3. IInv /\ CountInv => EncoderForListeners
  <2> SUFFICES ASSUME IInv, CountInv PROVE EncoderForListeners
    OBVIOUS
  <2>1. alive \subseteq {proc}
    BY DEF IInv, StreamInv, Births
  <2>2. ASSUME \A l \in Listeners : stage[l] = "out"
        PROVE  listeners = 0 /\ proc = NoProc
    <3>1. Attached = {}
      BY <2>2 DEF Attached
    <3> QED BY <3>1, FS_EmptySet DEF CountInv
  <2> QED BY <2>1, <2>2 DEF EncoderForListeners
<1> QED BY <1>1, <1>2, <1>3, Invariant, PTL DEF Spec

=============================================================================
