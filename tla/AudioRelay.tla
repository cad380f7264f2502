----------------------------- MODULE AudioRelay -----------------------------
(***************************************************************************)
(* The Opus relay of the public mirror: one connection to the private      *)
(* daemon, held while anybody listens, whose pages go to every listener.   *)
(* A decoder needs the header pages a stream begins with, so those of the  *)
(* present stream are cached, and a listener that joins is sent them by    *)
(* its own thread before the relay's thread has it on the list.            *)
(*                                                                         *)
(* What the threads share is under one lock; they send outside it.  The    *)
(* private daemon begins every connection with the headers (OpusStream).   *)
(* Waits are left out, and with them `wake`, which only shortens them.     *)
(* The PCM relay runs the same loop without headers and without Drop.      *)
(***************************************************************************)
EXTENDS Naturals, Sequences, FiniteSets

CONSTANTS
    Listeners,  \* names for the connections of listeners
    Slots,      \* MAX_AUDIO_LISTENERS
    Headers,    \* header pages of a stream
    Pages,      \* bound: audio pages of a stream
    Streams     \* bound: connections to the daemon

RelayAssumption ==
    /\ Headers \in Nat \ {0} /\ Pages \in Nat /\ Streams \in Nat /\ Slots \in Nat

VARIABLES
    attached,   \* relay.listeners
    headers,    \* relay.headers: the first so many pages of the stream
    epoch,      \* relay.epoch, which also names the stream
    loop,       \* where the relay's thread is
    page,       \* the page it read last, and saw_audio
    sending,    \* the snapshot it works through, and those a send failed for
    at,         \* where each listener's thread is
    mine,       \* `epoch` and `sent` of _register_with_headers, and `hdrs`' end
    sock,       \* a listener's socket: "up", "gone" at its end or "shut" at ours
    got         \* history: the pages that were sent to it, with their stream

ours == <<headers, epoch, loop, page, sending>>
theirs == <<at, mine, got>>
vars == <<attached, headers, epoch, loop, page, sending, at, mine, sock, got>>

Places == {"checking", "connecting", "reading", "sending", "deserted", "over", "dropping"}

TypeOK ==
    /\ attached \subseteq Listeners /\ headers \in 0 .. Headers /\ epoch \in 0 .. Streams
    /\ loop \in Places
    /\ page \in [n : 0 .. Headers + Pages, audio : BOOLEAN]
    /\ sending \in [to : SUBSET Listeners, dead : SUBSET Listeners]
    /\ at \in [Listeners -> {"away", "joining", "replaying", "listening", "leaving"}]
    /\ mine \in [Listeners -> [epoch : 0 .. Streams, sent : 0 .. Headers, upto : 0 .. Headers]]
    /\ sock \in [Listeners -> {"up", "gone", "shut"}]
    /\ got \in [Listeners -> Seq((0 .. Streams) \X (1 .. Headers + Pages))]

Nobody == [to |-> {}, dead |-> {}]
NotJoined == [epoch |-> 0, sent |-> 0, upto |-> 0]
NoPage == [n |-> 0, audio |-> FALSE]

Init ==
    /\ attached = {} /\ headers = 0 /\ epoch = 0
    /\ loop = "checking" /\ page = NoPage /\ sending = Nobody
    /\ at = [l \in Listeners |-> "away"]
    /\ mine = [l \in Listeners |-> NotJoined]
    /\ sock = [l \in Listeners |-> "up"] /\ got = [l \in Listeners |-> <<>>]

Sent(l, pages) == got' = [got EXCEPT ![l] = @ \o pages]

\* A connection that is over is not there to be shut.
Shut(ls) ==
    sock' = [l \in Listeners |-> IF l \in ls /\ at[l] # "away" THEN "shut" ELSE sock[l]]

-----------------------------------------------------------------------------
(* The relay's thread: _audio_upstream_loop. *)

Wanted ==
    /\ loop = "checking" /\ attached # {} /\ epoch < Streams
    /\ loop' = "connecting"
    /\ UNCHANGED <<attached, headers, epoch, page, sending, sock, theirs>>

Connects ==
    /\ loop = "connecting"
    /\ loop' = "reading" /\ page' = NoPage
    /\ UNCHANGED <<attached, headers, epoch, sending, sock, theirs>>

\* Before the first audio page a page of granule position 0 is a header.
IsHeader(n) == ~page.audio /\ n <= Headers

\* A page has come: one lock hold caches it and takes the list.
Reads ==
    /\ loop = "reading" /\ page.n < Headers + Pages
    /\ LET n == page.n + 1 IN
       /\ headers' = IF IsHeader(n) THEN headers + 1 ELSE headers
       /\ page' = [n |-> n, audio |-> ~IsHeader(n)]
    /\ sending' = [to |-> attached, dead |-> {}]
    /\ loop' = IF attached = {} THEN "deserted" ELSE "sending"
    /\ UNCHANGED <<attached, epoch, sock, theirs>>

Sends(l) ==
    /\ loop = "sending" /\ l \in sending.to
    /\ sock[l] # "shut" /\ at[l] # "away"
    /\ sending' = [sending EXCEPT !.to = @ \ {l}]
    /\ Sent(l, <<<<epoch, page.n>>>>)
    /\ UNCHANGED <<attached, headers, epoch, loop, page, sock, at, mine>>

\* The peer has closed, or has not read for 5 s.
SendFails(l) ==
    /\ loop = "sending" /\ l \in sending.to
    /\ sending' = [to |-> sending.to \ {l}, dead |-> sending.dead \cup {l}]
    /\ UNCHANGED <<attached, headers, epoch, loop, page, sock, theirs>>

\* Mutant: a listener that missed a page stays on the list.
BuryNobody ==
    /\ loop = "sending" /\ sending.to = {}
    /\ loop' = "reading" /\ sending' = Nobody
    /\ UNCHANGED <<attached, headers, epoch, page, sock, theirs>>

\* All have it; those that could not be sent it are put off the list and shut,
\* which wakes their threads.
Bury ==
    /\ loop = "sending" /\ sending.to = {}
    /\ attached' = attached \ sending.dead
    /\ Shut(sending.dead)
    /\ loop' = "reading" /\ sending' = Nobody
    /\ UNCHANGED <<headers, epoch, page, theirs>>

Deserted ==
    /\ loop = "deserted"
    /\ loop' = IF attached = {} THEN "over" ELSE "reading"
    /\ UNCHANGED <<attached, headers, epoch, page, sending, sock, theirs>>

\* It could not be reached, it closed, or it has sent nothing for 30 s.
UpstreamFails ==
    /\ loop \in {"connecting", "reading"}
    /\ loop' = "over"
    /\ UNCHANGED <<attached, headers, epoch, page, sending, sock, theirs>>

\* Mutant: those who listen stay on for the next stream.
OverKeepingListeners ==
    /\ loop = "over"
    /\ epoch' = epoch + 1 /\ headers' = 0
    /\ loop' = "checking"
    /\ UNCHANGED <<attached, page, sending, sock, theirs>>

Over ==
    /\ loop = "over"
    /\ epoch' = epoch + 1 /\ headers' = 0
    /\ sending' = [to |-> attached, dead |-> {}]
    /\ loop' = "dropping"
    /\ UNCHANGED <<attached, page, sock, theirs>>

\* Who listened to that stream is shut out, and is on the list until its own
\* thread has noticed.
Drop ==
    /\ loop = "dropping"
    /\ Shut(sending.to)
    /\ sending' = Nobody /\ loop' = "checking"
    /\ UNCHANGED <<attached, headers, epoch, page, theirs>>

-----------------------------------------------------------------------------
(* A listener's thread: _audio_ws and _register_with_headers. *)

Busy == {l \in Listeners : at[l] # "away"}
Goes(l, from, to) == at[l] = from /\ at' = [at EXCEPT ![l] = to]

\* There is a slot for it, it is answered, and the epoch is read.
Joins(l) ==
    /\ Cardinality(Busy) < Slots
    /\ l \notin sending.to \cup sending.dead        \* a name is used again when forgotten
    /\ Goes(l, "away", "joining")
    /\ mine' = [mine EXCEPT ![l].epoch = epoch]
    /\ UNCHANGED <<attached, ours, sock, got>>

\* The stream has changed underneath it.
TurnedAway(l) ==
    /\ epoch # mine[l].epoch
    /\ Goes(l, "joining", "leaving")
    /\ UNCHANGED <<attached, ours, mine, sock, got>>

HasUnsent(l) ==
    /\ epoch = mine[l].epoch /\ headers > mine[l].sent
    /\ Goes(l, "joining", "replaying")
    /\ mine' = [mine EXCEPT ![l].upto = headers]
    /\ UNCHANGED <<attached, ours, sock, got>>

Replays(l) ==
    /\ sock[l] # "shut"
    /\ Goes(l, "replaying", "joining")
    /\ Sent(l, [i \in 1 .. mine[l].upto - mine[l].sent |->
                    <<mine[l].epoch, mine[l].sent + i>>])
    /\ mine' = [mine EXCEPT ![l].sent = mine[l].upto]
    /\ UNCHANGED <<attached, ours, sock>>

\* Mutant: once the cache was sent it is on, whatever has come since.
AttachesAnyway(l) ==
    /\ epoch = mine[l].epoch /\ (mine[l].sent > 0 \/ headers = 0)
    /\ Goes(l, "joining", "listening")
    /\ attached' = attached \cup {l}
    /\ UNCHANGED <<ours, mine, sock, got>>

\* In the lock hold that shows there is no header it has not been sent.
Attaches(l) ==
    /\ epoch = mine[l].epoch /\ headers = mine[l].sent
    /\ Goes(l, "joining", "listening")
    /\ attached' = attached \cup {l}
    /\ UNCHANGED <<ours, mine, sock, got>>

\* A header could not be sent, the connection is seen to end, or it has been on
\* for half an hour.
Ends(l) ==
    /\ \E from \in {"replaying", "listening"} : Goes(l, from, "leaving")
    /\ UNCHANGED <<attached, ours, mine, sock, got>>

Leaves(l) ==
    /\ Goes(l, "leaving", "away")
    /\ attached' = attached \ {l}
    /\ mine' = [mine EXCEPT ![l] = NotJoined]
    /\ sock' = [sock EXCEPT ![l] = "up"] /\ got' = [got EXCEPT ![l] = <<>>]
    /\ UNCHANGED ours

PeerGoes(l) ==
    /\ at[l] # "away" /\ sock[l] = "up"
    /\ sock' = [sock EXCEPT ![l] = "gone"]
    /\ UNCHANGED <<attached, ours, theirs>>

-----------------------------------------------------------------------------
Next ==
    \/ Wanted \/ Connects \/ Reads \/ Bury \/ Deserted \/ UpstreamFails \/ Over \/ Drop
    \/ \E l \in Listeners :
          \/ Sends(l) \/ SendFails(l) \/ Joins(l) \/ TurnedAway(l) \/ HasUnsent(l)
          \/ Replays(l) \/ Attaches(l) \/ Ends(l) \/ Leaves(l) \/ PeerGoes(l)

Spec == Init /\ [][Next]_vars

-----------------------------------------------------------------------------
(* Properties. *)

\* "A header page reaches each listener exactly once", and no audio page before
\* all of them: what a listener was sent is the headers of one stream and then
\* pages of the same stream with none missing between two, however its joining
\* meets pages, the end of the stream and the failures of others.
HeardFromTheStart ==
    \A l \in Listeners : \A i \in DOMAIN got[l] :
        /\ got[l][i][1] = got[l][1][1]
        /\ i <= Headers => got[l][i][2] = i
        /\ i > Headers + 1 => got[l][i][2] = got[l][i - 1][2] + 1
        /\ i > Headers => got[l][i][2] > Headers

\* Nobody who was refused a page goes on the list again or stays there unheard:
\* between two pages everyone on it hears this stream, or has been shut out.
ListIsOfThisStream ==
    loop = "reading" =>
        \A l \in attached :
            sock[l] = "shut" \/ (mine[l].epoch = epoch /\ at[l] \in {"listening", "leaving"})
=============================================================================
