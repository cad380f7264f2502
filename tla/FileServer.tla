----------------------------- MODULE FileServer -----------------------------
(***************************************************************************)
(* The server the target fetches files from, and what is said of it: the   *)
(* daemon starts it once, dials the address the card will dial for every   *)
(* page that polls, keeps the answer for a while, and dials again, for     *)
(* real, before a transfer reboots the target.                             *)
(*                                                                         *)
(* Polls and checks come from different threads and overlap; a dial takes  *)
(* time, and what it finds may have changed when it is reported.           *)
(*                                                                         *)
(* Left out: the FTP protocol, what is written in a reason, the log.       *)
(***************************************************************************)
EXTENDS Naturals, FiniteSets

CONSTANTS
    Pollers,    \* threads that poll the state
    Checkers,   \* threads that are about to transfer, and check first
    Cache,      \* PROBE_CACHE_S
    PollWait,   \* PROBE_TIMEOUT_S
    CheckWait,  \* what a check waits for an answer
    MaxTime     \* bound: how long the clock runs

TimesAssumption ==
    /\ {Cache, PollWait, CheckWait, MaxTime} \subseteq Nat
    /\ Cache > 0
    /\ Pollers \cap Checkers = {}

Askers == Pollers \cup Checkers
Answers == {"yes", "refused", "silent"}
Verdicts == {"live", "down", "unsure"}

VARIABLES
    now,
    host,       \* is target_host set
    ftpd,       \* does this host serve: "no", "serving", "dead", "closed"
    error,      \* _ftpd_error: "none", "failed" in the start, or "stopped"
    address,    \* what a dial of the address finds
    cached,     \* _probe_cache: the verdict, and when it was stored
    asker,      \* of each thread: where it is, since when, and what it found
    lastLive,   \* history: when the address last answered, plus one
    seen        \* history: of each thread, what its dial could have found

vars == <<now, host, ftpd, error, address, cached, asker, lastLive, seen>>
server == <<host, ftpd, error>>

Boards == {"nobody", "unlisted", "silent", "supported", "unsupported", "unknown", "typo"}
Replies == {"unsupported", "unknown", "not_configured", "unreachable", "unchecked", "available"}
Idle == [at |-> "idle", since |-> 0, found |-> "unsure", reply |-> "unknown"]

TypeOK ==
    /\ now \in 0 .. MaxTime /\ host \in BOOLEAN
    /\ ftpd \in {"no", "serving", "dead", "closed"}
    /\ error \in {"none", "failed", "stopped"} /\ address \in Answers
    /\ cached \in [verdict : Verdicts \cup {"none"}, at : 0 .. MaxTime]
    /\ asker \in [Askers -> [at : {"idle", "dial", "told", "ask", "asked"}, since : 0 .. MaxTime,
                             found : Verdicts, reply : Replies]]
    /\ lastLive \in 0 .. MaxTime + 1 /\ seen \in [Askers -> SUBSET Answers]

Init ==
    /\ now = 0 /\ host \in BOOLEAN
    /\ ftpd = "no" /\ error = "none" /\ address \in {"refused", "silent"}
    /\ cached = [verdict |-> "none", at |-> 0]
    /\ asker = [p \in Askers |-> Idle]
    /\ lastLive = 0 /\ seen = [p \in Askers |-> {}]

-----------------------------------------------------------------------------
(* The server. *)

\* What a dial finds from now on, for every dial under way as well.
Finds(answer) ==
    /\ address' = answer
    /\ lastLive' = IF answer = "yes" THEN now + 1 ELSE lastLive
    /\ seen' = [p \in Askers |->
         IF asker[p].at \in {"dial", "ask"} THEN seen[p] \cup {answer} ELSE seen[p]]

Quiet == UNCHANGED <<address, lastLive, seen>>

\* _start_server: not configured is not an error; a directory, the library, the
\* credentials or the address that keeps the server from starting is.
Start ==
    /\ ftpd = "no" /\ host
    /\ \/ ftpd' = "serving" /\ UNCHANGED error /\ Finds("yes")
       \/ ftpd' = "closed" /\ error' = "failed" /\ Quiet
    /\ UNCHANGED <<now, host, cached, asker>>

\* The serving thread raises.
Dies ==
    /\ ftpd = "serving" /\ ftpd' = "dead" /\ error' = "stopped"
    /\ Finds("refused")
    /\ UNCHANGED <<now, host, cached, asker>>

Stop ==
    /\ ftpd \in {"serving", "dead"} /\ ftpd' = "closed"
    /\ Finds("refused")
    /\ UNCHANGED <<now, host, error, cached, asker>>

\* The network between, or a server that is not this host's.
NetworkChanges ==
    /\ host
    /\ \E answer \in Answers \ {address} : Finds(answer)
    /\ UNCHANGED <<now, server, cached, asker>>

-----------------------------------------------------------------------------
(* Asking. *)

\* What `targets:` says of the board that is installed just then: only
\* `supported` and `unsupported` are answers, everything else is nobody knowing.
Support(board) == IF board \in {"supported", "unsupported"} THEN board ELSE "unknown"

\* target_host is the address the card will dial, and the only one dialled here.
Configured == host

\* Mutant: at the limit an answer still counts.
FreshAtLimit == cached.verdict # "none" /\ now - cached.at <= Cache

Fresh == cached.verdict # "none" /\ now - cached.at < Cache

Wait(p) == IF asker[p].at = "ask" THEN CheckWait ELSE PollWait

VerdictOf(answer) ==
    CASE answer = "yes" -> "live" [] answer = "refused" -> "down" [] OTHER -> "unsure"

ReplyOf(verdict) ==
    CASE verdict = "live" -> "available" [] verdict = "down" -> "unreachable" [] OTHER -> "unchecked"

Told(p, reply) == [asker EXCEPT ![p] = [Idle EXCEPT !.at = "told", !.reply = reply]]

\* snapshot, down to the probe: from the cache, or by a dial.
Snapshot(p) ==
    /\ asker[p].at = "idle"
    /\ \/ /\ \E board \in Boards \ {"supported"} : asker' = Told(p, Support(board))
          /\ UNCHANGED seen
       \/ ~Configured /\ asker' = Told(p, "not_configured") /\ UNCHANGED seen
       \/ Configured /\ Fresh /\ asker' = Told(p, ReplyOf(cached.verdict)) /\ UNCHANGED seen
       \/ /\ Configured /\ ~Fresh
          /\ asker' = [asker EXCEPT ![p] = [Idle EXCEPT !.at = "dial", !.since = now]]
          /\ seen' = [seen EXCEPT ![p] = {address}]
    /\ UNCHANGED <<now, server, address, cached, lastLive>>

\* A dial comes back: with what it found at some moment since it began.
DialEnds(p) ==
    /\ asker[p].at = "dial"
    /\ \E answer \in seen[p] :
        /\ answer = "silent" => now = asker[p].since + PollWait
        /\ asker' = Told(p, ReplyOf(VerdictOf(answer)))
        /\ cached' = [verdict |-> VerdictOf(answer), at |-> now]
    /\ seen' = [seen EXCEPT ![p] = {}]
    /\ UNCHANGED <<now, server, address, lastLive>>

PollDone(p) ==
    /\ p \in Pollers /\ asker[p].at = "told"
    /\ asker' = [asker EXCEPT ![p] = Idle]
    /\ UNCHANGED <<now, server, address, cached, lastLive, seen>>

\* Mutant: the real question is answered from the cache too.
AskCached(p) ==
    /\ p \in Checkers /\ asker[p].at = "told"
    /\ asker' = [asker EXCEPT ![p] =
         IF asker[p].reply # "available" THEN Idle
         ELSE IF Fresh THEN [Idle EXCEPT !.at = "asked", !.found = cached.verdict]
         ELSE [Idle EXCEPT !.at = "ask", !.since = now]]
    /\ seen' = [seen EXCEPT ![p] = IF asker'[p].at = "idle" THEN {} ELSE {address}]
    /\ UNCHANGED <<now, server, address, cached, lastLive>>

\* file_check goes on from a snapshot that offers the transfer, and asks for
\* itself, whatever the cache says.
Ask(p) ==
    /\ p \in Checkers /\ asker[p].at = "told"
    /\ asker' = [asker EXCEPT ![p] =
         IF asker[p].reply = "available" THEN [Idle EXCEPT !.at = "ask", !.since = now] ELSE Idle]
    /\ seen' = [seen EXCEPT ![p] = IF asker'[p].at = "idle" THEN {} ELSE {address}]
    /\ UNCHANGED <<now, server, address, cached, lastLive>>

\* What a check finds is not kept.
AskEnds(p) ==
    /\ asker[p].at = "ask"
    /\ \E answer \in seen[p] :
        /\ answer = "silent" => now = asker[p].since + CheckWait
        /\ asker' = [asker EXCEPT ![p] = [Idle EXCEPT !.at = "asked", !.found = VerdictOf(answer)]]
    /\ UNCHANGED <<now, server, address, cached, lastLive, seen>>

\* The transfer goes ahead, or is refused.
CheckDone(p) ==
    /\ asker[p].at = "asked"
    /\ asker' = [asker EXCEPT ![p] = Idle]
    /\ seen' = [seen EXCEPT ![p] = {}]
    /\ UNCHANGED <<now, server, address, cached, lastLive>>

\* A dial does not outlast its wait.
Tick ==
    /\ now < MaxTime /\ now' = now + 1
    /\ \A p \in Askers : asker[p].at \in {"dial", "ask"} => now < asker[p].since + Wait(p)
    /\ \A p \in Askers : asker[p].at \in {"told", "asked"} => FALSE
    /\ lastLive' = IF address = "yes" THEN now + 2 ELSE lastLive
    /\ UNCHANGED <<server, address, cached, asker, seen>>

Next ==
    \/ Start \/ Dies \/ Stop \/ NetworkChanges \/ Tick
    \/ \E p \in Askers :
        Snapshot(p) \/ DialEnds(p) \/ PollDone(p) \/ Ask(p) \/ AskEnds(p) \/ CheckDone(p)

Spec == Init /\ [][Next]_vars

-----------------------------------------------------------------------------
(* What must hold. *)

\* A transfer that is offered is offered on an answer less old than a dial takes
\* and the cache keeps it, whichever threads dialled in between.
OfferedIsRecent ==
    \A p \in Askers :
        asker[p].at = "told" /\ asker[p].reply = "available"
            => lastLive > 0 /\ now - (lastLive - 1) < Cache + PollWait

\* A check that lets a transfer go found the address answering within its own
\* wait, however old the answer was on which the transfer had been offered.
GoIsRecent ==
    \A p \in Checkers :
        asker[p].at = "asked" /\ asker[p].found = "live"
            => lastLive > 0 /\ now - (lastLive - 1) <= CheckWait
=============================================================================
