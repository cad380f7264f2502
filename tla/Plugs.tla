------------------------------- MODULE Plugs -------------------------------
(***************************************************************************)
(* The mains plug as the power backends talk to it: legacy Kasa, KLAP,     *)
(* Wemo and a shell command, each with `state` and `set`.  A call of the   *)
(* heartbeat and calls of clients overlap, since nothing serialises them:  *)
(* a KLAP session and its sequence number, and the port at which a Wemo    *)
(* last answered, are shared by all.                                       *)
(*                                                                         *)
(* A request is its wish and a reply what can be read out of it: framing,  *)
(* ciphers, XML and the descriptive fields (alias, meter, ...) of a        *)
(* reading are left out.  A plug that says it has switched has switched.   *)
(***************************************************************************)
EXTENDS Naturals, Sequences, FiniteSets

CONSTANTS
    Backends,   \* the backends configured, one after the other
    Callers,    \* threads that may be in a call
    Wishes,     \* what each of them asks for: "read", or to be "on" or "off"
    Ports,      \* WEMO_PORTS, in the order they are tried
    Sessions,   \* names of KLAP sessions
    NoSession

PlugAssumption ==
    /\ Backends \subseteq {"kasa", "klap", "wemo", "shell"} /\ Backends # {}
    /\ \A c \in Callers : Wishes[c] \subseteq {"read", "on", "off"}
    /\ Ports \in Seq(Nat) /\ Len(Ports) > 0
    /\ NoSession \notin Sessions
    /\ IsFiniteSet(Callers) /\ IsFiniteSet(Sessions)
    /\ Cardinality(Sessions) > 3 * Cardinality(Callers) + 1

VARIABLES
    backend,
    relay,      \* what the plug does: "on" or "off"
    port,       \* where a Wemo listens
    live,       \* the KLAP sessions the plug knows
    seenPort,   \* _WEMO_PORT: <<>> or the port that last answered
    table,      \* _SESSIONS
    call,       \* each caller's call
    told        \* what the call said that came back in the last step

vars == <<backend, relay, port, live, seenPort, table, call, told>>
plugVars == <<backend, relay, port, live>>

\* of `doing`: a set may read the relay back.  `bad` is the session of a failed
\* first attempt, `torn` says that the sequence number in the request is not the
\* one it was sealed with, `seen` (history) what the relay was during the call.
Idle == [at |-> "idle", want |-> "read", doing |-> "read", left |-> <<>>,
         ses |-> NoSession, bad |-> NoSession, torn |-> FALSE,
         reply |-> "lost", seen |-> {}]

Replies == {"on", "off", "unsure", "done", "refused", "lost"}
PortSet == {Ports[i] : i \in DOMAIN Ports}

TypeOK ==
    /\ backend \in Backends /\ relay \in {"on", "off"} /\ port \in PortSet
    /\ live \subseteq Sessions /\ table \in Sessions \cup {NoSession}
    /\ seenPort \in {<<>>} \cup {<<p>> : p \in PortSet}
    /\ \A c \in Callers :
          /\ call[c].at \in {"idle", "ask", "shake", "bump", "seal", "quote", "sent", "back"}
          /\ {call[c].want, call[c].doing} \subseteq {"read", "on", "off"}
          /\ call[c].reply \in Replies /\ call[c].torn \in BOOLEAN
          /\ {call[c].ses, call[c].bad} \subseteq Sessions \cup {NoSession}
    /\ told \in {"nothing", "on", "off", "unsure", "ok", "raised"}

\* Only a Wemo moves about.
ListensAt(b, p) == IF b = "wemo" THEN p \in PortSet ELSE p = Ports[1]

Init ==
    /\ backend \in Backends /\ relay \in {"on", "off"} /\ ListensAt(backend, port)
    /\ live = {} /\ seenPort = <<>> /\ table = NoSession
    /\ call = [c \in Callers |-> Idle]
    /\ told = "nothing"

-----------------------------------------------------------------------------
(* The plug and its surroundings. *)

Silent == told' = "nothing"

Witnessed(r) ==
    [c \in Callers |-> IF call[c].at = "idle" THEN call[c]
                       ELSE [call[c] EXCEPT !.seen = @ \cup {r}]]

ByHand ==
    /\ relay' \in {"on", "off"} \ {relay} /\ call' = Witnessed(relay')
    /\ UNCHANGED <<backend, port, live, seenPort, table>> /\ Silent

\* The plug restarts: it forgets its sessions and may listen elsewhere.
Restarts ==
    /\ live' = {} /\ ListensAt(backend, port')
    /\ UNCHANGED <<backend, relay, seenPort, table, call>> /\ Silent

\* A request reaches the plug, which answers: with its relay or with something
\* unusable, with having switched or a refusal.  But for a command, which has an
\* exit code, a set may be answered without a verdict, switched or not.
Serve(c) ==
    /\ call[c].at = "sent"
    /\ \E did \in BOOLEAN, r \in Replies :
          /\ IF call[c].doing = "read" THEN ~did /\ r \in {relay, "unsure", "lost"}
             ELSE r \in {IF did THEN "done" ELSE "refused", "lost"}
                          \cup (IF backend = "shell" THEN {} ELSE {"unsure"})
          /\ relay' = IF did THEN call[c].doing ELSE relay
          /\ call' = [Witnessed(relay') EXCEPT ![c].at = "back", ![c].reply = r]
    /\ seenPort' = IF backend = "wemo" /\ call'[c].reply # "lost"
                   THEN <<Head(call[c].left)>> ELSE seenPort
    /\ UNCHANGED <<backend, port, live, table>> /\ Silent

-----------------------------------------------------------------------------
(* A call begins, and one of Kasa or the shell goes out at once. *)

Candidates == seenPort \o SelectSeq(Ports, LAMBDA p : <<p>> # seenPort)

Call(c, wish) ==
    /\ call[c].at = "idle"
    /\ call' = [call EXCEPT ![c] = [Idle EXCEPT
          !.at = IF backend \in {"klap", "wemo"} THEN "ask" ELSE "sent",
          !.want = wish, !.doing = wish, !.seen = {relay},
          !.left = IF backend = "wemo" THEN Candidates ELSE <<>>]]
    /\ UNCHANGED <<plugVars, seenPort, table>> /\ Silent

Tells(c, r) ==
    /\ told' = r
    /\ call' = [call EXCEPT ![c] = Idle]

\* wemo_call tries the candidates one at a time.
TryPort(c) ==
    /\ backend = "wemo" /\ call[c].at = "ask" /\ call[c].left # <<>>
    /\ \/ Head(call[c].left) = port /\ call' = [call EXCEPT ![c].at = "sent"]
       \/ call' = [call EXCEPT ![c].left = Tail(@)]
    /\ UNCHANGED <<plugVars, seenPort, table>> /\ Silent

NoPortAnswers(c) ==
    /\ backend = "wemo" /\ call[c].at = "ask" /\ call[c].left = <<>>
    /\ Tells(c, "raised")
    /\ UNCHANGED <<plugVars, seenPort, table>>

-----------------------------------------------------------------------------
(* KLAP. *)

UseSession(c) ==
    /\ backend = "klap" /\ call[c].at = "ask"
    /\ call' = [call EXCEPT ![c] = [@ EXCEPT
          !.at = IF table = NoSession THEN "shake" ELSE "bump", !.ses = table]]
    /\ UNCHANGED <<plugVars, seenPort, table>> /\ Silent

InUse == {table} \cup live \cup UNION {{call[c].ses, call[c].bad} : c \in Callers}

\* Two threads may both find no session; each makes one, the last is kept.
Handshake(c) ==
    /\ call[c].at = "shake"
    /\ table' = CHOOSE s \in Sessions : s \notin InUse
    /\ live' = {table'}
    /\ call' = [call EXCEPT ![c] = [@ EXCEPT !.at = "bump", !.ses = table']]
    /\ UNCHANGED <<backend, relay, port, seenPort>> /\ Silent

\* A handshake that fails ends the call: it is outside the retry.
HandshakeFails(c) ==
    /\ call[c].at = "shake"
    /\ Tells(c, "raised")
    /\ UNCHANGED <<plugVars, seenPort, table>>

\* encrypt() counts the number up, seals with it and reads it once more.
Bump(c) ==
    /\ call[c].at = "bump"
    /\ call' = [d \in Callers |->
          IF d = c THEN [call[c] EXCEPT !.at = "seal"]
          ELSE [call[d] EXCEPT !.torn =
                   @ \/ (call[d].at = "quote" /\ call[d].ses = call[c].ses)]]
    /\ UNCHANGED <<plugVars, seenPort, table>> /\ Silent

Seal(c) ==
    /\ call[c].at = "seal"
    /\ call' = [call EXCEPT ![c].at = "quote"]
    /\ UNCHANGED <<plugVars, seenPort, table>> /\ Silent

Good(c) == call[c].ses \in live /\ ~call[c].torn

Quote(c) ==
    /\ call[c].at = "quote"
    /\ call' = [call EXCEPT ![c].at = IF Good(c) THEN "sent" ELSE "back", ![c].reply = "lost"]
    /\ UNCHANGED <<plugVars, seenPort, table>> /\ Silent

Again(c) ==
    IF call[c].bad = NoSession
    THEN /\ call' = [call EXCEPT ![c] = [@ EXCEPT !.at = "ask", !.ses = NoSession,
                                                  !.bad = call[c].ses, !.torn = FALSE]]
         /\ Silent
    ELSE Tells(c, "raised")

\* Mutant: the second attempt finds the session of the first.
SessionKept(c) ==
    /\ backend = "klap" /\ call[c].at = "back" /\ call[c].reply = "lost"
    /\ Again(c)
    /\ UNCHANGED <<plugVars, seenPort, table>>

\* Whatever went wrong, the session is thrown away, whoever made the one that is
\* on the table now, and the request goes out once more.
SessionFails(c) ==
    /\ backend = "klap" /\ call[c].at = "back" /\ call[c].reply = "lost"
    /\ table' = NoSession
    /\ Again(c)
    /\ UNCHANGED <<plugVars, seenPort>>

-----------------------------------------------------------------------------
(* What a reply amounts to. *)

\* An HTTP error from a Wemo is an answer: that is its port.
Fails(c) ==
    /\ backend # "klap" /\ call[c].at = "back" /\ call[c].reply = "lost"
    /\ Tells(c, "raised")
    /\ seenPort' = IF backend = "wemo" THEN <<Head(call[c].left)>> ELSE seenPort
    /\ UNCHANGED <<plugVars, table>>

\* A Wemo that did not answer, though it may have done as asked: on to the next port.
Unheard(c) ==
    /\ backend = "wemo" /\ call[c].at = "back" /\ call[c].reply = "lost"
    /\ call' = [call EXCEPT ![c].at = "ask", ![c].left = Tail(@)]
    /\ UNCHANGED <<plugVars, seenPort, table>> /\ Silent

\* Mutant: what is not recognisably on is off.
ReadingTwoValued(r) == IF r = "on" THEN "on" ELSE "off"

\* A state is on, off, or None when the reply does not say.
Reading(r) == r

IsRead(c) ==
    /\ call[c].at = "back" /\ call[c].want = "read" /\ call[c].reply # "lost"
    /\ Tells(c, Reading(call[c].reply))
    /\ UNCHANGED <<plugVars, seenPort, table>>

\* A set is done when the reply says so, a Wemo's also when the relay, read
\* back, is as wanted.  The others take a reply without an error code for success.
Succeeds(c) ==
    \/ call[c].reply \in {"done", call[c].want}
    \/ backend # "wemo" /\ call[c].reply = "unsure"

IsSet(c) ==
    /\ call[c].at = "back" /\ call[c].want # "read" /\ call[c].reply # "lost"
    /\ IF backend = "wemo" /\ call[c].doing # "read" /\ call[c].reply # "done"
       THEN /\ call' = [call EXCEPT ![c] = [@ EXCEPT !.at = "ask", !.doing = "read",
                                                     !.left = Candidates]]
            /\ Silent
       ELSE Tells(c, IF Succeeds(c) THEN "ok" ELSE "raised")
    /\ UNCHANGED <<plugVars, seenPort, table>>

CallerStep(c) ==
    \/ \E wish \in Wishes[c] : Call(c, wish)
    \/ TryPort(c) \/ NoPortAnswers(c)
    \/ UseSession(c) \/ Handshake(c) \/ HandshakeFails(c)
    \/ Bump(c) \/ Seal(c) \/ Quote(c) \/ SessionFails(c)
    \/ Serve(c) \/ Fails(c) \/ Unheard(c) \/ IsRead(c) \/ IsSet(c)

Next == ByHand \/ Restarts \/ \E c \in Callers : CallerStep(c)

Spec == Init /\ [][Next]_vars

-----------------------------------------------------------------------------
(* What must hold. *)

Ends(c) == call[c].at # "idle" /\ call'[c].at = "idle"

\* A call tells nothing the relay did not do while the call lasted: a reading of
\* on or off was true at some moment of it, and after a set that did not raise,
\* and was answered with a verdict, the relay has been as asked, whichever
\* protocol, retry or read-back led to the answer.  An unusable reply is never an
\* "off".
ToldTruly ==
    [][\A c \in Callers : Ends(c) =>
          /\ told' \in {"on", "off"} => told' \in call[c].seen
          /\ told' = "ok" /\ call[c].reply # "unsure" => call[c].want \in call[c].seen]_vars

\* A set that did not raise was done (not so: of a reply without err_code or
\* error_code None is made of what is missing, and None is let pass).
OkMeansDone ==
    [][\A c \in Callers : Ends(c) /\ told' = "ok" => call[c].want \in call[c].seen]_vars

\* "Retry WITHOUT re-handshaking would replay a sequence number the device has
\* already rejected" (vcctrld.py:1541): the second attempt never goes out on the
\* session of the first, whatever other threads put on the table meanwhile.
RetryIsFresh ==
    \A c \in Callers : call[c].bad # NoSession => call[c].ses # call[c].bad

\* A call fails only if the plug did not answer (not so: two threads that count
\* the same session up between sealing and sending spoil each other's request).
TornNever == \A c \in Callers : ~call[c].torn
=============================================================================
