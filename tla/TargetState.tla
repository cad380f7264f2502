---------------------------- MODULE TargetState ----------------------------
(***************************************************************************)
(* What the daemon believes of the target: whether its mains are on        *)
(* (TargetEpoch, PowerCapability), whether its keyboard LEDs are about now *)
(* (LedsCapability) and which boot profile it runs (TargetProfile), against *)
(* a machine that is switched, restarts and moves its LEDs by itself.      *)
(*                                                                         *)
(* The three have locks of their own or none at all: a plug is read and    *)
(* what it said remembered later, and any number of threads run _sample    *)
(* over the same class variables.  Each read and each later write is a     *)
(* step.                                                                   *)
(*                                                                         *)
(* Epochs and boots are only ever compared with the present one, so who    *)
(* remembers one keeps whether it still is.  Left out: the record of LED   *)
(* changes, the audit, times of day, and what makes a plug the wrong one   *)
(* for the board (such an action is refused before it does anything).      *)
(***************************************************************************)
EXTENDS Naturals, Sequences

CONSTANTS
    Samplers,   \* threads in _sample: the poller, snapshots, verify_input
    Callers,    \* threads that run a `power` command
    Heartbeat,  \* the thread that reads the plug every REFRESH_S
    Lamps,      \* the LEDs there are: "caps" and "scroll", or fewer
    None        \* Python's None

ASSUME TargetAssumption == Heartbeat \notin Callers /\ None \notin BOOLEAN

VARIABLES
    mains, led,         \* the machine: fed or not, the LED nodes as published
    powered,            \* TargetEpoch: the last reading, TRUE, FALSE or None
    seen, proven,       \* _seen_values; whether _proven_epoch is the present one
    profile,            \* TargetProfile: a name read in this boot, in an
                        \* earlier one, or None
    sample,             \* each sampler: where it is and what it holds
    plug,               \* each thread at the plug, likewise
    probe,              \* verify_input, likewise
    verified,           \* a round trip is on record that succeeded and is not void
    sinceOff            \* history: the present proof was noticed after the last
                        \* reading that said off

target == <<mains, led>>
power == <<powered, plug>>
leds == <<seen, proven, sample, sinceOff>>
verify == <<probe, verified>>
vars == <<target, power, leds, verify, profile>>

Plugs == Callers \cup {Heartbeat}
Leds == SUBSET Lamps        \* the lamps that are lit
Readings == {TRUE, FALSE, None}
Dark == {}
Idle == [at |-> "idle"]
Sets == {<<>>, <<TRUE>>, <<FALSE>>, <<FALSE, TRUE>>}     \* state, on, off, cycle

TypeOK ==
    /\ mains \in BOOLEAN /\ led \in Leds
    /\ powered \in Readings
    /\ seen \in Leds \cup {None} /\ proven \in BOOLEAN /\ sinceOff \in BOOLEAN
    /\ profile \in {"current", "old", None}
    /\ sample \in [Samplers ->
          {Idle} \cup [at : {"read"}, values : Leds]
                 \cup [at : {"compared"}, values : Leds, prev : Leds \cup {None}, now : BOOLEAN]]
    /\ plug \in [Plugs ->
          {Idle} \cup [at : {"acting"}, todo : Sets] \cup [at : {"read"}, on : Readings]]
    /\ probe \in {Idle} \cup [at : {"sent"}, before : Leds]
    /\ verified \in BOOLEAN

Init ==
    /\ mains \in BOOLEAN /\ led = Dark
    /\ powered = None
    /\ seen = None /\ proven = FALSE /\ sinceOff = FALSE
    /\ profile = None
    /\ sample = [s \in Samplers |-> Idle] /\ plug = [p \in Plugs |-> Idle]
    /\ probe = Idle /\ verified = FALSE

-----------------------------------------------------------------------------
(* The machine. *)

Aged(x) == IF x = "current" THEN "old" ELSE x

\* Without mains the nodes keep what was last published; a start clears them.
MainsGo(on) ==
    /\ mains' = on
    /\ led' = IF on /\ ~mains THEN Dark ELSE led
    /\ profile' = IF on # mains THEN Aged(profile) ELSE profile

Switched == MainsGo(~mains) /\ UNCHANGED <<power, leds, verify>>

Resets ==
    /\ mains /\ led' = Dark /\ profile' = Aged(profile)
    /\ UNCHANGED <<mains, power, leds, verify>>

LedMoves ==
    /\ mains /\ led' \in Leds \ {led}
    /\ UNCHANGED <<mains, profile, power, leds, verify>>

-----------------------------------------------------------------------------
(* TargetProfile. *)

Invalidate == profile' = None

\* A caller reports a name it read in this boot, or one it read before.
ProfileSet ==
    /\ \E boot \in {"current", "old"} : profile' = boot
    /\ UNCHANGED <<target, power, leds, verify>>

ProfileClear == Invalidate /\ UNCHANGED <<target, power, leds, verify>>

-----------------------------------------------------------------------------
(* The plug. *)

\* Mutant: a machine found on after it was off is no transition, it has only come back.
TransitionOff(on) == on # powered /\ powered = TRUE

\* A transition moves the epoch, so what was proven or verified before is not
\* any more.  From None nothing is one: a restarted daemon learns, it sees no
\* change.
Transition(on) == on # powered /\ powered # None

Observe(on) ==
    /\ powered' = on
    /\ IF Transition(on)
          THEN /\ proven' = FALSE
               /\ sample' = [s \in Samplers |-> IF sample[s].at = "compared"
                                                   THEN [sample[s] EXCEPT !.now = FALSE]
                                                   ELSE sample[s]]
               /\ verified' = FALSE
          ELSE UNCHANGED <<proven, sample, verified>>
    /\ sinceOff' = (sinceOff /\ on # FALSE)

\* Every action, a reading too, first drops the profile.
PowerBegins(c) ==
    /\ plug[c] = Idle /\ Invalidate
    /\ \E todo \in Sets : plug' = [plug EXCEPT ![c] = [at |-> "acting", todo |-> todo]]
    /\ UNCHANGED <<target, powered, leds, verify>>

Acting(p) == plug[p].at = "acting"

Relay(c) ==
    /\ Acting(c) /\ plug[c].todo # <<>>
    /\ MainsGo(Head(plug[c].todo))
    /\ plug' = [plug EXCEPT ![c].todo = Tail(@)]
    /\ UNCHANGED <<powered, leds, verify>>

\* The request or only its answer is lost: the command raises.
RelayFails(c) ==
    /\ Acting(c) /\ plug[c].todo # <<>>
    /\ MainsGo(Head(plug[c].todo)) \/ UNCHANGED <<target, profile>>
    /\ plug' = [plug EXCEPT ![c] = Idle]
    /\ UNCHANGED <<powered, leds, verify>>

Asks(p) == IF p = Heartbeat THEN plug[p] = Idle ELSE Acting(p) /\ plug[p].todo = <<>>

Answers(p, on) ==
    /\ Asks(p)
    /\ plug' = [plug EXCEPT ![p] = [at |-> "read", on |-> on]]
    /\ UNCHANGED <<target, profile, powered, leds, verify>>

PlugAnswers(p) == Answers(p, mains)
PlugIsUnsure(p) == Answers(p, None)

PlugSilent(p) ==
    /\ Asks(p)
    /\ plug' = [plug EXCEPT ![p] = Idle]
    /\ UNCHANGED <<target, profile, powered, leds, verify>>

\* Mutant: the heartbeat keeps what it read for the page only.
RememberUnobserved(p) ==
    /\ plug[p].at = "read"
    /\ IF p = Heartbeat THEN UNCHANGED <<powered, proven, sample, verified, sinceOff>>
                        ELSE Observe(plug[p].on)
    /\ plug' = [plug EXCEPT ![p] = Idle]
    /\ UNCHANGED <<target, profile, seen, probe>>

Remember(p) ==
    /\ plug[p].at = "read"
    /\ Observe(plug[p].on)
    /\ plug' = [plug EXCEPT ![p] = Idle]
    /\ UNCHANGED <<target, profile, seen, probe>>

-----------------------------------------------------------------------------
(* The LEDs. *)

ReadLeds(s) ==
    /\ sample[s] = Idle
    /\ sample' = [sample EXCEPT ![s] = [at |-> "read", values |-> led]]
    /\ UNCHANGED <<target, power, profile, seen, proven, sinceOff, verify>>

\* The last values seen, and the epoch the change will count for.
Compare(s) ==
    /\ sample[s].at = "read"
    /\ sample' = [sample EXCEPT ![s] =
          IF @.values = seen THEN Idle
          ELSE [at |-> "compared", values |-> @.values, prev |-> seen, now |-> TRUE]]
    /\ UNCHANGED <<target, power, profile, seen, proven, sinceOff, verify>>

\* Mutant: the profile is dropped at the readiness pulse only.
ResetSeenLate(prev, values) == "scroll" \in values \ prev

ResetSeen(prev, values) == "scroll" \in prev \ values

\* The first values are no change: nothing has moved yet.
Note(s) ==
    /\ sample[s].at = "compared"
    /\ sample' = [sample EXCEPT ![s] = Idle]
    /\ LET x == sample[s] IN
          /\ seen' = x.values
          /\ IF x.prev = None THEN UNCHANGED <<proven, sinceOff, profile>>
             ELSE /\ proven' = x.now
                  /\ sinceOff' = TRUE
                  /\ profile' = IF ResetSeen(x.prev, x.values) THEN None ELSE profile
    /\ UNCHANGED <<target, power, verify>>

\* LedsCapability.snapshot: available.
Claimed == powered # FALSE /\ proven

-----------------------------------------------------------------------------
(* verify_input.  Its samples are those of a sampler; Caps Lock comes back   *)
(* in the LED of a target that answers, and without mains in our own node.   *)

Toggled == IF "caps" \in led THEN led \ {"caps"} ELSE led \cup {"caps"}
CapsPressed == led' \in {led, Toggled \cap Lamps}

ProbeBegins ==
    /\ probe = Idle /\ powered # FALSE
    /\ CapsPressed
    /\ probe' = [at |-> "sent", before |-> led]
    /\ UNCHANGED <<mains, power, leds, profile, verified>>

\* The key is put back whatever was seen, and only then the time is taken that
\* says whether a later transition voids it.
ProbeEnds ==
    /\ probe # Idle
    /\ CapsPressed
    /\ verified' = (led # probe.before)
    /\ probe' = Idle
    /\ UNCHANGED <<mains, power, leds, profile>>

-----------------------------------------------------------------------------
Next ==
    \/ Switched \/ Resets \/ LedMoves
    \/ ProfileSet \/ ProfileClear
    \/ \E c \in Callers : PowerBegins(c) \/ Relay(c) \/ RelayFails(c)
    \/ \E p \in Plugs : PlugAnswers(p) \/ PlugIsUnsure(p) \/ PlugSilent(p) \/ Remember(p)
    \/ \E s \in Samplers : ReadLeds(s) \/ Compare(s) \/ Note(s)
    \/ ProbeBegins \/ ProbeEnds

Spec == Init /\ [][Next]_vars

\* Pollers go round, and a plug that is asked again and again answers.
FairSpec ==
    /\ Spec
    /\ SF_vars(PlugAnswers(Heartbeat))
    /\ \A p \in Plugs : WF_vars(Remember(p))
    /\ \A s \in Samplers : WF_vars(ReadLeds(s)) /\ WF_vars(Compare(s)) /\ WF_vars(Note(s))

-----------------------------------------------------------------------------
(* What must hold. *)

\* Nothing that was noticed before the plug was last found off is claimed to be
\* about now, whatever was read and remembered in which order.
ClaimsAreSinceOff == Claimed => sinceOff

\* The daemon comes to know a relay that is left alone, after any reading that
\* was late, unsure or missing.
PowerCatchesUp == \A on \in BOOLEAN : <>[](mains = on) => []<>(powered = on)

\* A profile from before a reset does not outlive a reset the LEDs show: the lamp
\* was seen lit and now is out, and no thread is about to note a change that it
\* compared with values from before the lamp was lit.  Threads that have read and
\* not compared yet may have read anything.
Lit(lamps) == "scroll" \in lamps
Outlived == profile = "old" /\ seen # None /\ Lit(seen) /\ ~Lit(led)
Late(s) == sample[s].at = "compared" /\ (sample[s].prev = None \/ ~Lit(sample[s].prev))
OutlivedIsDropped ==
    Outlived /\ (\A s \in Samplers : ~Late(s)) ~> (profile # "old" \/ Lit(led))

\* A profile never outlives such a reset.  A thread that compared before the lamp
\* was lit and notes after it went out hides that it was lit.
OutlivedIsAlwaysDropped == Outlived ~> (profile # "old" \/ Lit(led))

\* A claim is about the boot that runs.  Not so for a reading that was unsure
\* between two others: off, unsure, on counts as one transition.
ProofSurvivesNoStart == [][~mains /\ mains' => ~(Claimed /\ Claimed')]_vars
=============================================================================
