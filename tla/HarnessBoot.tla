---------------------------- MODULE HarnessBoot ----------------------------
(***************************************************************************)
(* The harness restarts the target and waits for it, with nothing to go by *)
(* but three keyboard lamps: select_boot_profile arms them, sends the      *)
(* reboot chord and waits for the edges a start makes, ensure_powered      *)
(* switches the machine on and waits likewise, and at_prompt toggles Num   *)
(* Lock to see whether the keyboard is served.                             *)
(*                                                                         *)
(* The lamps of the machine and those the Pi publishes are two things, as  *)
(* are a key and what it does: a press may be served later, and the Pi     *)
(* shows the last lamps of a machine that is off.  The harness waits for   *)
(* levels, with a time limit that may run out at any moment.               *)
(*                                                                         *)
(* Left out: who else types (the harness holds the input lock), a call     *)
(* that raises, and what the menu keys select.                             *)
(***************************************************************************)
EXTENDS Naturals, Sequences

CONSTANTS
    MaxUpsets,  \* bound: resets and losses of power that nobody asked for
    MaxKeys     \* bound: lock keys pressed and not served yet

BoundsAssumption == MaxUpsets \in Nat /\ MaxKeys \in Nat

VARIABLES
    phase,      \* the machine: "off", "post", "boot" or "prompt"
    led,        \* its lamps that are lit
    keys,       \* lock keys pressed and not served yet
    upsets,
    node,       \* the lamps as the Pi shows them
    chan,       \* `leds`: "ok", "unproven" or "dead"
    pc,         \* where the harness is
    val,        \* what it read last: TRUE, FALSE
    before,     \* Num Lock before the probe
    since,      \* history: since the harness began to arm or switched on, "nothing", a "post",
                \* or a whole start ("booted")
    numWas      \* history: Num Lock before the last probe, <<>> after a POST

vars == <<phase, led, keys, upsets, node, chan, pc, val, before, since, numWas>>
machine == <<phase, led, keys, upsets>>
local == <<val, before>>

Lamps == {"caps", "scroll", "num"}
Places == {"idle", "refused", "ready", "proof", "proving", "caps", "capsAgain", "capsWait",
           "scroll", "scrollAgain", "scrollWait", "checkCaps", "checkCapsAgain",
           "checkScroll", "checkScrollAgain", "combo", "edge", "menu", "pulse",
           "num", "numAgain", "numWait", "numBack", "numRest", "cold", "coldPulse"}

TypeOK ==
    /\ phase \in {"off", "post", "boot", "prompt"}
    /\ led \subseteq Lamps /\ node \subseteq Lamps
    /\ keys \in Seq(Lamps) /\ upsets \in 0 .. MaxUpsets
    /\ chan \in {"ok", "unproven", "dead"} /\ pc \in Places
    /\ val \in BOOLEAN /\ before \in BOOLEAN
    /\ since \in {"nothing", "post", "booted"} /\ numWas \in {<<>>, <<TRUE>>, <<FALSE>>}

Init ==
    /\ phase \in {"off", "boot", "prompt"}
    /\ led \in SUBSET Lamps /\ node = led
    /\ phase = "boot" => "scroll" \notin led
    /\ keys = <<>> /\ upsets = 0
    /\ chan \in {"ok", "unproven"} /\ pc = "idle"
    /\ val = FALSE /\ before = FALSE /\ since = "nothing" /\ numWas = <<>>

Toggled(S, l) == IF l \in S THEN S \ {l} ELSE S \cup {l}

-----------------------------------------------------------------------------
(* The machine. *)

Alive == phase \in {"boot", "prompt"}

Restarts ==
    /\ phase' = "post" /\ keys' = <<>>
    /\ UNCHANGED led

Upset ==
    /\ upsets < MaxUpsets /\ upsets' = upsets + 1
    /\ \/ phase # "off" /\ Restarts
       \/ phase' = "off" /\ keys' = <<>> /\ led' = node
    /\ UNCHANGED <<node, chan, pc, local, since, numWas>>

\* POST clears the lamps.
Posts ==
    /\ phase = "post"
    /\ phase' = "boot" /\ led' = {}
    /\ since' = IF since = "nothing" THEN "post" ELSE since
    /\ numWas' = <<>>
    /\ UNCHANGED <<keys, upsets, node, chan, pc, local>>

\* RDYPULSE is the last thing a start runs.
Pulses ==
    /\ phase = "boot"
    /\ phase' = "prompt" /\ led' = led \cup {"scroll"}
    /\ since' = IF since = "post" THEN "booted" ELSE since
    /\ UNCHANGED <<keys, upsets, node, chan, pc, local, numWas>>

Served ==
    /\ Alive /\ keys # <<>>
    /\ led' = Toggled(led, Head(keys)) /\ keys' = Tail(keys)
    /\ UNCHANGED <<phase, upsets, node, chan, pc, local, since, numWas>>

\* The Pi shows the lamps of a machine that runs; a change proves the channel.
Published ==
    /\ phase # "off" /\ node # led
    /\ node' = led /\ chan' = IF chan = "unproven" THEN "ok" ELSE chan
    /\ UNCHANGED <<machine, pc, local, since, numWas>>

ChannelChanges ==
    /\ chan' \in {"unproven", "dead"} \ {chan} \/ (chan = "dead" /\ chan' = "unproven")
    /\ pc = "idle"
    /\ UNCHANGED <<machine, node, pc, local, since, numWas>>

-----------------------------------------------------------------------------
(* Reading a lamp and pressing a key. *)

GoesTo(place) == pc' = place
Refuses == GoesTo("refused")

Press(l) ==
    /\ Len(keys) < MaxKeys
    /\ keys' = IF Alive THEN Append(keys, l) ELSE keys
    /\ UNCHANGED <<phase, led, upsets>>

Readable == chan = "ok"
Lit(l) == l \in node

\* wait_led: the level is seen, or the time runs out.
WaitsFor(l, want, then, otherwise) ==
    \/ Readable /\ Lit(l) = want /\ GoesTo(then)
    \/ GoesTo(otherwise)

Steady == keys = <<>> /\ (phase # "off" => node = led)

\* stable_led reads until two readings in a row agree.  A lamp comes to rest
\* between two readings, though it may not be at rest at the first.
FirstRead(l, again) ==
    IF Readable THEN val' = Lit(l) /\ GoesTo(again) ELSE Refuses /\ UNCHANGED val

\* Mutant: the first reading will do.
AgreesAtOnce(l) == TRUE

Agrees(l) == Steady /\ Lit(l) = val

SecondRead(l, then) ==
    \/ Readable /\ Agrees(l) /\ then
    \/ Refuses /\ UNCHANGED keys

-----------------------------------------------------------------------------
(* arm_leds. *)

SelectBegins ==
    /\ pc \in {"idle", "refused", "ready"} /\ GoesTo("proof")
    /\ since' = "nothing"
    /\ UNCHANGED <<machine, node, chan, local, numWas>>

\* A channel that nothing has been seen to move is moved, with the one key that
\* means nothing to anybody.
Prove ==
    /\ pc = "proof"
    /\ CASE chan = "ok" -> GoesTo("caps") /\ UNCHANGED machine
         [] chan = "unproven" -> Press("num") /\ GoesTo("proving")
         [] OTHER -> Refuses /\ UNCHANGED machine
    /\ numWas' = <<>>
    /\ UNCHANGED <<node, chan, local, since>>

Proven ==
    /\ pc = "proving"
    /\ (chan = "ok" /\ GoesTo("caps")) \/ Refuses
    /\ UNCHANGED <<machine, node, chan, local, since, numWas>>

\* One lamp: read it, press its key if it is not as wanted, and wait.
Armed(l, want, here, again, wait, next) ==
    \/ pc = here /\ FirstRead(l, again) /\ UNCHANGED machine
    \/ /\ pc = again /\ UNCHANGED <<phase, led, upsets, val>>
       /\ SecondRead(l, IF val = want THEN GoesTo(next) /\ UNCHANGED keys
                                      ELSE Press(l) /\ GoesTo(wait))
    \/ pc = wait /\ WaitsFor(l, want, next, "refused") /\ UNCHANGED <<machine, val>>

ArmCaps ==
    /\ Armed("caps", TRUE, "caps", "capsAgain", "capsWait", "scroll")
    /\ UNCHANGED <<node, chan, before, since, numWas>>

ArmScroll ==
    /\ Armed("scroll", FALSE, "scroll", "scrollAgain", "scrollWait", "checkCaps")
    /\ UNCHANGED <<node, chan, before, since, numWas>>

Checked(l, want, here, again, next) ==
    \/ pc = here /\ FirstRead(l, again) /\ UNCHANGED machine
    \/ /\ pc = again /\ UNCHANGED <<phase, led, upsets, val>>
       /\ SecondRead(l, GoesTo(IF val = want THEN next ELSE "refused") /\ UNCHANGED keys)

CheckArmed ==
    /\ \/ Checked("caps", TRUE, "checkCaps", "checkCapsAgain", "checkScroll")
       \/ Checked("scroll", FALSE, "checkScroll", "checkScrollAgain", "combo")
    /\ UNCHANGED <<node, chan, before, since, numWas>>

-----------------------------------------------------------------------------
(* select_boot_profile. *)

\* A machine that hangs ignores the chord.
Combo ==
    /\ pc = "combo" /\ GoesTo("edge")
    /\ (Alive /\ Restarts) \/ UNCHANGED <<phase, led, keys>>
    /\ UNCHANGED <<upsets, node, chan, local, since, numWas>>

Edge ==
    /\ pc = "edge" /\ WaitsFor("caps", FALSE, "menu", "refused")
    /\ UNCHANGED <<machine, node, chan, local, since, numWas>>

\* One call for all the keys, or none for the default.
SpamMenu ==
    /\ pc = "menu" /\ GoesTo("pulse")
    /\ UNCHANGED <<machine, node, chan, local, since, numWas>>

ReadySeen ==
    /\ pc = "pulse" /\ WaitsFor("scroll", TRUE, "num", "refused")
    /\ UNCHANGED <<machine, node, chan, local, since, numWas>>

-----------------------------------------------------------------------------
(* at_prompt, for as long as wait_for_prompt has time. *)

ProbeReads ==
    /\ \/ pc = "num" /\ FirstRead("num", "numAgain") /\ UNCHANGED <<machine, before, numWas>>
       \/ /\ pc = "numAgain"
          /\ SecondRead("num", Press("num") /\ GoesTo("numWait"))
          /\ before' = val /\ UNCHANGED <<phase, led, upsets, val>>
          /\ numWas' = IF pc' = "numWait" THEN <<val>> ELSE numWas
    /\ UNCHANGED <<node, chan, since>>

\* Mutant: the key is put back when it was seen to work.
ProbeFlipsOnly ==
    /\ pc = "numWait"
    /\ \/ Readable /\ Lit("num") # before /\ GoesTo("numBack") /\ Press("num")
       \/ GoesTo("num") /\ UNCHANGED machine
    /\ UNCHANGED <<node, chan, local, since, numWas>>

\* The key is put back whether or not it was seen to work.
ProbeFlips ==
    /\ pc = "numWait"
    /\ WaitsFor("num", ~before, "numBack", "numRest")
    /\ Press("num")
    /\ UNCHANGED <<node, chan, local, since, numWas>>

ProbeRestored ==
    /\ \/ pc = "numBack" /\ GoesTo("ready")
       \/ pc = "numRest" /\ pc' \in {"num", "refused"}
    /\ UNCHANGED <<machine, node, chan, local, since, numWas>>

-----------------------------------------------------------------------------
(* ensure_powered: the plug says off, and the caller allows to switch on. *)

PowerOn ==
    /\ pc \in {"idle", "refused", "ready"} /\ phase = "off"
    /\ phase' = "post" /\ keys' = <<>> /\ GoesTo("cold")
    /\ since' = "nothing"
    /\ UNCHANGED <<led, upsets, node, chan, local, numWas>>

\* Mutant: the pulse alone.
ColdByLevel ==
    /\ \/ pc = "cold" /\ GoesTo("coldPulse")
       \/ pc = "coldPulse" /\ WaitsFor("scroll", TRUE, "ready", "refused")
    /\ UNCHANGED <<machine, node, chan, local, since, numWas>>

\* wait_cold_boot: down first, so that what is up then belongs to this start.
ColdBoot ==
    /\ \/ pc = "cold" /\ WaitsFor("scroll", FALSE, "coldPulse", "refused")
       \/ pc = "coldPulse" /\ WaitsFor("scroll", TRUE, "ready", "refused")
    /\ UNCHANGED <<machine, node, chan, local, since, numWas>>

Next ==
    \/ Upset \/ Posts \/ Pulses \/ Served \/ Published \/ ChannelChanges
    \/ SelectBegins \/ Prove \/ Proven \/ ArmCaps \/ ArmScroll \/ CheckArmed
    \/ Combo \/ Edge \/ SpamMenu \/ ReadySeen
    \/ ProbeReads \/ ProbeFlips \/ ProbeRestored
    \/ PowerOn \/ ColdBoot

Spec == Init /\ [][Next]_vars

-----------------------------------------------------------------------------
(* What must hold. *)

\* A start the harness reports is one that happened: between its first look at
\* the lamps, or its power-on, and its report the machine went through a POST and came up, though
\* the lamps may have shown an earlier start all along.
ReadyMeansBooted == [][pc' = "ready" /\ pc # "ready" => since = "booted"]_vars

\* A probe leaves Num Lock as it was, whatever it saw, once the machine has
\* served the keys.
ProbeRestores ==
    pc \notin {"numWait", "numBack"} /\ numWas # <<>> /\ Alive /\ keys = <<>>
        => <<"num" \in led>> = numWas
=============================================================================
