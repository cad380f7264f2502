------------------------------ MODULE Registry ------------------------------
(***************************************************************************)
(* Which capabilities a profile has, and which of them answers a command.  *)
(* The registry goes through the classes in their order: it resolves the   *)
(* backend the configuration names, constructs and starts the capability,  *)
(* and enters its commands in the table of routes, where the last entry of *)
(* a name is the one that counts.                                          *)
(*                                                                         *)
(* Three classes stand for all: `leds`, which has a default; `power`,      *)
(* which is only there when asked for; and `pointer`, which is too, and    *)
(* takes over verify_input where there are no lamps.  Threads that a start *)
(* leaves running when it fails are left out.                              *)
(***************************************************************************)
EXTENDS Naturals, Sequences

Capabilities == <<"leds", "power", "pointer">>
Names == {"leds", "power", "pointer"}
HasDefault == {"leds"}

\* What the configuration may say of a backend.
Backends == {"absent", "none", "known", "unknown"}

VARIABLES
    config,     \* `backend:` of each capability
    next,       \* the class that is looked at, counted from 1
    caps,       \* capabilities that run
    failed,     \* capabilities that should and do not
    disabled,   \* capabilities nobody asked for
    routes      \* commands, and who answers them: a capability, or its refusal

vars == <<config, next, caps, failed, disabled, routes>>

Runs(c) == [cap |-> c, refuses |-> FALSE]
Refuses(c) == [cap |-> c, refuses |-> TRUE]
Routes == [cap : Names, refuses : BOOLEAN]
Verbs == {"leds", "power", "cursor", "verify_input"}

TypeOK ==
    /\ config \in [Names -> Backends] /\ next \in 1 .. Len(Capabilities) + 1
    /\ caps \subseteq Names /\ failed \subseteq Names /\ disabled \subseteq Names
    /\ DOMAIN routes \subseteq Verbs /\ \A v \in DOMAIN routes : routes[v] \in Routes

Init ==
    /\ config \in [Names -> Backends]
    /\ next = 1
    /\ caps = {} /\ failed = {} /\ disabled = {}
    /\ routes = <<>>

Started == next > Len(Capabilities)
Class == Capabilities[next]

\* Mutant: the pointer claims it whenever it can check.
CommandsClaimed(c, configured) ==
    CASE c = "leds"    -> {"leds", "verify_input"}
      [] c = "power"   -> {"power"}
      [] c = "pointer" -> {"cursor", "verify_input"}

\* The pointer's check is verify_input only on a configured instance, and only
\* where the lamps are switched off.
Commands(c, configured) ==
    CASE c = "leds"    -> {"leds", "verify_input"}
      [] c = "power"   -> {"power"}
      [] c = "pointer" -> {"cursor"} \cup
            (IF configured /\ config["leds"] = "none" THEN {"verify_input"} ELSE {})

Entered(vs, route) ==
    [v \in DOMAIN routes \cup vs |-> IF v \in vs THEN route ELSE routes[v]]

\* Mutant: what has no default is started where nothing is said of it.
SwitchedOffLoosely(c) == config[c] = "none"

\* Nobody asked: `none`, or nothing said of one that has no default.
SwitchedOff(c) == config[c] = "none" \/ (config[c] = "absent" /\ c \notin HasDefault)

\* Unless its commands cannot be had, which takes an instance.
Disable(enumerable) ==
    /\ ~ Started /\ SwitchedOff(Class)
    /\ disabled' = disabled \cup {Class}
    /\ routes' = IF enumerable THEN Entered(Commands(Class, FALSE), Refuses(Class)) ELSE routes
    /\ next' = next + 1
    /\ UNCHANGED <<config, caps, failed>>

\* "Deliberately a failure and not a fallback to the default."
UnknownBackend ==
    /\ ~ Started /\ config[Class] = "unknown"
    /\ failed' = failed \cup {Class}
    /\ next' = next + 1
    /\ UNCHANGED <<config, caps, disabled, routes>>

Wanted == ~ Started /\ ~ SwitchedOff(Class) /\ config[Class] # "unknown"

Start ==
    /\ Wanted
    /\ caps' = caps \cup {Class}
    /\ routes' = Entered(Commands(Class, TRUE), Runs(Class))
    /\ next' = next + 1
    /\ UNCHANGED <<config, failed, disabled>>

\* Mutant: its commands are entered before it is started.
StartFailsEntered ==
    /\ Wanted
    /\ failed' = failed \cup {Class}
    /\ routes' = Entered(Commands(Class, TRUE), Runs(Class))
    /\ next' = next + 1
    /\ UNCHANGED <<config, caps, disabled>>

\* Its constructor or its start raises: the others carry on.
StartFails ==
    /\ Wanted
    /\ failed' = failed \cup {Class}
    /\ next' = next + 1
    /\ UNCHANGED <<config, caps, disabled, routes>>

Next ==
    \/ \E enumerable \in BOOLEAN : Disable(enumerable)
    \/ UnknownBackend \/ Start \/ StartFails

Spec == Init /\ [][Next]_vars

-----------------------------------------------------------------------------
(* What must hold. *)

\* "Three states, never two": once started, each capability is in one of them;
\* what runs was asked for or is a default; a command is answered by one that
\* runs, or refused for one that is off, and never by one that failed.
ThreeStates ==
    /\ Started => caps \cup failed \cup disabled = Names
    /\ caps \cap failed = {} /\ caps \cap disabled = {} /\ failed \cap disabled = {}
    /\ \A c \in caps : config[c] = "known" \/ (config[c] = "absent" /\ c \in HasDefault)
    /\ \A v \in DOMAIN routes :
         IF routes[v].refuses THEN routes[v].cap \in disabled ELSE routes[v].cap \in caps

\* "verify_input BELONGS to LedsCapability wherever LEDs exist", and to the
\* pointer where they are switched off and it runs, whoever was entered last.
VerifyInputBelongs ==
    Started =>
        /\ "leds" \in caps => routes["verify_input"] = Runs("leds")
        /\ "leds" \in disabled /\ "pointer" \in caps => routes["verify_input"] = Runs("pointer")
        /\ "leds" \in failed => "verify_input" \notin DOMAIN routes
=============================================================================
