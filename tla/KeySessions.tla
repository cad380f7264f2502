---------------------------- MODULE KeySessions ----------------------------
(***************************************************************************)
(* What the keyboard and mouse component promises its clients: input       *)
(* reaches the target in sessions of one client at a time.  Inside its     *)
(* session a client moves keys; when the session ends, at most one code    *)
(* has been added to or taken from the codes that are held on purpose, or  *)
(* all of one device have been let go, and nothing is down that is not     *)
(* held.                                                                   *)
(***************************************************************************)
EXTENDS Naturals

CONSTANTS Clients, Nobody, KbdCodes, Buttons, Remap

Codes == KbdCodes \cup Buttons

VARIABLES session, held, down
vars == <<session, held, down>>

Init == session = Nobody /\ held = {} /\ down = {}

Begin(t) ==
    /\ session = Nobody /\ session' = t
    /\ UNCHANGED <<held, down>>

Drive(t) ==
    /\ session = t /\ down' \subseteq Codes
    /\ UNCHANGED <<session, held>>

End(t) ==
    /\ session = t /\ session' = Nobody
    /\ \/ held' = held
       \/ \E c \in Codes : held' \in {held \cup {c}, held \ {c}}
       \/ held' \in {held \ KbdCodes, held \ Buttons}
    /\ down' \subseteq {Remap[c] : c \in held'}

Next == \E t \in Clients : Begin(t) \/ Drive(t) \/ End(t)

Spec == Init /\ [][Next]_vars
=============================================================================
