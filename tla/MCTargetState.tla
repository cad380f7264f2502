--------------------------- MODULE MCTargetState ---------------------------
(***************************************************************************)
(* TargetState for TLC.  All threads at once, with all the LEDs, are too   *)
(* many states, so a behaviour is of one of two kinds:                     *)
(*   "power"  plug, probe and one sampler, and a keyboard with one LED;    *)
(*   "lamps"  all samplers and LEDs, while the plug and the probe stand    *)
(*            still: no LED is compared with what they say.                *)
(***************************************************************************)
EXTENDS TargetState

CONSTANT poller     \* the sampler that is always there

VARIABLE kind

\* What a step may do in a behaviour of the kind.
Kept ==
    /\ UNCHANGED kind
    /\ kind = "power" => sample' = [sample EXCEPT ![poller] = sample'[poller]] /\ led' \subseteq {"scroll"}
    /\ kind = "lamps" => UNCHANGED <<power, verify>>

Samples(s) == kind = "lamps" \/ s = poller

MCInit == Init /\ kind \in {"power", "lamps"}
MCNext == Next /\ Kept
mcVars == <<vars, kind>>

\* FairSpec, of the threads that are there.
MCSpec ==
    /\ MCInit /\ [][MCNext]_mcVars
    /\ SF_mcVars(kind = "power" /\ PlugAnswers(Heartbeat) /\ Kept)
    /\ \A p \in Plugs : WF_mcVars(kind = "power" /\ Remember(p) /\ Kept)
    /\ \A s \in Samplers :
           /\ WF_mcVars(Samples(s) /\ ReadLeds(s) /\ Kept)
           /\ WF_mcVars(Samples(s) /\ Compare(s) /\ Kept)
           /\ WF_mcVars(Samples(s) /\ Note(s) /\ Kept)

\* Where the plug is read.
PowerIsFollowed == kind = "power" => PowerCatchesUp
=============================================================================
