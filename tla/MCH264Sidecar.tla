--------------------------- MODULE MCH264Sidecar ---------------------------
(***************************************************************************)
(* H264Sidecar in two settings.  In "stream" (the constants of the .cfg)   *)
(* encoders are replaced while viewers empty the ring; in "lease" frames   *)
(* matter little, but the Pi throttles and the capability stops.           *)
(* `setting` is chosen once; the two share their variables.                *)
(***************************************************************************)
EXTENDS H264Sidecar

VARIABLE setting

Lease == INSTANCE H264Sidecar WITH MaxFrames <- 1, Throttles <- TRUE, Stops <- TRUE

SettingsInit == Init /\ setting \in {"stream", "lease"}

SettingsNext ==
    \/ setting = "stream" /\ Next /\ UNCHANGED setting
    \/ setting = "lease" /\ Lease!Next /\ UNCHANGED setting

\* The readers are as fair as in FairSpec: no constant of the settings is theirs.
SettingsSpec ==
    /\ SettingsInit /\ [][SettingsNext]_<<vars, setting>>
    /\ \A e \in Encoders : WF_vars(ReaderStep(e))
=============================================================================
