------------------------------ MODULE Evidence ------------------------------
(***************************************************************************)
(* What the daemon keeps and shows as evidence of what was on the screen:  *)
(* the ring of frames, the timeline's scores, recordings, kept bad frames, *)
(* shots.  As in Parts each is a module of its own, `moving` says which    *)
(* one a behaviour is of, and the others stay in one initial state.        *)
(***************************************************************************)
EXTENDS Naturals, Sequences

VARIABLE moving

CONSTANTS Holders, Sizes, Budgets, MinCap, Headrooms, Few, Timeout
VARIABLES ring, bytes, budget, pins, cap
ringVars == <<ring, bytes, budget, pins, cap>>

FrameRing == INSTANCE FrameRing

CONSTANTS Timelines, Frames, Room
VARIABLES timelineRing, timelineSeq, bad, chg, timelineJob
timelineVars == <<timelineRing, timelineSeq, bad, chg, timelineJob>>

Timeline == INSTANCE Timeline WITH
    Pages <- Timelines, ring <- timelineRing, seq <- timelineSeq, job <- timelineJob

CONSTANTS Ends, Gap, MostRepeats
VARIABLE recordedRing

Recording == INSTANCE Recording WITH Longest <- MostRepeats, ring <- recordedRing

CONSTANTS Decoders, Places, KeptFrames, Errors
VARIABLES errs, badImages, notes, kept, badJob, torn, overtaken
badVars == <<errs, badImages, notes, kept, badJob, torn, overtaken>>

BadFrames == INSTANCE BadFrames WITH
    Threads <- Decoders, Keep <- KeptFrames, images <- badImages, job <- badJob

CONSTANTS ShotFrames, ShotRoom, Window
VARIABLES analog, patient, shotRing, shot, watch, good
shotVars == <<analog, patient, shotRing, shot, watch, good>>

Shots == INSTANCE Shots WITH Frames <- ShotFrames, Room <- ShotRoom, ring <- shotRing

-----------------------------------------------------------------------------
(* All of them. *)

ASSUME EvidenceAssumption ==
    /\ FrameRing!RingAssumption
    /\ Timeline!TimelineAssumption /\ Recording!RecordingAssumption
    /\ BadFrames!BadFramesAssumption /\ Shots!ShotsAssumption

Init ==
    /\ moving \in {"ring", "timeline", "recording", "bad frames", "shots"}
    /\ FrameRing!Init /\ (moving # "ring" => budget = CHOOSE b \in Budgets : TRUE)
    /\ Timeline!Init
    /\ Recording!Init
    /\ BadFrames!Init
    /\ Shots!Init /\ (moving # "shots" => analog /\ patient)

\* A part that does not move keeps its variables.
Stays(p, partVars) == IF moving = p THEN TRUE ELSE UNCHANGED partVars

OthersStay ==
    /\ UNCHANGED moving
    /\ Stays("ring", ringVars)
    /\ Stays("timeline", timelineVars) /\ Stays("recording", recordedRing)
    /\ Stays("bad frames", badVars) /\ Stays("shots", shotVars)

Next ==
    \/ moving = "ring" /\ FrameRing!Next /\ OthersStay
    \/ moving = "timeline" /\ Timeline!Next /\ OthersStay
    \/ moving = "recording" /\ Recording!Next /\ OthersStay
    \/ moving = "bad frames" /\ BadFrames!Next /\ OthersStay
    \/ moving = "shots" /\ Shots!Next /\ OthersStay

vars == <<moving, ringVars, timelineVars, recordedRing, badVars, shotVars>>

Spec == Init /\ [][Next]_vars

\* Where the ring moves it is as fair as in FrameRing.
FairSpec ==
    /\ Spec
    /\ WF_ringVars(moving = "ring" /\ FrameRing!Tick)
    /\ WF_ringVars(moving = "ring" /\ FrameRing!Expire)

-----------------------------------------------------------------------------
(* Properties: what the modules state of their parts. *)

\* An invariant of a part, asked for where that part moves: elsewhere it is in
\* the initial state it has among its own.
Of(p, invariant) == moving = p => invariant

\* The ring's count of bytes is the size of what it keeps, through every pop and
\* every thinning, and a push leaves a ring within the cap, or one frame.
RingWithinCap == []Of("ring", FrameRing!BytesExact) /\ FrameRing!PushFits

\* Under a pin nothing is freed to make room: the ring loses frames of its old end
\* that are older than the span asked for, and no other.
PinnedIsKept == FrameRing!PinKeepsRecent

\* Room is made by thinning: the oldest frame stays, while there are frames to
\* thin and it is not too old.
HistorySurvives == FrameRing!HistoryKept

\* A lease that is not renewed ends, whoever else renews his.
PinsEnd == FrameRing!AbandonedPinEnds

\* A score compares neighbours and what came since the last request is scored;
\* a recording is of the span asked for; a bad frame on record has its files, and
\* these stay few; a shot is a picture, and the reason for none is the true one.
EvidenceIsTrue ==
    /\ []Of("timeline", Timeline!ScoreSkipsNothing) /\ Timeline!NewIsScored
    /\ []Of("recording", Recording!RecordingIsTheCallers)
    /\ []Of("bad frames", BadFrames!KeptIsThere /\ BadFrames!DirectoryBounded)
    /\ []Of("shots", Shots!OnlyPictures /\ Shots!ReasonIsTrue)
=============================================================================
