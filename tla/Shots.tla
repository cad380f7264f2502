------------------------------- MODULE Shots -------------------------------
(***************************************************************************)
(* Telling a picture from what a capture stick emits without one: `shot`,  *)
(* which selects a frame of the last few or says why there is none, and    *)
(* the last frame that was positively picture, kept by `shot` and by the   *)
(* watchdog, for when there is none.                                       *)
(*                                                                         *)
(* Each reads the ring under the lock, decodes without it, and takes it    *)
(* again to keep the frame, so they overlap.  A frame is its number and    *)
(* its look: "blank", the stick's constant without a signal; a "dark" or a *)
(* "bright" picture; or "bad", which does not decode.  An analog picture   *)
(* never repeats bit by bit, a blank always does.  When the watchdog holds *)
(* the picture for live is CaptureWatchdog's question: any time, here.     *)
(***************************************************************************)
EXTENDS Naturals, Sequences

CONSTANTS
    Frames,     \* bound: frames ever captured
    Room,       \* frames in the ring
    Window      \* frames a shot considers (`n`)

ShotsAssumption == Frames \in Nat \ {0} /\ Room \in Nat \ {0} /\ Window \in 1 .. Room

VARIABLES
    analog,     \* ANALOG: the source has noise
    patient,    \* SHOT_RETRY_S > 0
    ring,       \* frames, oldest first
    shot,       \* what the request is at
    watch,      \* the frame the watchdog is decoding, or None
    good        \* last_good, or None

vars == <<analog, patient, ring, shot, watch, good>>

None == [n |-> 0, look |-> "none"]
Idle == [at |-> "idle"]
Looks == {"blank", "dark", "bright", "bad"}
Frame == [n : 1 .. Frames, look : Looks]
Reasons == {"empty", "repeats", "blank", "broken"}
Shows(f) == f.look \in {"dark", "bright"}

TypeOK ==
    /\ analog \in BOOLEAN /\ patient \in BOOLEAN
    /\ ring \in Seq(Frame) /\ Len(ring) <= Room
    /\ watch \in Frame \cup {None} /\ good \in Frame \cup {None}
    /\ shot \in {Idle}
          \cup [at : {"selecting"}, items : Seq(Frame), waited : BOOLEAN]
          \cup [at : {"waiting", "told"}, items : Seq(Frame), reason : Reasons]
          \cup [at : {"found"}, frame : Frame]

Init ==
    /\ analog \in BOOLEAN /\ patient \in BOOLEAN
    /\ ring = <<>> /\ shot = Idle /\ watch = None /\ good = None

Capture(look) ==
    LET n == IF ring = <<>> THEN 1 ELSE ring[Len(ring)].n + 1
    IN /\ n <= Frames
       /\ ring' = Append(IF Len(ring) = Room THEN Tail(ring) ELSE ring, [n |-> n, look |-> look])
       /\ UNCHANGED <<analog, patient, shot, watch, good>>

Recent(n) == IF Len(ring) <= n THEN ring ELSE SubSeq(ring, Len(ring) - n + 1, Len(ring))

-----------------------------------------------------------------------------
(* The selection: `_select`. *)

Among(items) == {items[i] : i \in DOMAIN items}

Same(f, g) == f = g \/ (f.look = "blank" /\ g.look = "blank")

\* A repeated hash is a frame without a signal, if the source has noise.
Live(items) == {f \in Among(items) : analog => \A g \in Among(items) \ {f} : ~ Same(f, g)}

\* Mutant: anything unrepeated that decodes is a picture.
Decoding(items) == {f \in Live(items) : f.look # "bad"}

\* A frame of one value is no picture, however unrepeated (MIN_RANGE).
Candidates(items) == {f \in Live(items) : Shows(f)}

Oldest(fs) == CHOOSE f \in fs : \A g \in fs : f.n <= g.n

\* The brightest, and of those the oldest.
Best(items) ==
    LET bright == {f \in Candidates(items) : f.look = "bright"}
    IN Oldest(IF bright # {} THEN bright ELSE Candidates(items))

Seen(items, look) == \E f \in Live(items) : f.look = look

\* Mutant: a frame that broke is not told from a blank.
ReasonForgetsErrors(items) ==
    IF Live(items) = {} THEN "repeats" ELSE "blank"

ReasonFor(items) ==
    IF Live(items) = {} THEN "repeats"
    ELSE IF Seen(items, "blank") /\ ~ Seen(items, "bad") THEN "blank" ELSE "broken"

-----------------------------------------------------------------------------
(* A shot. *)

Told(items, reason) == [at |-> "told", items |-> items, reason |-> reason]

Open ==
    /\ shot = Idle
    /\ shot' = IF ring = <<>> THEN Told(<<>>, "empty")
               ELSE [at |-> "selecting", items |-> Recent(Window), waited |-> FALSE]
    /\ UNCHANGED <<analog, patient, ring, watch, good>>

\* "Only a blank is worth waiting out"; once it waits, it waits for any reason.
Waits(reason) == patient /\ (reason = "blank" \/ shot.waited)

Select ==
    /\ shot.at = "selecting"
    /\ LET items == shot.items
           reason == ReasonFor(items)
       IN shot' = IF Candidates(items) # {} THEN [at |-> "found", frame |-> Best(items)]
                  ELSE IF Waits(reason) THEN [at |-> "waiting", items |-> items, reason |-> reason]
                  ELSE Told(items, reason)
    /\ UNCHANGED <<analog, patient, ring, watch, good>>

\* Half a second later; the ring is not empty once it was not.
Retry ==
    /\ shot.at = "waiting"
    /\ shot' = [at |-> "selecting", items |-> Recent(Window), waited |-> TRUE]
    /\ UNCHANGED <<analog, patient, ring, watch, good>>

GiveUp ==
    /\ shot.at = "waiting"
    /\ shot' = Told(shot.items, shot.reason)
    /\ UNCHANGED <<analog, patient, ring, watch, good>>

\* The frame is kept as the last good one, and is the answer.
Keep ==
    /\ shot.at = "found"
    /\ good' = shot.frame
    /\ shot' = Idle
    /\ UNCHANGED <<analog, patient, ring, watch>>

Tell ==
    /\ shot.at = "told"
    /\ shot' = Idle
    /\ UNCHANGED <<analog, patient, ring, watch, good>>

-----------------------------------------------------------------------------
(* The watchdog, while it holds the picture for live. *)

WatchReads ==
    /\ watch = None /\ ring # <<>>
    /\ watch' = ring[Len(ring)]
    /\ UNCHANGED <<analog, patient, ring, shot, good>>

\* Mutant: kept because frames keep arriving, without a look at this one.
IsPictureUnasked(f) == TRUE

IsPicture(f) == Shows(f)

WatchKeeps ==
    /\ watch # None
    /\ good' = IF IsPicture(watch) THEN watch ELSE good
    /\ watch' = None
    /\ UNCHANGED <<analog, patient, ring, shot>>

Next ==
    \/ \E look \in Looks : Capture(look)
    \/ Open \/ Select \/ Retry \/ GiveUp \/ Keep \/ Tell
    \/ WatchReads \/ WatchKeeps

Spec == Init /\ [][Next]_vars

-----------------------------------------------------------------------------
(* What must hold. *)

\* "Never returns a frame when it cannot tell picture from no-lock": what a shot
\* hands out and what is kept for later is a picture, whoever kept it.
OnlyPictures ==
    /\ good # None => Shows(good)
    /\ shot.at = "found" => Shows(shot.frame)

\* "It may not report a different failure than the one it had": blank is said
\* of frames that were blank to the last, repeats of frames without a signal,
\* and broken only where a frame broke.
ReasonIsTrue ==
    shot.at = "told" =>
        CASE shot.reason = "empty"   -> shot.items = <<>>
          [] shot.reason = "repeats" -> \A f \in Among(shot.items) : f.look = "blank"
          [] shot.reason = "blank"   -> \A f \in Among(shot.items) : f.look = "blank"
          [] shot.reason = "broken"  -> \E f \in Among(shot.items) : f.look = "bad"

\* "How long `shot` waits for a real picture when the only thing it found was a
\* flat blank" (vcctrld.py:4373).  Not so on an analog source, where two blanks
\* are called repeats and nothing waits.
BlankIsWaitedOut ==
    [][shot.at = "selecting" /\ shot'.at = "told" /\ patient
          => \E f \in Among(shot.items) : f.look # "blank"]_vars

\* "The last frame that was positively picture" (vcctrld.py:5505).  Not so: a
\* shot keeps the brightest of its window after the watchdog kept a newer one.
GoodIsTheLast == [][good'.n >= good.n]_vars
=============================================================================
