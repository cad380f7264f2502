----------------------------- MODULE BadFrames -----------------------------
(***************************************************************************)
(* Counting the frames that do not decode, and keeping the last of them on *)
(* disk with a note (`_decoded`, `_keep_bad_frame`).                       *)
(*                                                                         *)
(* Any request may meet one, as the watchdog may, each in its own thread.  *)
(* A failure is counted under the lock; the number that makes the file's   *)
(* name is read under it again, the files are written without it, the      *)
(* record of what is kept is a deque under the lock, and the files of the  *)
(* record that falls out are removed after.                                *)
(*                                                                         *)
(* A burst of failures is within a second, so the time in the name tells   *)
(* nothing apart and is left out.  So is the frame's number: most places   *)
(* pass none, and two requests can score one frame.  A name is then a      *)
(* number and the place in the code, and threads share the places.         *)
(***************************************************************************)
EXTENDS Naturals, Sequences, FiniteSets

CONSTANTS
    Threads,    \* decoding at once
    Places,     \* in the code, where frames are decoded
    Keep,       \* BAD_KEEP
    Errors      \* bound: failures ever

BadFramesAssumption ==
    /\ Keep \in Nat \ {0} /\ Errors \in Nat
    /\ IsFiniteSet(Threads)

VARIABLES
    errs,       \* decode_errs
    images,     \* names of the .jpg files that are there
    notes,      \* names of the .json files
    kept,       \* bad_frames: names, oldest first
    job,        \* what each thread is at
    torn,       \* history: names that could not be written, or removed
    overtaken   \* history: names whose number was read when a failure at the
                \* same place had been counted since one's own

vars == <<errs, images, notes, kept, job, torn, overtaken>>

Idle == [at |-> "decoding"]

Names == (1 .. Errors) \X Places

\* The names of the files on record.
OnRecord == {kept[i] : i \in DOMAIN kept}

TypeOK ==
    /\ errs \in 0 .. Errors
    /\ images \subseteq Names /\ notes \subseteq Names
    /\ torn \subseteq Names /\ overtaken \subseteq Names /\ kept \in Seq(Names) /\ Len(kept) <= Keep
    /\ job \in [Threads ->
          {Idle} \cup [at : {"counted"}, place : Places, behind : BOOLEAN]
          \cup [at : {"named", "imaged", "noted", "removing"}, name : Names]]

Init ==
    /\ errs = 0
    /\ images = {} /\ notes = {} /\ kept = <<>> /\ torn = {} /\ overtaken = {}
    /\ job = [t \in Threads |-> Idle]

\* A thread that was counted before, at the same place, is behind from now on.
Behind(u, place) ==
    IF job[u].at = "counted" /\ job[u].place = place THEN [job[u] EXCEPT !.behind = TRUE]
                                                      ELSE job[u]

Count(t) ==
    /\ job[t] = Idle /\ errs < Errors
    /\ errs' = errs + 1
    /\ \E place \in Places :
           job' = [u \in Threads |->
                     IF u = t THEN [at |-> "counted", place |-> place, behind |-> FALSE]
                              ELSE Behind(u, place)]
    /\ UNCHANGED <<images, notes, kept, torn, overtaken>>

\* Mutant: a name that goes by the clock: the burst is within its second.
ByTheClock(t) == <<1, job[t].place>>

\* "A MONOTONIC ORDINAL, not a finer clock."
NameFor(t) == <<errs, job[t].place>>

Name(t) ==
    /\ job[t].at = "counted"
    /\ overtaken' = overtaken \cup (IF job[t].behind THEN {NameFor(t)} ELSE {})
    /\ job' = [job EXCEPT ![t] = [at |-> "named", name |-> NameFor(t)]]
    /\ UNCHANGED <<errs, images, notes, kept, torn>>

WriteImage(t) ==
    /\ job[t].at = "named"
    /\ images' = images \cup {job[t].name}
    /\ job' = [job EXCEPT ![t].at = "imaged"]
    /\ UNCHANGED <<errs, notes, kept, torn, overtaken>>

WriteNote(t) ==
    /\ job[t].at = "imaged"
    /\ notes' = notes \cup {job[t].name}
    /\ job' = [job EXCEPT ![t].at = "noted"]
    /\ UNCHANGED <<errs, images, kept, torn, overtaken>>

\* "Failures here are swallowed on purpose": what is there stays.
WriteFails(t) ==
    /\ job[t].at \in {"named", "imaged"}
    /\ images' \in {images, images \cup {job[t].name}}
    /\ notes' \in {notes, notes \cup {n \in {job[t].name} : job[t].at = "imaged"}}
    /\ torn' = torn \cup {job[t].name}
    /\ job' = [job EXCEPT ![t] = Idle]
    /\ UNCHANGED <<errs, kept, overtaken>>

\* Mutant: the deque drops the record, and nobody removes its files.
RecordOnly(t) ==
    /\ job[t].at = "noted"
    /\ kept' = Append(IF Len(kept) = Keep THEN Tail(kept) ELSE kept, job[t].name)
    /\ job' = [job EXCEPT ![t] = Idle]
    /\ UNCHANGED <<errs, images, notes, torn, overtaken>>

Record(t) ==
    /\ job[t].at = "noted"
    /\ kept' = Append(IF Len(kept) = Keep THEN Tail(kept) ELSE kept, job[t].name)
    /\ job' = [job EXCEPT ![t] = IF Len(kept) = Keep
                                  THEN [at |-> "removing", name |-> Head(kept)] ELSE Idle]
    /\ UNCHANGED <<errs, images, notes, torn, overtaken>>

\* Either removal may fail, and nobody is told.
Unlink(t) ==
    /\ job[t].at = "removing"
    /\ images' \in {images, images \ {job[t].name}}
    /\ notes' \in {notes, notes \ {job[t].name}}
    /\ torn' = torn \cup ({job[t].name} \cap (images' \cup notes'))
    /\ job' = [job EXCEPT ![t] = Idle]
    /\ UNCHANGED <<errs, kept, overtaken>>

Next ==
    \E t \in Threads :
        \/ Count(t) \/ Name(t) \/ WriteImage(t) \/ WriteNote(t) \/ Record(t) \/ Unlink(t)
        \/ WriteFails(t)

Spec == Init /\ [][Next]_vars

-----------------------------------------------------------------------------
(* What must hold. *)

\* Every frame on record can be examined: its files are there.  It broke once,
\* when two failures shared a name and the older record's removal took the
\* files of a live one (vcctrld.py:5051).  A name whose number was read late may
\* be another's still, and is left out.
KeptIsThere == OnRecord \ overtaken \subseteq images \cap notes

\* "The directory needs bounding too, or the count is a fiction": what is there
\* without a record is what some thread is just writing or removing, and what
\* could not be written whole or removed, which nobody comes back for.
DirectoryBounded ==
    Cardinality((images \cup notes) \ torn) <= Keep + Cardinality(Threads)

-----------------------------------------------------------------------------
(* What is claimed and does not hold (README, section 4). *)

\* "decode_errs is strictly increasing and already incremented by the caller, so
\* it cannot repeat however fast they arrive" (vcctrld.py:5060): so every frame
\* on record has its files.  Two that were counted before either reads the number
\* read the same one.
KeptIsAlwaysThere == OnRecord \subseteq images \cap notes
=============================================================================
