---------------------------- MODULE PulledStore ----------------------------
(***************************************************************************)
(* The files fetched off the target, kept on this host until they are      *)
(* cleared, each as its bytes and a sidecar that says what they are; and a *)
(* client that saves one of them, chunk by chunk, over as many calls.      *)
(*                                                                         *)
(* A new copy replaces the bytes first and the sidecar after; a clear      *)
(* removes the bytes first and the sidecar after; the client reads in      *)
(* between.  There is one name here, and its copies are numbered.          *)
(*                                                                         *)
(* Left out: the check of a file before it is kept (FileJobs), the         *)
(* conversion of names, and what a client prints.                          *)
(***************************************************************************)
EXTENDS Naturals, Sequences

CONSTANTS
    Size    \* of each copy, in chunks: the copies are 1 .. Len(Size)

SizeAssumption == Size \in Seq(Nat \ {0})

VARIABLES
    copies,     \* how many came so far
    bytes,      \* the copy in <root>-pulled, 0 if none
    sidecar,    \* the copy <root>-pulled-meta describes, 0 if none or unreadable
    promoting,  \* a copy whose sidecar is not written yet
    clearing,   \* "no", "bytes" or "sidecar": what a clear removes next
    saver,      \* the client: where it is, the chunks it has, the sha it found
    out,        \* what is at the path it saves to: chunks, each of some copy
    outlived,   \* history: the sidecar is one a later copy could not replace
    recorded,   \* history: was there a record when the client asked for one
    heard       \* history: and was it told the list

store == <<copies, bytes, sidecar, promoting, clearing, outlived>>
saves == <<saver, out, recorded, heard>>
vars == <<store, saves>>

Copies == 1 .. Len(Size)
Whole(c) == [i \in 1 .. Size[c] |-> c]

TypeOK ==
    /\ copies \in 0 .. Len(Size) /\ promoting \in 0 .. Len(Size)
    /\ bytes \in 0 .. Len(Size) /\ sidecar \in 0 .. Len(Size)
    /\ clearing \in {"no", "bytes", "sidecar"}
    /\ saver \in [at : {"idle", "read", "list", "check", "saved", "failed"},
                  got : Seq(Copies), want : 0 .. Len(Size)]
    /\ out \in Seq(Copies) /\ {outlived, recorded, heard} \subseteq BOOLEAN

Init ==
    /\ copies = 0 /\ bytes = 0 /\ sidecar = 0 /\ promoting = 0 /\ clearing = "no"
    /\ saver = [at |-> "idle", got |-> <<>>, want |-> 0]
    /\ out = <<>> /\ outlived = FALSE /\ recorded = FALSE /\ heard = FALSE

-----------------------------------------------------------------------------
(* _promote_pulled: the one job there is keeps a copy. *)

Promote ==
    /\ copies < Len(Size) /\ promoting = 0
    /\ copies' = copies + 1 /\ bytes' = copies + 1 /\ promoting' = copies + 1
    /\ UNCHANGED <<sidecar, clearing, outlived, saves>>

\* Mutant: a name that has a sidecar keeps it.
RecordFirst ==
    /\ promoting # 0 /\ promoting' = 0
    /\ sidecar' = IF sidecar = 0 THEN promoting ELSE sidecar
    /\ UNCHANGED <<copies, bytes, clearing, outlived, saves>>

\* Opening the sidecar empties it.
Opens ==
    /\ promoting # 0 /\ sidecar' = 0 /\ outlived' = FALSE
    /\ UNCHANGED <<copies, bytes, promoting, clearing, saves>>

Record ==
    /\ promoting # 0 /\ sidecar = 0
    /\ promoting' = 0 /\ sidecar' = promoting /\ outlived' = FALSE
    /\ UNCHANGED <<copies, bytes, clearing, saves>>

\* The sidecar cannot be opened or written, or the daemon is gone before it is,
\* or a clear took it away in between: "the bytes are the thing".  One that was
\* not opened stays as it is, that of an earlier copy.
Unrecorded ==
    /\ promoting # 0 /\ promoting' = 0 /\ outlived' = (sidecar # 0)
    /\ UNCHANGED <<copies, bytes, sidecar, clearing, saves>>

-----------------------------------------------------------------------------
(* _file_pulled clear, from another thread. *)

\* What cannot be accounted for is left alone.
Orphan == bytes # 0 /\ sidecar = 0

ClearBegins ==
    /\ clearing = "no" /\ bytes # 0 /\ ~Orphan
    /\ clearing' = "bytes"
    /\ UNCHANGED <<copies, bytes, sidecar, promoting, outlived, saves>>

\* A file that cannot be removed stays, and the other one is tried all the same.
ClearBytes ==
    /\ clearing = "bytes" /\ clearing' = "sidecar" /\ bytes' \in {0, bytes}
    /\ UNCHANGED <<copies, sidecar, promoting, outlived, saves>>

ClearSidecar ==
    /\ clearing = "sidecar" /\ clearing' = "no"
    /\ \/ sidecar' = 0 /\ outlived' = FALSE
       \/ UNCHANGED <<sidecar, outlived>>
    /\ UNCHANGED <<copies, bytes, promoting, saves>>

-----------------------------------------------------------------------------
(* save_pulled. *)

SaveBegins ==
    /\ saver.at \in {"idle", "saved", "failed"}
    /\ saver' = [at |-> "read", got |-> <<>>, want |-> 0]
    /\ recorded' = FALSE /\ heard' = FALSE
    /\ UNCHANGED <<store, out>>

\* What goes wrong is reported, and nothing is left at the path, not even what an
\* earlier save put there: unless that cannot be removed, or what went wrong is
\* that a reply was cut off, which is no JSON and ends the client there and then.
Fails ==
    /\ saver' = [saver EXCEPT !.at = "failed"] /\ out' \in {<<>>, out}
    /\ UNCHANGED <<store, recorded, heard>>

\* One chunk from where the last one ended.  The end of the file is the end of
\* the copy that is there now, and at the end there is nothing more to read.
SaveReads ==
    /\ saver.at = "read" /\ bytes # 0 /\ Len(saver.got) <= Size[bytes]
    /\ saver' = IF Len(saver.got) = Size[bytes] THEN [saver EXCEPT !.at = "list"]
                ELSE [saver EXCEPT !.got = Append(@, bytes),
                                   !.at = IF Len(saver.got) + 1 = Size[bytes] THEN "list" ELSE "read"]
    /\ UNCHANGED <<store, out, recorded, heard>>

\* There is no such file, it is shorter by now, or the daemon does not answer.
SaveReadFails == saver.at = "read" /\ Fails

\* Mutant: the list is searched for the name as it was typed.
SaveListsTyped ==
    /\ saver.at = "list"
    /\ saver' = [saver EXCEPT !.at = "check"]
    /\ recorded' = (bytes # 0 /\ sidecar # 0) /\ heard' = TRUE
    /\ UNCHANGED <<store, out>>

\* The sha the daemon recorded, if there is a record.  No answer counts as a list
\* with nothing in it.
SaveLists ==
    /\ saver.at = "list"
    /\ heard' \in BOOLEAN
    /\ saver' = [saver EXCEPT !.at = "check",
                              !.want = IF bytes # 0 /\ heard' THEN sidecar ELSE 0]
    /\ recorded' = (bytes # 0 /\ sidecar # 0)
    /\ UNCHANGED <<store, out>>

SaveListFails == saver.at = "list" /\ Fails

SaveEnds ==
    /\ saver.at = "check"
    /\ saver.want # 0 => saver.got = Whole(saver.want)
    /\ saver' = [saver EXCEPT !.at = "saved"] /\ out' = saver.got
    /\ UNCHANGED <<store, recorded, heard>>

\* Another sha, or os.replace fails.
SaveEndFails == saver.at = "check" /\ Fails

Next ==
    \/ Promote \/ Opens \/ Record \/ Unrecorded \/ ClearBegins \/ ClearBytes \/ ClearSidecar
    \/ SaveBegins \/ SaveReads \/ SaveReadFails \/ SaveLists \/ SaveListFails
    \/ SaveEnds \/ SaveEndFails

Spec == Init /\ [][Next]_vars

-----------------------------------------------------------------------------
(* What must hold. *)

\* A record says what the bytes beside it are, once they have been kept, however
\* copies, failures to record and clears follow on one another: but not where the
\* sidecar of an earlier copy could not be opened for the new one.
RecordIsTrue ==
    promoting = 0 /\ bytes # 0 /\ sidecar # 0 /\ ~outlived => sidecar = bytes

\* "Losing the sidecar costs provenance, which _pulled() then reports as unknown
\* rather than inventing" (vcctrld.py:11462-11463): it is reported as that of the
\* earlier copy where the earlier copy's sidecar could not be opened.  Fails.
RecordIsAlwaysTrue == promoting = 0 /\ bytes # 0 /\ sidecar # 0 => sidecar = bytes

\* A save that succeeds while the daemon has a record and says so left the whole of
\* one copy at the path, though the copy was replaced between two chunks.
SavedIsOneCopy ==
    saver.at = "saved" /\ recorded /\ heard => \E c \in Copies : out = Whole(c)

\* "The sha the daemon recorded ... is checked against these bytes"
\* (vcctrl-client:740-742): not when the list is not answered.  Fails.
RecordedIsChecked == saver.at = "saved" /\ recorded => \E c \in Copies : out = Whole(c)

\* "either `path` holds this file and the status is 0, or `path` does not exist at
\* all" (vcctrl-client:732-734): not when a reply is cut off.  Fails.
TwoValued == saver.at = "failed" => out = <<>>
=============================================================================
