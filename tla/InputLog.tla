------------------------------ MODULE InputLog ------------------------------
(***************************************************************************)
(* The input log: files that keep every input event beyond the bus's ring  *)
(* and beyond a restart.  An event is written after the bus lock has been  *)
(* given up, under the log's own lock; a file that has grown too long is   *)
(* rotated there and then, one rename after the other from the oldest file *)
(* down, and any of them may fail or be the daemon's last.                 *)
(*                                                                         *)
(* Lines are numbered as they are written; a file takes a few instead of   *)
(* four megabytes, and is given by the numbers of its lines.  A line that  *)
(* is written in part runs into the next one in its file.                  *)
(***************************************************************************)
EXTENDS Naturals, FiniteSets

CONSTANTS
    Threads,    \* threads that publish input
    MaxLines,   \* bound: lines of the log
    MaxTorn,    \* bound: lines written in part
    FileLines,  \* a file with more lines is rotated (ROTATE_BYTES)
    Keep        \* rotated files that are kept

LogAssumption ==
    Keep \in Nat \ {0} /\ MaxLines \in Nat /\ MaxTorn \in Nat /\ FileLines \in Nat

VARIABLES
    pc,         \* what each thread is at
    next,       \* the file the rotation comes to next
    files,      \* files[1] is the log, files[i + 1] its i-th rotated file
    error,      \* the last write failed
    written,    \* history: lines ever written to the log
    torn        \* history: those written in part

vars == <<pc, next, files, error, written, torn>>

TypeOK ==
    /\ pc \in [Threads -> {"idle", "published", "rotates"}] /\ next \in 1 .. Keep
    /\ files \in [1 .. Keep + 1 -> SUBSET (1 .. MaxLines)] /\ error \in BOOLEAN
    /\ written \in 0 .. MaxLines /\ torn \subseteq 1 .. written

Init ==
    /\ pc = [t \in Threads |-> "idle"] /\ next = Keep
    /\ files = [i \in 1 .. Keep + 1 |-> {}] /\ error = FALSE
    /\ written = 0 /\ torn = {}

-----------------------------------------------------------------------------

Publish(t) ==
    /\ pc[t] = "idle" /\ pc' = [pc EXCEPT ![t] = "published"]
    /\ UNCHANGED <<next, files, error, written, torn>>

\* A thread that rotates has the log's lock.
Unlocked == \A t \in Threads : pc[t] # "rotates"

IsLong(file) == Cardinality(file) > FileLines

\* Whether all of the line was written is not looked at; its size may not be found.
Record(t, whole) ==
    /\ pc[t] = "published" /\ Unlocked /\ written < MaxLines
    /\ whole \/ Cardinality(torn) < MaxTorn
    /\ written' = written + 1
    /\ torn' = IF whole THEN torn ELSE torn \cup {written'}
    /\ files' = [files EXCEPT ![1] = @ \cup {written'}]
    /\ \/ /\ IsLong(files'[1])
          /\ pc' = [pc EXCEPT ![t] = "rotates"] /\ next' = Keep /\ UNCHANGED error
       \/ /\ ~IsLong(files'[1])
          /\ pc' = [pc EXCEPT ![t] = "idle"] /\ error' = FALSE /\ UNCHANGED next
       \/ pc' = [pc EXCEPT ![t] = "idle"] /\ error' = TRUE /\ UNCHANGED next

\* A full disk must not cost the keyboard: the event is gone from the file.
RecordFails(t) ==
    /\ pc[t] = "published" /\ Unlocked
    /\ pc' = [pc EXCEPT ![t] = "idle"] /\ error' = TRUE
    /\ UNCHANGED <<next, files, written, torn>>

\* Mutant: the youngest is moved first.
MovesYoungest(t) ==
    /\ pc[t] = "rotates"
    /\ LET i == Keep + 1 - next
       IN  files' = IF files[i] = {} THEN files
                    ELSE [files EXCEPT ![i + 1] = files[i], ![i] = {}]
    /\ IF next = 1 THEN pc' = [pc EXCEPT ![t] = "idle"] /\ error' = FALSE /\ UNCHANGED next
                   ELSE next' = next - 1 /\ UNCHANGED <<pc, error>>
    /\ UNCHANGED <<written, torn>>

\* _rotate: one file takes the place of the next older, if it is there.
Moves(t) ==
    /\ pc[t] = "rotates"
    /\ files' = IF files[next] = {} THEN files
                ELSE [files EXCEPT ![next + 1] = files[next], ![next] = {}]
    /\ IF next = 1 THEN pc' = [pc EXCEPT ![t] = "idle"] /\ error' = FALSE /\ UNCHANGED next
                   ELSE next' = next - 1 /\ UNCHANGED <<pc, error>>
    /\ UNCHANGED <<written, torn>>

\* The rest of the rotation is not done.
MoveFails(t) ==
    /\ pc[t] = "rotates"
    /\ pc' = [pc EXCEPT ![t] = "idle"] /\ error' = TRUE
    /\ UNCHANGED <<next, files, written, torn>>

\* The daemon restarts, wherever its threads are; the files are as they were.
Restart ==
    /\ pc' = [t \in Threads |-> "idle"] /\ error' = FALSE
    /\ UNCHANGED <<next, files, written, torn>>

Next ==
    \/ Restart
    \/ \E t \in Threads :
          \/ Publish(t) \/ RecordFails(t) \/ Moves(t) \/ MoveFails(t)
          \/ \E whole \in BOOLEAN : Record(t, whole)

Spec == Init /\ [][Next]_vars

-----------------------------------------------------------------------------
(* What must hold. *)

\* query(): the lines that can be read, a line that runs into another not being one.
Readable(i) == {n \in files[i] : n \notin torn /\ (n - 1 \in files[i] => n - 1 \notin torn)}
ReadBack == UNION {Readable(i) : i \in DOMAIN files}

\* What the files hold is read in the order of writing, without a hole down to the
\* last line written, but for lines written in part and lines right after them; and
\* nothing is lost at the old end before a file that has grown full takes its place:
\* over rotations that fail or end half-way, and over restarts.
LogKeepsLines ==
    /\ \A i, h \in DOMAIN files : h < i => \A m \in files[i], n \in files[h] : m < n
    /\ \A m \in ReadBack, n \in 1 .. written :
          n > m => n \in ReadBack \/ {n, n - 1} \cap torn # {}
    /\ written > 0 => (\E i \in DOMAIN files : 1 \in files[i]) \/ IsLong(files[Keep + 1])

\* "KEEP = 3  # input.jsonl plus .1 .. .3" (vcctrld.py:2410): lines are lost only where
\* that many are full.  Not after a rotation that ended half-way, which leaves a gap
\* that the next one fills from the younger side only.
AllFilesAreUsed ==
    written > 0 => \/ \E i \in DOMAIN files : 1 \in files[i]
                   \/ \A i \in 2 .. Keep + 1 : files[i] # {} \/ ~Unlocked

\* "The file is what answers `what happened during last night's run'"
\* (vcctrld.py:2394-2395).  Not between a rotation and the next line: there is no
\* file then, and query() answers from memory (2490, 2514-2517).
FilesAnswer == (\E i \in DOMAIN files : files[i] # {}) => files[1] # {} \/ ~Unlocked

\* "Every input the daemon sent" (vcctrld.py:2382): a line that was written whole can
\* be read.  Not one that follows a torn line (2454).
WholeLinesAreRead ==
    \A i \in DOMAIN files : files[i] \ torn \subseteq ReadBack
=============================================================================
