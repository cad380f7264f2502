---------------------------- MODULE ListingStore ----------------------------
(***************************************************************************)
(* What the directories of the target held when they were last read, kept  *)
(* in one JSON file: of each directory the last listing that could be read *)
(* and, apart from it, the last attempt.  A job reads directories one at a *)
(* time and saves each reading by writing the whole file again; pages ask  *)
(* from other threads, also while the file is being written.               *)
(*                                                                         *)
(* Readings are numbered.  Left out: the names in a listing, its age, and  *)
(* how a DIR is parsed.                                                    *)
(***************************************************************************)
EXTENDS Naturals

CONSTANTS
    Dirs,           \* the directories anybody reads
    MaxReadings     \* bound: readings

ListingAssumption == MaxReadings \in Nat /\ Dirs # {}

VARIABLES
    readings,   \* how many so far
    disk,       \* listing.json: its shape, and what it holds
    saving,     \* the reading that is being saved
    asker,      \* a page: the directory it asked for last, and what it was told
    readable,   \* history: of each directory the listings that could be read
    tried,      \* history: of each directory all attempts
    lost        \* history: directories of which a reading could not be saved, or was
                \* lost with the file, and no listing has been saved since

vars == <<readings, disk, saving, asker, readable, tried, lost>>

Numbers == 0 .. MaxReadings + 1
None == [d \in Dirs |-> 0]

\* The file: not there or torn, of the version with a single slot, or of today's.
Shapes == {"nothing", "slot", "store"}

TypeOK ==
    /\ readings \in 1 .. MaxReadings + 1
    /\ disk \in [shape : Shapes, listings : [Dirs -> Numbers], attempts : [Dirs -> Numbers]]
    /\ saving \in [at : {"no", "read", "torn"}, dir : Dirs, claims : Dirs, n : Numbers, ok : BOOLEAN]
    /\ asker \in [dir : Dirs, listing : Numbers, attempt : Numbers]
    /\ readable \in [Dirs -> SUBSET Numbers] /\ tried \in [Dirs -> SUBSET Numbers]
    /\ lost \subseteq Dirs

\* The single slot held the last readable listing and the last attempt of the
\* one directory it was used for: reading number one.
Init ==
    \E d \in Dirs, shape \in Shapes :
        /\ readings = 1
        /\ LET was == IF shape = "nothing" THEN None ELSE [None EXCEPT ![d] = 1] IN
            /\ disk = [shape |-> shape, listings |-> was, attempts |-> was]
            /\ readable = [e \in Dirs |-> {was[e]} \ {0}] /\ tried = readable
        /\ saving = [at |-> "no", dir |-> d, claims |-> d, n |-> 0, ok |-> FALSE]
        /\ asker = [dir |-> d, listing |-> 0, attempt |-> 0]
        /\ lost = {}

\* _listing_store: an old file counts as what it says, one that cannot be read
\* as nothing.
Listings == IF disk.shape = "nothing" THEN None ELSE disk.listings
Attempts == IF disk.shape = "nothing" THEN None ELSE disk.attempts

-----------------------------------------------------------------------------
(* The job. *)

\* A DIR of a directory came back: readable or not, and headed by the directory
\* DOS says it is of, which is another one when it took the path for a pattern.
Reads ==
    /\ saving.at = "no" /\ readings <= MaxReadings /\ readings' = readings + 1
    /\ \E d \in Dirs, claims \in Dirs, ok \in BOOLEAN :
        /\ ok => claims = d
        /\ saving' = [at |-> "read", dir |-> d, claims |-> claims, n |-> readings + 1, ok |-> ok]
        /\ tried' = [tried EXCEPT ![d] = @ \cup {readings + 1}]
        /\ readable' = IF ok THEN [readable EXCEPT ![d] = @ \cup {readings + 1}] ELSE readable
    /\ UNCHANGED <<disk, asker, lost>>

\* Mutant: a reading is filed under the directory its text claims.
FiledUnderClaim == saving.claims

FiledUnder == saving.dir

\* What was read back before the save: nothing if that failed.
Loaded(unread) ==
    IF unread THEN [listings |-> None, attempts |-> None]
    ELSE [listings |-> Listings, attempts |-> Attempts]

\* Mutant: an attempt that failed replaces the listing as well.
StoredAlways(was) ==
    [shape |-> "store",
     listings |-> [was.listings EXCEPT ![FiledUnder] = IF saving.ok THEN saving.n ELSE 0],
     attempts |-> [was.attempts EXCEPT ![FiledUnder] = saving.n]]

\* _save_listing: the attempt always, the listing if it can be read.
Stored(was) ==
    [shape |-> "store",
     listings |-> IF saving.ok THEN [was.listings EXCEPT ![FiledUnder] = saving.n] ELSE was.listings,
     attempts |-> [was.attempts EXCEPT ![FiledUnder] = saving.n]]

\* Opening the file for writing empties it; what goes into it was read before.
Opens ==
    /\ saving.at = "read" /\ saving' = [saving EXCEPT !.at = "torn"]
    /\ \E unread \in BOOLEAN :
        /\ disk' = [Stored(Loaded(unread)) EXCEPT !.shape = "nothing"]
        /\ lost' = IF unread THEN Dirs ELSE lost
    /\ UNCHANGED <<readings, asker, readable, tried>>

\* The directory cannot be made, the file not opened, or the daemon is gone: nobody
\* is told, and what is on file stays.
OpenFails ==
    /\ saving.at = "read" /\ saving' = [saving EXCEPT !.at = "no"]
    /\ lost' = lost \cup {saving.dir}
    /\ UNCHANGED <<readings, disk, asker, readable, tried>>

Dumps ==
    /\ saving.at = "torn" /\ saving' = [saving EXCEPT !.at = "no"]
    /\ disk' = [disk EXCEPT !.shape = "store"]
    /\ lost' = lost \ (IF saving.ok THEN {saving.dir} ELSE {})
    /\ UNCHANGED <<readings, asker, readable, tried>>

\* The disk is full, or the daemon is gone: what is there is torn.
DumpFails ==
    /\ saving.at = "torn" /\ saving' = [saving EXCEPT !.at = "no"]
    /\ disk' = [shape |-> "nothing", listings |-> None, attempts |-> None]
    /\ lost' = Dirs
    /\ UNCHANGED <<readings, asker, readable, tried>>

-----------------------------------------------------------------------------
(* file_listing. *)

\* A file that cannot be read is as good as none.
Asks(d) ==
    /\ \E unread \in BOOLEAN :
        asker' = [dir |-> d, listing |-> Loaded(unread).listings[d],
                  attempt |-> Loaded(unread).attempts[d]]
    /\ UNCHANGED <<readings, disk, saving, readable, tried, lost>>

Next == Reads \/ Opens \/ OpenFails \/ Dumps \/ DumpFails \/ \E d \in Dirs : Asks(d)

Spec == Init /\ [][Next]_vars

-----------------------------------------------------------------------------
(* What must hold. *)

IsNewest(n, numbers) == \A m \in numbers : m <= n

OfIts(d, listing, attempt) == listing \in readable[d] \cup {0} /\ attempt \in tried[d] \cup {0}

\* A page is told what was read in the directory it asks for, or nothing, also
\* while the file is written; and with no save under way the file holds of every
\* directory the newest listing that could be read and the newest attempt,
\* whatever was read elsewhere and whichever attempts failed since: unless a
\* reading could not be saved, or went with the file.
LastReadableKept ==
    /\ OfIts(asker.dir, asker.listing, asker.attempt)
    /\ saving.at = "no" =>
          \A d \in Dirs \ lost :
              IsNewest(Listings[d], readable[d]) /\ IsNewest(Attempts[d], tried[d])

\* "Keep the last READABLE listing and the last ATTEMPT ... both are stored"
\* (vcctrld.py:11542-11552): not when the file cannot be opened or written, and all
\* directories lose theirs when it cannot be read back.  Fails.
LastIsAlwaysKept ==
    saving.at = "no" =>
        \A d \in Dirs :
            IsNewest(Listings[d], readable[d]) /\ IsNewest(Attempts[d], tried[d])
=============================================================================
