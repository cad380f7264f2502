------------------------------ MODULE Staging ------------------------------
(***************************************************************************)
(* Files that arrive in chunks: images for the emulated drive (msd_stage), *)
(* files for the next transfer (file_stage) and files for a network share  *)
(* (share_stage).  The first two append to a partial file on disk, which   *)
(* outlives the daemon, without any lock; the share keeps a buffer in      *)
(* memory under a lock.                                                    *)
(*                                                                         *)
(* One name is modelled, for which several clients, or one client and its  *)
(* own repetitions, send chunks.  A chunk is <<upload, number>>, so every  *)
(* file is as long as any other and a hash tells them apart.  Left out:    *)
(* other names and their sizes, short names, Mac forks, what is shown, and *)
(* how an image is built: msd_build checks that the name is free, and then *)
(* writes to it for minutes, also without a lock.                          *)
(***************************************************************************)
EXTENDS Naturals, Sequences

CONSTANTS
    Stores,     \* of "msd", "file", "share"
    Uploads,    \* files that somebody sends under the name
    Chunks,     \* how many chunks each has
    Threads     \* connections that carry a call

StagingAssumption ==
    /\ Stores \subseteq {"msd", "file", "share"} /\ Stores # {}
    /\ Chunks \in Nat \ {0}

VARIABLES
    store,
    part,       \* what has arrived
    dest,       \* what is published under the name, <<>> if nothing is
    job,        \* what each thread is doing
    building,   \* is an image of that name being built
    run,        \* history: chunks of each upload that were accepted in a row
    told,       \* history: the chunk refused for its offset in the last step
    met         \* history: two calls have worked on the partial file at once

vars == <<store, part, dest, job, building, run, told, met>>

Whole(u) == [i \in 1 .. Chunks |-> <<u, i>>]
Idle == [at |-> "idle"]
Calls == [up : Uploads, i : 1 .. Chunks]
\* Whatever msd_build has written, whole or not; if it wrote into an upload, then
\* that is no upload any more.
Built == <<<<"build", 0>>>>
NoWord == [up |-> "none", i |-> 0]

TypeOK ==
    /\ store \in Stores
    /\ part \in Seq(Uploads \X (1 .. Chunks))
    /\ dest \in Seq(Uploads \X (1 .. Chunks)) \cup {Built}
    /\ \A t \in Threads :
          job[t].at \in {"idle", "measure", "write", "hash", "publish"}
    /\ run \in [Uploads -> 0 .. Chunks] /\ building \in BOOLEAN /\ met \in BOOLEAN

Init ==
    /\ store \in Stores
    /\ part = <<>> /\ dest = <<>>
    /\ job = [t \in Threads |-> Idle]
    /\ run = [u \in Uploads |-> 0] /\ told = NoWord
    /\ building = FALSE /\ met = FALSE

-----------------------------------------------------------------------------
(* The clients' view.  A reply that never arrives, a client that gives up  *)
(* and one that repeats itself are all the same here: any chunk may be     *)
(* sent at any time.                                                       *)

Accepted(u, i) ==
    run' = [v \in Uploads |->
               IF v # u THEN 0 ELSE IF i = run[u] + 1 \/ i = 1 THEN i % Chunks ELSE 0]

Silent == told' = NoWord

Ends(t) == job' = [job EXCEPT ![t] = Idle]

-----------------------------------------------------------------------------
(* Partial files. *)

Quiet == \A t \in Threads : job[t].at = "idle"

Receive(t, c) ==
    /\ job[t].at = "idle"
    /\ job' = [job EXCEPT ![t] = [at |-> "measure", up |-> c.up, i |-> c.i, have |-> 0]]
    /\ met' = IF Quiet THEN met ELSE TRUE
    /\ Silent /\ UNCHANGED <<store, part, dest, building, run>>

\* A name that is taken is refused at the first chunk of an image, and at every
\* chunk of a file that is not said to replace it.
ReceiveImage(t, c) == store = "msd" /\ (c.i = 1 => dest = <<>>) /\ Receive(t, c)
ReceiveFile(t, c, replace) == store = "file" /\ (replace \/ dest = <<>>) /\ Receive(t, c)

\* Mutant: what an abandoned attempt has left stays.
MeasureLeftover(t) ==
    /\ job[t].at = "measure"
    /\ IF Len(part) # job[t].i - 1
       THEN Ends(t) /\ told' = [up |-> job[t].up, i |-> job[t].i]
       ELSE job' = [job EXCEPT ![t].at = "write", ![t].have = Len(part)] /\ Silent
    /\ UNCHANGED <<store, part, dest, building, run, met>>

\* The first chunk clears what an abandoned attempt has left; any other has to
\* continue what is there.
Measure(t) ==
    /\ job[t].at = "measure"
    /\ part' = IF job[t].i = 1 THEN <<>> ELSE part
    /\ IF Len(part') # job[t].i - 1
       THEN Ends(t) /\ told' = [up |-> job[t].up, i |-> job[t].i]
       ELSE job' = [job EXCEPT ![t].at = "write", ![t].have = Len(part')] /\ Silent
    /\ UNCHANGED <<store, dest, building, run, met>>

Write(t) ==
    /\ job[t].at = "write"
    /\ part' = Append(part, <<job[t].up, job[t].i>>)
    /\ Accepted(job[t].up, job[t].i)
    /\ IF job[t].i = Chunks THEN job' = [job EXCEPT ![t].at = "hash", ![t].have = @ + 1]
                            ELSE Ends(t)
    /\ Silent /\ UNCHANGED <<store, dest, building, met>>

WriteFails(t) ==
    /\ job[t].at = "write"
    /\ Ends(t) /\ Silent /\ run' = [u \in Uploads |-> 0]
    /\ UNCHANGED <<store, part, dest, building, met>>

\* Mutant: only the number is compared.
HashUnread(t) ==
    /\ job[t].at = "hash"
    /\ IF job[t].have # Chunks THEN Ends(t) ELSE job' = [job EXCEPT ![t].at = "publish"]
    /\ Silent /\ UNCHANGED <<store, part, dest, building, run, met>>

\* The number counted, then the file read back.  A mismatch discards it.
Hash(t) ==
    /\ job[t].at = "hash"
    /\ IF job[t].have # Chunks THEN Ends(t) /\ UNCHANGED part
       ELSE IF part # Whole(job[t].up) THEN Ends(t) /\ part' = <<>>
       ELSE job' = [job EXCEPT ![t].at = "publish"] /\ UNCHANGED part
    /\ Silent /\ UNCHANGED <<store, dest, building, run, met>>

\* os.rename and os.replace move what is there by now.
Publish(t) ==
    /\ store # "share" /\ job[t].at = "publish"
    /\ IF part = <<>> THEN UNCHANGED <<part, dest>> ELSE dest' = part /\ part' = <<>>
    /\ Ends(t) /\ Silent /\ UNCHANGED <<store, building, run, met>>

-----------------------------------------------------------------------------
(* The share's buffer. *)

\* The call takes the whole buffer out under the lock; length and hash are
\* those of its own copy.
ShareChunk(t, c) ==
    /\ store = "share" /\ job[t].at = "idle"
    /\ LET buf == IF c.i = 1 THEN <<>> ELSE part
           got == Append(buf, <<c.up, c.i>>)
       IN  IF Len(buf) # c.i - 1
           THEN Ends(t) /\ part' = buf /\ told' = c /\ UNCHANGED run
           ELSE /\ part' = IF c.i = Chunks THEN <<>> ELSE got
                /\ Accepted(c.up, c.i) /\ Silent
                /\ job' = IF c.i = Chunks /\ got = Whole(c.up)
                          THEN [job EXCEPT ![t] = [at |-> "publish", blob |-> got]]
                          ELSE job
    /\ UNCHANGED <<store, dest, building, met>>

Deliver(t) ==
    /\ store = "share" /\ job[t].at = "publish"
    /\ dest' = job[t].blob
    /\ Ends(t) /\ Silent /\ UNCHANGED <<store, part, building, run, met>>

DeliverFails(t) ==
    /\ store = "share" /\ job[t].at = "publish"
    /\ Ends(t) /\ Silent /\ UNCHANGED <<store, part, dest, building, run, met>>

-----------------------------------------------------------------------------
(* msd_build. *)

BuildBegins ==
    /\ store = "msd" /\ dest = <<>> /\ building' = TRUE
    /\ Silent /\ UNCHANGED <<store, part, dest, job, run, met>>

\* dd, mkfs.vfat and mcopy, or xorriso, write to what has the name by then.
BuildWrites ==
    /\ building /\ dest' = Built
    /\ Silent /\ UNCHANGED <<store, part, job, building, run, met>>

\* One that fails removes what has the name.  There may be another one.
BuildEnds ==
    /\ building /\ building' \in BOOLEAN /\ dest' \in {dest, <<>>}
    /\ Silent /\ UNCHANGED <<store, part, job, run, met>>

-----------------------------------------------------------------------------
\* The daemon restarts: calls are cut off where they are, and what was in memory
\* is gone.
Restart ==
    /\ job' = [t \in Threads |-> Idle]
    /\ part' = IF store = "share" THEN <<>> ELSE part
    /\ run' = [u \in Uploads |-> 0] /\ building' = FALSE
    /\ Silent /\ UNCHANGED <<store, dest, met>>

\* The staged file is sent, deleted or cleared elsewhere.
Cleared ==
    /\ store # "msd" /\ dest # <<>> /\ dest' = <<>>
    /\ Silent /\ UNCHANGED <<store, part, job, building, run, met>>

Step(t) ==
    \/ \E c \in Calls : ShareChunk(t, c) \/ ReceiveImage(t, c) \/ \E replace \in BOOLEAN : ReceiveFile(t, c, replace)
    \/ Measure(t) \/ Write(t) \/ WriteFails(t) \/ Hash(t) \/ Publish(t)
    \/ Deliver(t) \/ DeliverFails(t)

Next ==
    \/ Restart \/ Cleared \/ BuildBegins \/ BuildWrites \/ BuildEnds
    \/ \E t \in Threads : Step(t)

Spec == Init /\ [][Next]_vars

-----------------------------------------------------------------------------
(* What must hold. *)

Published == {Whole(u) : u \in Uploads}

\* Of uploads nothing is published but a file as somebody sent it, whatever was
\* repeated, reordered, given up and cut off: on the share also when two clients
\* send under one name at once, on disk until two calls work on the partial file
\* at once, against which there is no lock.
PublishedWhole == ~met => dest \in Published \cup {<<>>, Built}

\* "There is no instant at which a half-written file is visible under a name the
\* target could be told to fetch" (vcctrld.py:11898-11900): of two calls at once the
\* one can clear the file between the other's hash and its rename.  Fails.
AlwaysPublishedWhole == dest \in Published \cup {<<>>, Built}

\* What an earlier attempt has left is in nobody's way: a client that sends its
\* chunks in a row is not told that they do not fit, if it is alone.
FreshStartAccepted ==
    [][~met' /\ told'.i # 0 => run[told'.up] + 1 # told'.i /\ told'.i # 1]_vars

\* A staged image is not replaced, except by a build that began before it was
\* staged: "an image named ... already exists" (vcctrld.py:7097, 7177).
ImageKept ==
    [][~met' /\ store = "msd" /\ dest \in Published /\ ~building => dest' = dest]_vars

\* Nor is any other image.  Fails: the name is looked up with the first chunk, and
\* one that was built since is replaced with the last.
ImageAlwaysKept == [][store = "msd" /\ dest # <<>> /\ ~building => dest' = dest]_vars
=============================================================================
