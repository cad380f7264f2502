------------------------------ MODULE FileJobs ------------------------------
(***************************************************************************)
(* The file jobs of the `files` capability: TransferJob sends the staged   *)
(* queue to the target, PullJob fetches files from it, ScanJob reboots it, *)
(* runs an inventory program there and fetches the report.  Each job is a  *)
(* thread that reboots the target into its NET profile, has it prove that  *)
(* it reaches this host, has it transfer file by file, and reboots it back.*)
(*                                                                         *)
(* The job sees the target through two things only: the Scroll Lock LED,   *)
(* which a reset clears and the end of a boot sets, and files that land in *)
(* incoming/.  A chord may be refused by the input lock, be lost, or reset *)
(* the machine much later; every wait may end without an answer.           *)
(*                                                                         *)
(* Left to chance: how long things take, what the LED read finds while its *)
(* channel is down, how a transfer fails, and how many of the blind menu   *)
(* keys reach the menu.  A file's content is the number of the upload it   *)
(* came from, or Short.  Left out: `paranoid`, which fetches twice, and    *)
(* names a DOS directory cannot hold: both only turn a file into a failure;*)
(* the job history; and the order of the deletions of a clear, which is one*)
(* step here.                                                              *)
(* _await_incoming takes a file up to 1 s older than the wait for new; here*)
(* it must be newer, and no name is asked for twice within a second.       *)
(***************************************************************************)
EXTENDS Naturals, FiniteSets

CONSTANTS
    Files,          \* names of 8.3
    NoFile,
    OnCard,         \* the files in the target's outgoing directory
    Staged,         \* bound: the names that are staged
    Requests,       \* what callers ask for
    MaxUploads,     \* bound: files staged in all, replacements included
    MaxChords       \* bound: Ctrl-Alt-Del chords that have yet to take effect

\* A sending run takes the whole queue and names nothing; a fetching run that
\* names nothing is a `refresh`, and one that names OnCard an `all`; a scan
\* names its report.  `told` is already_net, which only a fetch knows.
ASSUME FilesAssumption ==
    /\ IsFiniteSet(Files) /\ NoFile \notin Files /\ OnCard \subseteq Files /\ Staged \subseteq Files
    /\ Requests \subseteq [kind : {"send", "pull", "scan"}, back : BOOLEAN, told : BOOLEAN,
                           names : SUBSET Files]
    /\ \A r \in Requests : r.told => r.kind = "pull"
    /\ MaxUploads \in Nat /\ MaxChords \in Nat \ {0}

RESET_ATTEMPTS == 2

Nothing == 0                    \* no file there, or no sha recorded
Whole == 1                      \* content of a file that the target holds
Short == MaxUploads + 1         \* content cut off in transfer
Contents == 0 .. MaxUploads + 1

\* What is typed at the target's prompt, and the file that comes back for it.
Proof == [what |-> "proof", file |-> NoFile]            \* VCCHK of TCP.CFG
List == [what |-> "list", file |-> NoFile]              \* VCLIST
Get(f) == [what |-> "get", file |-> f]                  \* VCGET: fetch, send back
Chk(f) == [what |-> "chk", file |-> f]                  \* VCCHK: send
Commands == {Proof, List} \cup {Get(f) : f \in Files} \cup {Chk(f) : f \in Files}
Idle == [cmd |-> Proof, step |-> "idle", mine |-> FALSE]

VARIABLES
    place,      \* the target: "default" or "net" profile, or "booting"
    chosen,     \* the boot menu has been told NET
    scroll,     \* its Scroll Lock LED
    chords,     \* chords sent that have not reset it yet
    card,       \* what C:\XFER\IN holds of each file
    bat,        \* the batch file it runs, how far, and whether this job typed it
    line,       \* a command typed meanwhile
    stage,      \* stage/: the upload each name holds
    meta,       \* the upload whose sha is recorded for it
    late,       \* the upload in place whose sha is yet to be recorded
    uploads,    \* how many there have been
    got,        \* what has come back since the job began to wait for it
    at,         \* where the job is; "none" when none runs
    order,      \* what it was asked for
    leg,        \* which reboot: "scan", "out" or "back"
    tries,      \* chords sent in it
    inNet,      \* in_net
    cancel,     \* file_cancel was called
    asked,      \* the names it is about
    snap,       \* the sha of each name when the job read the queue
    todo, sent, failed, now, uncleared,
    why,        \* what _fail will name once the target has been taken back
    result,
    began,      \* was the target in NET, or about to be, when the job started?
    home        \* has the job seen the reboot back?

target == <<place, chosen, scroll, chords>>
running == <<card, bat, line>>
staging == <<stage, meta, late, uploads>>
reboot == <<leg, tries, inNet, home>>
files == <<asked, snap, todo, sent, failed, now, uncleared>>
request == <<order, cancel, began>>
vars == <<target, running, staging, got, at, reboot, files, request, why, result>>

Places == {"none", "queue", "gate", "arm", "chord", "edge", "menu", "boot", "prove",
           "proving", "list", "listing", "next", "waiting", "verify", "clear", "back",
           "tally", "finish"}
NoOrder == [kind |-> "send", back |-> TRUE, told |-> FALSE, names |-> {}]
Results == [ok : BOOLEAN, complete : BOOLEAN, cancelled : BOOLEAN, left : BOOLEAN]
NoResult == [ok |-> FALSE, complete |-> FALSE, cancelled |-> FALSE, left |-> FALSE]
Lines == [cmd : Commands, step : {"idle", "get", "put", "part", "closing"}, mine : BOOLEAN]

TypeOK ==
    /\ place \in {"default", "net", "booting"} /\ chosen \in BOOLEAN
    /\ scroll \in BOOLEAN /\ chords \in 0 .. MaxChords
    /\ card \in [Files -> Contents] /\ bat \in Lines /\ line \in Lines
    /\ stage \in [Files -> 0 .. MaxUploads] /\ meta \in [Files -> 0 .. MaxUploads]
    /\ late \in [Files -> 0 .. MaxUploads] /\ uploads \in 0 .. MaxUploads
    /\ got \in Contents
    /\ at \in Places /\ order \in Requests \cup {NoOrder}
    /\ leg \in {"scan", "out", "back"} /\ tries \in 0 .. RESET_ATTEMPTS
    /\ inNet \in BOOLEAN /\ cancel \in BOOLEAN /\ began \in BOOLEAN /\ home \in BOOLEAN
    /\ snap \in [Files -> 0 .. MaxUploads] /\ now \in Files \cup {NoFile}
    /\ asked \subseteq Files /\ todo \subseteq Files /\ sent \subseteq Files
    /\ failed \subseteq Files /\ uncleared \subseteq Files
    /\ why \in {"none", "no-listing", "too-large"} /\ result \in Results

\* The target is in NET, or will be when it has booted.
InNet == place = "net" \/ chosen

NoFiles == [f \in Files |-> Nothing]

Init ==
    /\ place \in {"default", "net"} /\ chosen = FALSE /\ scroll \in BOOLEAN /\ chords = 0
    /\ card = NoFiles /\ bat = Idle /\ line = Idle
    /\ stage = NoFiles /\ meta = NoFiles /\ late = NoFiles /\ uploads = 0
    /\ got = Nothing
    /\ at = "none" /\ order = NoOrder /\ leg = "out" /\ tries = 0
    /\ inNet = FALSE /\ cancel = FALSE /\ began = FALSE /\ home = FALSE
    /\ asked = {} /\ snap = NoFiles /\ todo = {} /\ sent = {} /\ failed = {}
    /\ now = NoFile /\ uncleared = {} /\ why = "none" /\ result = [NoResult EXCEPT !.left = TRUE]

-----------------------------------------------------------------------------
(* The target. *)

\* A chord takes effect, up to 85 s after it was sent.
Reset ==
    /\ chords > 0 /\ chords' = chords - 1
    /\ place' = "booting" /\ chosen' = FALSE /\ scroll' = FALSE
    /\ bat' = Idle /\ line' = Idle
    /\ UNCHANGED <<card, staging, got, at, reboot, files, request, why, result>>

ChordLost ==
    /\ chords > 0 /\ chords' = chords - 1
    /\ UNCHANGED <<place, chosen, scroll, running, staging, got, at, reboot,
                   files, request, why, result>>

\* The menu times out on its default unless a key chose; RDYPULSE sets the
\* LED, if it is on the card.
BootDone ==
    /\ place = "booting"
    /\ place' = IF chosen THEN "net" ELSE "default"
    /\ chosen' = FALSE /\ scroll' \in {scroll, TRUE}
    /\ UNCHANGED <<chords, running, staging, got, at, reboot, files, request,
                   why, result>>

\* The first FTP session of VCGET: it may fail, or end early.
Fetch ==
    /\ bat.step = "get"
    /\ LET f == bat.cmd.file IN
         \E c \in {card[f]} \cup (IF stage[f] = Nothing THEN {} ELSE {stage[f], Short}) :
            card' = [card EXCEPT ![f] = c]
    /\ bat' = [bat EXCEPT !.step = "put"]
    /\ UNCHANGED <<target, line, staging, got, at, reboot, files, request, why, result>>

\* What the target sends back for command c.
Answer(c) ==
    CASE c.what = "get" -> card[c.file]
      [] c.what = "chk" -> IF c.file \in OnCard THEN Whole ELSE Nothing
      [] OTHER -> Whole

\* Bytes land in incoming/.  The job cares for what it waits for only.  A file
\* that was dropped while it was being filled stays dropped.
Awaited ==
    CASE at = "proving" -> {Proof}
      [] at = "listing" -> {List}
      [] at \in {"waiting", "verify"} -> {IF order.kind = "send" THEN Get(now) ELSE Chk(now)}
      [] OTHER -> {}
Arrive(content) ==
    \/ bat.cmd \in Awaited /\ got' = content
    \/ /\ bat.cmd \notin Awaited \/ (bat.step = "part" /\ got = Nothing)
       /\ UNCHANGED got

\* The session that sends: it creates the file and fills it, and may stall
\* or break at any point.
Put ==
    /\ bat.step \in {"put", "part"} /\ Answer(bat.cmd) # Nothing
    /\ Arrive(Short)
    /\ bat' = [bat EXCEPT !.step = "part"]
    /\ UNCHANGED <<target, card, line, staging, at, reboot, files, request, why, result>>

PutAll ==
    /\ bat.step = "part"
    /\ Arrive(Answer(bat.cmd))
    /\ bat' = [bat EXCEPT !.step = "closing"]
    /\ UNCHANGED <<target, card, line, staging, at, reboot, files, request, why, result>>

FtpFails ==
    /\ bat.step \in {"put", "part"}
    /\ bat' = [bat EXCEPT !.step = "closing"]
    /\ UNCHANGED <<target, card, line, staging, got, at, reboot, files, request, why, result>>

BatEnds ==
    /\ bat.step = "closing"
    /\ bat' = line /\ line' = Idle
    /\ UNCHANGED <<target, card, staging, got, at, reboot, files, request, why, result>>

Target == Reset \/ ChordLost \/ BootDone \/ Fetch \/ Put \/ PutAll \/ FtpFails \/ BatEnds

-----------------------------------------------------------------------------
(* Staging: the end of file_stage, and file_queue clear. *)

\* The last chunk is in and its sha is as declared: os.replace, and then the
\* record of the sha.  (bound: one upload of a name at a time)
Promote(f) ==
    /\ uploads < MaxUploads /\ late[f] = Nothing
    /\ uploads' = uploads + 1
    /\ stage' = [stage EXCEPT ![f] = uploads + 1]
    /\ late' = [late EXCEPT ![f] = uploads + 1]
    /\ UNCHANGED <<target, running, meta, got, at, reboot, files, request, why, result>>

RecordSha(f) ==
    /\ late[f] # Nothing
    /\ meta' = [meta EXCEPT ![f] = late[f]] /\ late' = [late EXCEPT ![f] = Nothing]
    /\ UNCHANGED <<target, running, stage, uploads, got, at, reboot, files, request,
                   why, result>>

\* _queued: what is in stage/.
Queue == {f \in Files : stage[f] # Nothing}

\* A file with no record was not staged here and is left alone.
Clear(f) ==
    IF stage[f] # Nothing /\ meta[f] # Nothing
      THEN /\ stage' = [stage EXCEPT ![f] = Nothing]
           /\ meta' = [meta EXCEPT ![f] = Nothing]
      ELSE UNCHANGED <<stage, meta>>

FileQueueClear(f) ==
    /\ stage[f] # Nothing /\ Clear(f)
    /\ UNCHANGED <<target, running, late, uploads, got, at, reboot, files, request,
                   why, result>>

Staging == \E f \in Staged : Promote(f) \/ RecordSha(f) \/ FileQueueClear(f)

-----------------------------------------------------------------------------
(* file_send, file_pull, file_scan and file_cancel. *)

\* One at a time, and refused rather than queued.  The thread of the job
\* before has only its history to write: see Finish.
Start(r) ==
    /\ at = "none"
    /\ at' = CASE r.kind = "send" -> "queue"
               [] r.kind = "scan" -> "arm"
               [] r.told -> "prove"
               [] OTHER -> "gate"
    /\ order' = r /\ asked' = r.names
    /\ leg' = IF r.kind = "scan" THEN "scan" ELSE "out"
    /\ inNet' = FALSE /\ cancel' = FALSE /\ result' = NoResult
    /\ began' = InNet /\ home' = FALSE
    /\ bat' = [bat EXCEPT !.mine = FALSE] /\ line' = [line EXCEPT !.mine = FALSE]
    /\ UNCHANGED <<target, card, staging, got, tries, snap, todo, sent, failed, now, uncleared,
                   why>>

FileCancel ==
    /\ at # "none" /\ cancel' = TRUE
    /\ UNCHANGED <<target, running, staging, got, at, reboot, files, order, began, why,
                   result>>

Call == FileCancel \/ \E r \in Requests : Start(r)

-----------------------------------------------------------------------------
(* A job's thread. *)

Go(p) == at' = p
Sends == order.kind = "send"

\* _fail: the run is over and this is its result.
Fail(believed) ==
    /\ result' = [NoResult EXCEPT !.left = believed]
    /\ Go("finish")

\* _queued, and nothing staged is refused.
ReadQueue ==
    /\ at = "queue"
    /\ IF Queue = {}
         THEN Fail(inNet) /\ UNCHANGED files
         ELSE /\ Go("gate")
              /\ asked' = Queue /\ todo' = Queue
              /\ snap' = meta
              /\ UNCHANGED <<result, sent, failed, now, uncleared>>
    /\ UNCHANGED <<target, running, staging, got, reboot, request, why>>

\* snapshot and _reachable: what can be checked before the reboot.
Gate ==
    /\ at = "gate"
    /\ \/ Go("arm") /\ UNCHANGED result
       \/ Fail(inNet)
    /\ UNCHANGED <<target, running, staging, got, reboot, files, request, why>>

\* A chord that was sent; one beyond MaxChords changes nothing.
SendChord == chords' = IF chords < MaxChords THEN chords + 1 ELSE chords

\* Mutant: in_net is set only once NET is proved.
ArmedUnmarked ==
    /\ at = "arm"
    /\ scroll' = TRUE /\ tries' = 0
    /\ Go("chord")
    /\ UNCHANGED <<place, chosen, chords, running, staging, got, leg, inNet, home, files,
                   request, why, result>>

\* arm found the LED on, or saw a press of its own set it.  in_net is set
\* before the chord, since every refusal from then on may leave it in NET.
Armed ==
    /\ at = "arm"
    /\ scroll' = TRUE
    /\ tries' = 0
    /\ inNet' = (inNet \/ leg = "out")
    /\ Go("chord")
    /\ UNCHANGED <<place, chosen, chords, running, staging, got, leg, home, files,
                   request, why, result>>

\* The LED could not be read, or the presses were refused or went the other
\* way.  Coming back, and before a scan, the chord is sent all the same.
NotArmed ==
    /\ at = "arm"
    /\ scroll' \in BOOLEAN
    /\ IF leg = "out" THEN UNCHANGED chords ELSE SendChord \/ UNCHANGED chords
    /\ IF leg = "back" THEN Go("tally") /\ UNCHANGED result
                          ELSE Fail(inNet)
    /\ UNCHANGED <<place, chosen, running, staging, got, reboot, files, request,
                   why>>

\* Without a witnessed reset there is no run; one that is on its way back
\* has its result already, and only warns.
NoEdge ==
    IF leg = "back" THEN Go("tally") /\ UNCHANGED result
                       ELSE Fail(inNet)

\* _reboot_edge.
Chord ==
    /\ at = "chord"
    /\ \/ /\ SendChord
          /\ tries' = tries + 1
          /\ Go("edge") /\ UNCHANGED result
       \/ NoEdge /\ UNCHANGED <<chords, tries>>      \* refused: the input is locked
    /\ UNCHANGED <<place, chosen, scroll, running, staging, got, leg, inNet, home,
                   files, request, why>>

EdgeSeen ==
    /\ at = "edge" /\ ~scroll
    /\ Go(IF leg = "out" THEN "menu" ELSE "boot")
    /\ UNCHANGED <<target, running, staging, got, reboot, files, request, why, result>>

\* Mutant: one chord more than RESET_ATTEMPTS.
EdgeUnseenOnceMore ==
    /\ at = "edge"
    /\ IF tries <= RESET_ATTEMPTS THEN Go("chord") /\ UNCHANGED result ELSE NoEdge
    /\ UNCHANGED <<target, running, staging, got, reboot, files, request, why>>

EdgeUnseen ==
    /\ at = "edge"
    /\ IF tries < RESET_ATTEMPTS THEN Go("chord") /\ UNCHANGED result ELSE NoEdge
    /\ UNCHANGED <<target, running, staging, got, reboot, files, request, why>>

\* A "5" and Enter, typed blind up to three times, when the menu is there.
Select ==
    /\ at = "menu" /\ place = "booting" /\ ~chosen
    /\ chosen' = TRUE
    /\ UNCHANGED <<place, scroll, chords, running, staging, got, at, reboot, files,
                   request, why, result>>

Selected ==
    /\ at = "menu" /\ Go("boot")
    /\ UNCHANGED <<target, running, staging, got, reboot, files, request, why, result>>

\* wait_boot.  A scan types its program's name here and goes on as a fetch.
BootSeen ==
    /\ at = "boot" /\ scroll
    /\ Go(CASE leg = "out" -> "prove" [] leg = "scan" -> "gate" [] OTHER -> "tally")
    /\ leg' = IF leg = "scan" THEN "out" ELSE leg
    /\ inNet' = (inNet /\ leg # "back")
    /\ home' = (leg = "back")
    /\ UNCHANGED <<target, running, staging, got, tries, files, request, why, result>>

BootUnseen ==
    /\ at = "boot" /\ NoEdge
    /\ UNCHANGED <<target, running, staging, got, reboot, files, request, why>>

\* A command line for the target.  It reaches a batch file only from the
\* prompt of NET; what is typed at a busy machine may run afterwards; and it
\* may be refused or cut short, which nobody looks at.
Type(c) ==
    /\ got' = Nothing
    /\ LET b == [mine |-> TRUE, cmd |-> c, step |-> IF c.what = "get" THEN "get" ELSE "put"] IN
         \/ UNCHANGED <<bat, line>>
         \/ place = "net" /\ bat = Idle /\ bat' = b /\ UNCHANGED line
         \/ bat # Idle /\ line = Idle /\ line' = b /\ UNCHANGED bat

\* _await_incoming: a new file, of a size that two polls agree on.
Came == got # Nothing

TypeProof ==
    /\ at = "prove" /\ Type(Proof) /\ Go("proving")
    /\ UNCHANGED <<target, card, staging, reboot, files, request,
                   why, result>>

Proved ==
    /\ at = "proving" /\ Came /\ got' = Nothing
    /\ inNet' = TRUE
    /\ Go(IF Sends THEN "next" ELSE "list")
    /\ UNCHANGED <<target, running, staging, leg, tries, home, files,
                   request, why, result>>

Unproved ==
    /\ at = "proving" /\ Fail(inNet)
    /\ UNCHANGED <<target, running, staging, got, reboot, files, request, why>>

TypeList ==
    /\ at = "list" /\ Type(List) /\ Go("listing")
    /\ UNCHANGED <<target, card, staging, reboot, files, request,
                   why, result>>

\* _read_listing and _select: names that are not listed are failures that
\* are never typed.
Listed ==
    /\ at = "listing" /\ Came /\ got' = Nothing
    /\ IF got # Whole
         THEN Go("back") /\ why' = "no-listing"
              /\ UNCHANGED files
         ELSE /\ failed' = asked \ OnCard
              /\ todo' = asked \cap OnCard
              /\ \/ Go(IF asked = {} THEN "back" ELSE "next") /\ UNCHANGED why
                 \/ /\ asked \cap OnCard # {}
                    /\ Go("back") /\ why' = "too-large"
              /\ UNCHANGED <<asked, snap, sent, now, uncleared>>
    /\ UNCHANGED <<target, running, staging, reboot, request, result>>

Unlisted ==
    /\ at = "listing"
    /\ Go("back") /\ why' = "no-listing"
    /\ UNCHANGED <<target, running, staging, got, reboot, files, request, result>>

\* The next file; a cancel is looked at here only.
TypeFile ==
    /\ at = "next" /\ ~cancel
    /\ \E f \in todo :
         /\ Type(IF Sends THEN Get(f) ELSE Chk(f))
         /\ now' = f
         /\ todo' = todo \ {f}
    /\ Go("waiting")
    /\ UNCHANGED <<target, card, staging, reboot, asked, snap, sent, failed,
                   uncleared, request, why, result>>

FileCame ==
    /\ at = "waiting" /\ Came /\ Go("verify")
    /\ UNCHANGED <<target, running, staging, got, reboot, files, request, why, result>>

\* The loop is left: what was verified is to be cleared from the queue.
Settle ==
    /\ result' = [result EXCEPT !.cancelled = cancel]
    /\ Go(IF Sends THEN "clear" ELSE "back")

\* Mutant: the files that failed are cleared as well.
AllDoneClearsAll ==
    /\ at = "next" /\ (todo = {} \/ cancel)
    /\ Settle
    /\ uncleared' = sent \cup failed
    /\ UNCHANGED <<target, running, staging, got, reboot, asked, snap, todo, sent, failed,
                   now, request, why>>

AllDone ==
    /\ at = "next" /\ (todo = {} \/ cancel)
    /\ Settle
    /\ uncleared' = sent
    /\ UNCHANGED <<target, running, staging, got, reboot, asked, snap, todo, sent, failed,
                   now, request, why>>

\* Mutant: a file that did not come back is no failure.
FileSilentForgotten ==
    /\ at = "waiting"
    /\ Settle
    /\ uncleared' = sent
    /\ UNCHANGED <<target, running, staging, got, reboot, asked, snap, todo, sent, failed,
                   now, request, why>>

\* Mutant: the next file is typed all the same.
FileSilentGoesOn ==
    /\ at = "waiting" /\ Go("next")
    /\ failed' = failed \cup {now}
    /\ UNCHANGED <<target, running, staging, got, reboot, asked, snap, todo, sent, now,
                   uncleared, request, why, result>>

\* Mutant: the file is tried again.
FileSilentRetried ==
    /\ at = "waiting" /\ Go("next")
    /\ todo' = todo \cup {now}
    /\ UNCHANGED <<target, running, staging, got, reboot, asked, snap, sent, failed, now,
                   uncleared, request, why, result>>

\* no-return or no-prompt: the next command would be typed blind.
FileSilent ==
    /\ at = "waiting"
    /\ Settle
    /\ failed' = failed \cup {now}
    /\ uncleared' = sent
    /\ UNCHANGED <<target, running, staging, got, reboot, asked, snap, todo, sent, now,
                   request, why>>

\* The copy sent back has the sha that was staged, or the file fetched has
\* the size that the listing says.
Verified == got = IF Sends THEN snap[now] ELSE Whole

Verify ==
    /\ at = "verify" /\ Go("next")
    /\ got' = Nothing
    /\ IF Verified THEN sent' = sent \cup {now} /\ UNCHANGED failed
                   ELSE failed' = failed \cup {now} /\ UNCHANGED sent
    /\ UNCHANGED <<target, running, staging, reboot, asked, snap, todo, now, uncleared,
                   request, why, result>>

ClearSent ==
    /\ at = "clear"
    /\ \E f \in uncleared :
         Clear(f) /\ uncleared' = uncleared \ {f}
    /\ UNCHANGED <<target, running, late, uploads, got, at, reboot, asked, snap, todo, sent,
                   failed, now, request, why, result>>

Cleared ==
    /\ at = "clear" /\ uncleared = {} /\ Go("back")
    /\ UNCHANGED <<target, running, staging, got, reboot, files, request, why, result>>

\* _leave_net.
Back ==
    /\ at = "back"
    /\ Go(IF order.back THEN "arm" ELSE "tally")
    /\ leg' = "back"
    /\ UNCHANGED <<target, running, staging, got, tries, inNet, home, files, request,
                   why, result>>

Ok == why = "none" /\ failed = {}
Complete ==
    /\ why = "none" /\ ~result.cancelled
    /\ IF Sends THEN sent \cup failed # {} /\ Queue = {}
                   ELSE todo = {} /\ asked \subseteq OnCard

Tally ==
    /\ at = "tally" /\ Go("finish")
    /\ result' = [ok |-> Ok, complete |-> Complete,
                   cancelled |-> result.cancelled /\ why = "none", left |-> inNet]
    /\ UNCHANGED <<target, running, staging, got, reboot, files, request, why>>

\* Any step may raise: the target is then said to be in NET.
Crash ==
    /\ at \notin {"none", "finish"} /\ Fail(TRUE)
    /\ UNCHANGED <<target, running, staging, got, reboot, files, request, why>>

\* _finish_job: from here on a new job may start.  What only the thread knew
\* goes with it.
Finish ==
    /\ at = "finish" /\ Go("none")
    /\ result' = [NoResult EXCEPT !.left = result.left]
    /\ tries' = 0 /\ leg' = "out" /\ why' = "none" /\ got' = Nothing
    /\ asked' = {} /\ snap' = NoFiles /\ todo' = {} /\ sent' = {} /\ failed' = {}
    /\ now' = NoFile /\ uncleared' = {} /\ order' = NoOrder /\ cancel' = FALSE /\ inNet' = FALSE
    /\ UNCHANGED <<target, running, staging, home, began>>

Step ==
    \/ ReadQueue \/ Gate \/ Armed \/ NotArmed \/ Chord \/ EdgeSeen \/ EdgeUnseen
    \/ Select \/ Selected \/ BootSeen \/ BootUnseen
    \/ TypeProof \/ Proved \/ Unproved \/ TypeList \/ Listed \/ Unlisted
    \/ TypeFile \/ FileCame \/ AllDone \/ FileSilent \/ Verify
    \/ ClearSent \/ Cleared \/ Back \/ Tally \/ Crash \/ Finish

Next == Target \/ Staging \/ Call \/ Step

Spec == Init /\ [][Next]_vars

-----------------------------------------------------------------------------
(* What must hold. *)

\* A job that says the target is not in NET is right, until the next one
\* starts: left_in_net.  Two sorts cannot know, and are not meant: a job that
\* found the target in NET already and ended before it had brought it back,
\* because it was refused first or because its proof, with `already_net`,
\* did not arrive.
LeftInNetIsTrue ==
    at = "none" /\ ~result.left /\ (home \/ ~began) => ~InNet

\* What a run takes from the queue, the target holds with the sha that the
\* run read before it began, whatever is staged, cleared, cut short or sent
\* again meanwhile: TransferJob._send_one and _finish.
ClearedIsOnTarget ==
    [][at = "clear" => \A f \in uncleared \ uncleared' : card[f] = snap[f]]_vars

\* A run that says `ok` and was not cancelled delivered every file it was
\* about: a sending run all that was queued when it began.
Delivered == \A f \in asked : IF Sends THEN card[f] = snap[f] ELSE f \in sent
OkMeansDelivered == at = "finish" /\ result.ok /\ ~result.cancelled => Delivered

\* A job that rebooted the target itself types nothing at the prompt while
\* the target is still working on a command of that job's and has sent
\* nothing back for it: a DOS that is not at its prompt joins the two into
\* one (OPEN-FAULTS sec. 16).
Typed == at \in {"prove", "list", "next"} /\ at' \in {"proving", "listing", "waiting"}
NotTypedOver ==
    [][Typed /\ ~order.told => ~(bat.mine /\ bat.step \in {"get", "put"})]_vars

\* What a run takes from the queue the target holds: "a verified file's bytes
\* exist on the target" (vcctrld.py:9660).  It does not hold: a file that is
\* staged in place of the one sent is taken too, and is nowhere then.
TakenIsOnTarget ==
    [][at = "clear" => \A f \in uncleared \ uncleared' : stage[f] \in {Nothing, card[f]}]_vars

\* Every job comes to its end: what is left for it to do gets less with all it
\* does, whatever the target, the callers and chance do.  Nothing is tried
\* again but the chord, RESET_ATTEMPTS times.  Every wait has its timeout, so
\* none of them lasts for ever.
LegLeft ==
    CASE at = "arm" -> 10 [] at = "chord" -> 8 - 2 * tries [] at = "edge" -> 9 - 2 * tries
      [] at = "menu" -> 4 [] OTHER -> 3
InLeg == at \in {"arm", "chord", "edge", "menu", "boot"}
FromNext == 15 + Cardinality(Files)
FromListing == FromNext + 3 * Cardinality(Files)
Left ==
    CASE at = "none" -> 0 [] at = "finish" -> 1 [] at = "tally" -> 2
      [] InLeg /\ leg = "back" -> 2 + LegLeft
      [] at = "back" -> 13
      [] at = "clear" -> 14 + Cardinality(uncleared)
      [] at = "next" -> FromNext + 3 * Cardinality(todo)
      [] at = "verify" -> FromNext + 3 * Cardinality(todo) + 1
      [] at = "waiting" -> FromNext + 3 * Cardinality(todo) + 2
      [] at = "listing" -> FromListing + 1 [] at = "list" -> FromListing + 2
      [] at = "proving" -> FromListing + 3 [] at = "prove" -> FromListing + 4
      [] InLeg /\ leg = "out" -> FromListing + 4 + LegLeft
      [] at = "gate" -> FromListing + 15
      [] InLeg /\ leg = "scan" -> FromListing + 15 + LegLeft
      [] OTHER -> FromListing + 26
GetsOn == at # "none" /\ <<at, tries, todo, uncleared>>' # <<at, tries, todo, uncleared>>
CountsDown == [][GetsOn => Left' < Left]_vars
=============================================================================
