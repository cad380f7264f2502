------------------------------ MODULE McpLock ------------------------------
(***************************************************************************)
(* The MCP server's side of one profile's input lock: a LockManager that   *)
(* remembers whether it has the daemon's lock, the tool calls that take it *)
(* for one action or keep it, the idle watch that gives it back, and the   *)
(* background jobs that need it for themselves.                            *)
(*                                                                         *)
(* The manager's memory and the daemon's arbiter are two pieces of state   *)
(* with a subprocess call between them: what is remembered is changed      *)
(* under _state_lock before or after the call, never during it.  A call may *)
(* time out or fail: it never got there, or the daemon served it and the   *)
(* answer was lost, or it is served after its caller has gone on.  The SDK *)
(* may run two tool calls at once, and they share one identity.            *)
(*                                                                         *)
(* Time is left out: the idle watch may decide whenever no action is under *)
(* way, the 300 s of the code being longer than an action.                 *)
(***************************************************************************)
EXTENDS Naturals

CONSTANTS
    Tools,      \* tool calls that may run at once
    Others,     \* other identities: an operator, a sweep, the jobs
    Me,         \* OWNER
    NoOwner,
    MayBreak,   \* an operator may break the lock
    IdleWatch,  \* the idle watch runs (IDLE_TIMEOUT_S is finite)
    Jobs        \* background jobs may be started

LockAssumption ==
    /\ Me \notin Others /\ NoOwner \notin Others \cup {Me}
    /\ MayBreak \in BOOLEAN /\ IdleWatch \in BOOLEAN /\ Jobs \in BOOLEAN

VARIABLES
    owner,      \* the daemon's Arbiter.owner
    heldFlag,   \* LockManager._held
    sticky,     \* LockManager._sticky
    pc,         \* each tool call's progress
    keeps,      \* the tool calls that are vcctrl_lock_acquire
    watch,      \* the idle watch's progress
    job,        \* a transfer or harness job is running
    astray,     \* calls whose caller gave up and that the daemon may yet serve
    broken,     \* history: the lock was broken since it was last granted to us
    abandoned,  \* history: a failed call left the lock at the daemon, and none
                \* since was answered
    promised    \* history: a lock_acquire said the lock will be kept, and
                \* nothing since has entitled anyone to let it go

vars == <<owner, heldFlag, sticky, pc, keeps, watch, job, astray, broken, abandoned, promised>>
failures == <<astray, abandoned>>

\* checked: no job was running; calling: `lock acquire` is on its way;
\* granted: its answer is on the way back; ready: ensure() said yes; driven: the
\* command has been sent and answered; finishing: release() was decided on;
\* releasing: `lock release` is on its way.
Progress == {"idle", "checked", "calling", "granted", "ready", "driven",
             "finishing", "releasing"}

TypeOK ==
    /\ owner \in Others \cup {Me, NoOwner}
    /\ heldFlag \in BOOLEAN /\ sticky \in BOOLEAN
    /\ pc \in [Tools -> Progress]
    /\ keeps \subseteq Tools
    /\ watch \in {"waiting", "finishing", "releasing"}
    /\ job \in BOOLEAN /\ astray \subseteq {"acquire", "release"}
    /\ broken \in BOOLEAN /\ abandoned \in BOOLEAN /\ promised \in BOOLEAN

Init ==
    /\ owner = NoOwner /\ heldFlag = FALSE /\ sticky = FALSE
    /\ pc = [t \in Tools |-> "idle"] /\ keeps = {}
    /\ watch = "waiting"
    /\ job = FALSE /\ astray = {}
    /\ broken = FALSE /\ abandoned = FALSE /\ promised = FALSE

Goes(t, from, to) == pc[t] = from /\ pc' = [pc EXCEPT ![t] = to]

-----------------------------------------------------------------------------
(* The daemon and everybody else. *)

Released == IF owner = Me THEN NoOwner ELSE owner

OtherAcquires(o) ==
    /\ owner = NoOwner /\ owner' = o
    /\ UNCHANGED <<heldFlag, sticky, pc, keeps, watch, job, broken, promised, failures>>

OtherReleases(o) ==
    /\ owner = o /\ owner' = NoOwner
    /\ UNCHANGED <<heldFlag, sticky, pc, keeps, watch, job, broken, promised, failures>>

OtherBreaks(o) ==
    /\ MayBreak
    /\ owner' = o /\ broken' = TRUE /\ promised' = FALSE
    /\ UNCHANGED <<heldFlag, sticky, pc, keeps, watch, job, failures>>

\* The daemon serves a call that nobody waits for any more.
StrayAcquire ==
    /\ "acquire" \in astray /\ astray' = astray \ {"acquire"}
    /\ \/ /\ owner \in {NoOwner, Me} /\ owner' = Me /\ broken' = FALSE
          /\ abandoned' = (abandoned \/ owner # Me)
       \/ /\ owner \notin {NoOwner, Me} /\ UNCHANGED <<owner, broken, abandoned>>
    /\ UNCHANGED <<heldFlag, sticky, pc, keeps, watch, job, promised>>

StrayRelease ==
    /\ "release" \in astray /\ astray' = astray \ {"release"}
    /\ owner' = Released /\ abandoned' = FALSE
    /\ UNCHANGED <<heldFlag, sticky, pc, keeps, watch, job, broken, promised>>

\* A transfer or a harness job, from the browser or another session.
JobStarts ==
    /\ Jobs /\ ~job /\ job' = TRUE
    /\ UNCHANGED <<owner, heldFlag, sticky, pc, keeps, watch, broken, promised, failures>>

JobEnds ==
    /\ job /\ job' = FALSE
    /\ UNCHANGED <<owner, heldFlag, sticky, pc, keeps, watch, broken, promised, failures>>

-----------------------------------------------------------------------------
(* LockManager. *)

\* ensure(), first half: a lock that is remembered as held is not asked for again.
Ensure(t, from) ==
    /\ Goes(t, from, IF heldFlag THEN "ready" ELSE "calling")
    /\ UNCHANGED <<owner, heldFlag, sticky, keeps, watch, job, broken, promised, failures>>

\* The daemon's answer to `lock acquire`: a refusal ends the tool call.
AskDaemon(t) ==
    /\ \/ /\ owner \in {NoOwner, Me}
          /\ Goes(t, "calling", "granted")
          /\ owner' = Me /\ broken' = FALSE /\ UNCHANGED keeps
       \/ /\ owner \notin {NoOwner, Me}
          /\ Goes(t, "calling", "idle")
          /\ keeps' = keeps \ {t} /\ UNCHANGED <<owner, broken>>
    /\ UNCHANGED <<heldFlag, sticky, watch, job, promised, failures>>

\* The call times out, or the client cannot be run: ensure() returns what
\* _run_vcctrl says of it as a refusal, whether or not the daemon heard.
AskFails(t) ==
    /\ Goes(t, "calling", "idle")
    /\ keeps' = keeps \ {t}
    /\ astray' \in {astray, astray \cup {"acquire"}}
    /\ UNCHANGED <<owner, heldFlag, sticky, watch, job, broken, abandoned, promised>>

\* The same after the daemon has granted the lock.
AnswerLost(t) ==
    /\ Goes(t, "granted", "idle")
    /\ keeps' = keeps \ {t}
    /\ abandoned' = (abandoned \/ owner = Me)
    /\ UNCHANGED <<owner, heldFlag, sticky, watch, job, astray, broken, promised>>

\* ensure(), second half.
Remember(t) ==
    /\ Goes(t, "granted", "ready")
    /\ heldFlag' = TRUE
    /\ abandoned' = FALSE
    /\ UNCHANGED <<owner, sticky, keeps, watch, job, broken, promised, astray>>

\* release(), under _state_lock: nothing is remembered, and the daemon is told
\* only if something was.
Forget == heldFlag' = FALSE /\ sticky' = FALSE

\* `lock release`, whose result nobody looks at: served, or lost, or yet to come.
ReleaseAtDaemon ==
    \/ owner' = Released /\ abandoned' = FALSE /\ UNCHANGED astray
    \/ /\ abandoned' = (abandoned \/ owner = Me)
       /\ astray' \in {astray, astray \cup {"release"}}
       /\ UNCHANGED owner

ToldDaemon(t) ==
    /\ Goes(t, "releasing", "idle")
    /\ ReleaseAtDaemon
    /\ UNCHANGED <<heldFlag, sticky, keeps, watch, job, broken, promised>>

-----------------------------------------------------------------------------
(* Tool calls. *)

\* _gated_run: the lock, one command under --as OWNER, and the lock given back
\* unless somebody made it sticky.
GatedCall(t) == t \notin keeps /\ Ensure(t, "idle")

Drive(t) ==
    /\ t \notin keeps /\ Goes(t, "ready", "driven")
    /\ UNCHANGED <<owner, heldFlag, sticky, keeps, watch, job, broken, promised, failures>>

\* Mutant: a gated call never gives the lock back.
FinishKeeping(t) ==
    /\ Goes(t, "driven", "idle")
    /\ UNCHANGED <<owner, heldFlag, sticky, keeps, watch, job, broken, promised, failures>>

Finish(t) ==
    /\ Goes(t, "driven", IF sticky THEN "idle" ELSE "finishing")
    /\ UNCHANGED <<owner, heldFlag, sticky, keeps, watch, job, broken, promised, failures>>

FinishReleases(t) ==
    /\ Goes(t, "finishing", IF heldFlag THEN "releasing" ELSE "idle")
    /\ Forget
    /\ UNCHANGED <<owner, keeps, watch, job, broken, promised, failures>>

\* vcctrl_lock_acquire: refused while a job runs; then the lock; then sticky.
KeepCall(t) ==
    /\ ~job /\ Goes(t, "idle", "checked")
    /\ keeps' = keeps \cup {t}
    /\ UNCHANGED <<owner, heldFlag, sticky, watch, job, broken, promised, failures>>

KeepEnsures(t) == Ensure(t, "checked")

MarkSticky(t) ==
    /\ t \in keeps /\ Goes(t, "ready", "idle")
    /\ sticky' = TRUE
    /\ promised' = TRUE /\ keeps' = keeps \ {t}
    /\ UNCHANGED <<owner, heldFlag, watch, job, broken, failures>>

\* vcctrl_lock_release, and the release that send_file, run_cell and their like
\* make before they start a job.
LetGo(t) ==
    /\ Goes(t, "idle", IF heldFlag THEN "releasing" ELSE "idle")
    /\ Forget
    /\ promised' = FALSE
    /\ UNCHANGED <<owner, keeps, watch, broken, failures>>
    /\ job' \in IF Jobs THEN {job, TRUE} ELSE {job}

-----------------------------------------------------------------------------
(* The idle watch. *)

\* Mutant: the idle watch spares a lock that is to be kept.
IdleSparesSticky ==
    /\ IdleWatch /\ watch = "waiting" /\ heldFlag /\ ~sticky
    /\ \A t \in Tools : pc[t] \notin {"ready", "driven"}
    /\ watch' = "finishing"
    /\ UNCHANGED <<owner, heldFlag, sticky, pc, keeps, job, broken, promised, failures>>

IdleExpires ==
    /\ IdleWatch /\ watch = "waiting" /\ heldFlag
    /\ \A t \in Tools : pc[t] \notin {"ready", "driven"}
    /\ watch' = "finishing"
    /\ UNCHANGED <<owner, heldFlag, sticky, pc, keeps, job, broken, promised, failures>>

IdleForgets ==
    /\ watch = "finishing"
    /\ watch' = IF heldFlag THEN "releasing" ELSE "waiting"
    /\ Forget /\ promised' = FALSE
    /\ UNCHANGED <<owner, pc, keeps, job, broken, failures>>

IdleTellsDaemon ==
    /\ watch = "releasing" /\ watch' = "waiting"
    /\ ReleaseAtDaemon
    /\ UNCHANGED <<heldFlag, sticky, pc, keeps, job, broken, promised>>

-----------------------------------------------------------------------------
Continue(t) ==
    \/ AskDaemon(t) \/ AskFails(t) \/ AnswerLost(t) \/ Remember(t) \/ ToldDaemon(t)
    \/ Drive(t) \/ Finish(t) \/ FinishReleases(t)
    \/ KeepEnsures(t) \/ MarkSticky(t)

ToolStep(t) == GatedCall(t) \/ KeepCall(t) \/ LetGo(t) \/ Continue(t)

IdleStep == IdleExpires \/ IdleForgets \/ IdleTellsDaemon

OtherStep(o) == OtherAcquires(o) \/ OtherReleases(o) \/ OtherBreaks(o)

Next ==
    \/ \E t \in Tools : ToolStep(t)
    \/ \E o \in Others : OtherStep(o)
    \/ StrayAcquire \/ StrayRelease
    \/ IdleStep \/ JobStarts \/ JobEnds

Spec == Init /\ [][Next]_vars

\* A tool call that has begun and the idle watch go on; nobody has to begin one.
FairSpec ==
    /\ Spec
    /\ \A t \in Tools : WF_vars(Continue(t))
    /\ WF_vars(IdleStep)

-----------------------------------------------------------------------------
(* Properties. *)

AllIdle == \A t \in Tools : pc[t] = "idle"

Quiet == AllIdle /\ watch = "waiting"

\* The minimal footprint: when no tool call and no release is under way and
\* nobody asked to keep the lock, the daemon's lock is not ours, unless a call
\* to the daemon failed and no acquire or release was answered since.
QuietMeansReleased == Quiet /\ ~sticky /\ owner = Me => abandoned

\* The same whatever fails (not true of the code: ensure() and release() forget
\* a call that failed).
QuietAlwaysReleased == Quiet /\ ~sticky => owner # Me

\* A lock that lock_acquire has promised to keep stays ours at the daemon until
\* it is given up on purpose, expires or is broken.
PromiseKept == promised => owner = Me \/ broken

\* ensure() answers yes only when the daemon's lock is ours (not true of the
\* code, which answers from memory).
AnswersAreTrue ==
    [][\A t \in Tools :
          pc[t] \in {"idle", "checked"} /\ pc'[t] = "ready" => owner = Me]_vars

\* A gated command is sent under our lock, unless it was broken.
DrivesUnderLock ==
    [][\A t \in Tools :
          pc[t] = "ready" /\ pc'[t] = "driven" => owner = Me \/ broken]_vars

\* An agent that stops calling does not keep the lock from the others for ever,
\* unless it was left behind by a call that failed.
LockComesBack == <>[]AllIdle => <>[](owner = Me => abandoned)

\* The same whatever fails (not true of the code: the idle watch looks at what
\* is remembered).
LockAlwaysComesBack == <>[]AllIdle => <>[](owner # Me)

\* No call makes the lock sticky over a job that is running.
NoHoldOverJob == [][sticky' /\ ~sticky => ~job]_vars

=============================================================================
