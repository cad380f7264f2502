------------------------------- MODULE Parts -------------------------------
(***************************************************************************)
(* The smaller parts of the system, beside the input, the capture and the  *)
(* jobs: what the daemon drives and talks to, what it keeps on disk, what  *)
(* others follow.  Each is a module of its own; a behaviour of this module *)
(* is one of one of them, in which the others stay where they are.         *)
(* `moving` says which it is; it is chosen once.  Whoever does not move is *)
(* in one and the same initial state of his, so the states are the sum and *)
(* not the product of theirs.                                              *)
(***************************************************************************)
EXTENDS Naturals, Sequences

VARIABLE moving

-----------------------------------------------------------------------------
(* What other machines say: the power plug, the file server. *)

CONSTANTS PlugKinds, PlugCallers, Wishes, Ports, Sessions, NoSession
VARIABLES backend, relay, port, live, seenPort, table, plugCall, plugTold
plugVars == <<backend, relay, port, live, seenPort, table, plugCall, plugTold>>

Plugs == INSTANCE Plugs WITH
    Backends <- PlugKinds, Callers <- PlugCallers, call <- plugCall, told <- plugTold

CONSTANTS Pollers, Checkers, Cache, PollWait, CheckWait, MaxTime
VARIABLES now, host, ftpd, serverError, address, cached, serverAsker, lastLive, seen
serverVars == <<now, host, ftpd, serverError, address, cached, serverAsker, lastLive, seen>>

FileServer == INSTANCE FileServer WITH error <- serverError, asker <- serverAsker

-----------------------------------------------------------------------------
(* Who may type: the agent's side of the input lock. *)

CONSTANTS Tools, OtherOwners, Me, NoOwner, MayBreak, IdleWatch, Jobs
VARIABLES lockOwner, heldFlag, sticky, toolAt, keeps, lockWatch, lockJob, astray, broken,
          abandoned, promised
mcpVars == <<lockOwner, heldFlag, sticky, toolAt, keeps, lockWatch, lockJob, astray, broken,
             abandoned, promised>>

McpLock == INSTANCE McpLock WITH
    Others <- OtherOwners, owner <- lockOwner, pc <- toolAt, watch <- lockWatch, job <- lockJob

-----------------------------------------------------------------------------
(* What follows the input: the pointer's queue, the caps lamp. *)

CONSTANTS Movers, Owners, As, Far, MostMoves, Widest
VARIABLES queueOwner, pq, who, pointerSeq, done, hand, wait, owed, gone, dropped
pointerVars == <<queueOwner, pq, who, pointerSeq, done, hand, wait, owed, gone, dropped>>

PointerQueue == INSTANCE PointerQueue WITH
    Threads <- Movers, Calls <- MostMoves, seq <- pointerSeq, owner <- queueOwner

CONSTANTS Keyboards, MaxUnread
VARIABLES target, state, saved, up, there, watching, dead, unread, missed, capsStale
capsVars == <<target, state, saved, up, there, watching, dead, unread, missed,
             capsStale>>

CapsTrack == INSTANCE CapsTrack WITH stale <- capsStale

-----------------------------------------------------------------------------
(* Starts: the harness boots the target, the daemon builds its instances. *)

CONSTANTS MaxUpsets, MaxKeys
VARIABLES phase, led, keys, upsets, node, chan, bootPc, val, before, since, numWas
harnessVars == <<phase, led, keys, upsets, node, chan, bootPc, val, before, since, numWas>>

HarnessBoot == INSTANCE HarnessBoot WITH pc <- bootPc

CONSTANTS ProfileNames, Requests, SameName
VARIABLES found, todo, built, web, unbound, bound, profileCall
profileVars == <<found, todo, built, web, unbound, bound, profileCall>>

Profiles == INSTANCE Profiles WITH
    Names <- ProfileNames, Callers <- Requests, call <- profileCall

VARIABLES config, next, caps, failed, disabled, routes
registryVars == <<config, next, caps, failed, disabled, routes>>

Registry == INSTANCE Registry

-----------------------------------------------------------------------------
(* Files on disk: staged ones, images, pulled copies, listings. *)

CONSTANTS Stores, Uploads, Chunks, Threads
VARIABLES store, part, dest, stagedJob, building, run, stagedTold, met
stagedVars == <<store, part, dest, stagedJob, building, run, stagedTold, met>>

Staging == INSTANCE Staging WITH job <- stagedJob, told <- stagedTold

CONSTANTS Images, Callers, NoImage, NoCaller
VARIABLES file, cdrom, ro, lunImages, lock, work, asked, builds
lunVars == <<file, cdrom, ro, lunImages, lock, work, asked, builds>>

MsdLun == INSTANCE MsdLun WITH Nobody <- NoCaller, images <- lunImages

CONSTANT Size
VARIABLES copies, bytes, sidecar, promoting, clearing, saver, out, outlived, recorded, heard
pulledVars == <<copies, bytes, sidecar, promoting, clearing, outlived, saver, out, recorded,
                heard>>

PulledStore == INSTANCE PulledStore

CONSTANTS Dirs, MaxReadings
VARIABLES readings, disk, saving, listedAsker, readable, tried, lost
listedVars == <<readings, disk, saving, listedAsker, readable, tried, lost>>

ListingStore == INSTANCE ListingStore WITH asker <- listedAsker

-----------------------------------------------------------------------------
(* What others follow: the bus and its log, the public page's sound. *)

CONSTANTS Cap, EventsPerPage, MaxSeq
VARIABLES busSeq, events, readerAt, given
busVars == <<busSeq, events, readerAt, given>>

EventBus == INSTANCE EventBus WITH Page <- EventsPerPage, seq <- busSeq, at <- readerAt

CONSTANTS Publishers, MaxLines, MaxTorn, FileLines, KeptFiles
VARIABLES logPc, nextFile, files, logError, written, torn
logVars == <<logPc, nextFile, files, logError, written, torn>>

InputLog == INSTANCE InputLog WITH
    Threads <- Publishers, Keep <- KeptFiles, pc <- logPc, next <- nextFile,
    error <- logError

CONSTANTS Listeners, Slots, Headers, Pages, Streams
VARIABLES attached, headers, epoch, loop, page, sending, relayAt, mine, sock, got
relayVars == <<attached, headers, epoch, loop, page, sending, relayAt, mine, sock, got>>

AudioRelay == INSTANCE AudioRelay WITH at <- relayAt

-----------------------------------------------------------------------------
(* All of them. *)

PartNames ==
    {"plugs", "file server", "mcp", "pointer", "caps", "harness", "profiles", "registry",
     "staging", "lun", "pulled", "listings", "bus", "log", "relay"}

ASSUME PartsAssumption ==
    /\ Plugs!PlugAssumption /\ FileServer!TimesAssumption /\ McpLock!LockAssumption
    /\ PointerQueue!QueueAssumption /\ CapsTrack!CapsAssumption
    /\ HarnessBoot!BoundsAssumption /\ Profiles!ProfilesAssumption
    /\ Staging!StagingAssumption /\ MsdLun!LunAssumption
    /\ PulledStore!SizeAssumption /\ ListingStore!ListingAssumption
    /\ EventBus!BusAssumption /\ InputLog!LogAssumption /\ AudioRelay!RelayAssumption

Init ==
    /\ moving \in PartNames
    /\ Plugs!Init /\ (moving # "plugs" => backend = "kasa" /\ relay = "on")
    /\ FileServer!Init /\ (moving # "file server" => ~host /\ address = "refused")
    /\ McpLock!Init
    /\ PointerQueue!Init
    /\ CapsTrack!Init /\ (moving # "caps" => target = "off" /\ there = {})
    /\ HarnessBoot!Init /\ (moving # "harness" => phase = "off" /\ led = {} /\ chan = "ok")
    /\ Profiles!Init /\ (moving # "profiles" => Len(found) = 1 /\ found[1].name = 0 /\ found[1].hid)
    /\ Registry!Init /\ (moving # "registry" => \A c \in DOMAIN config : config[c] = "none")
    /\ Staging!Init /\ (moving # "staging" => store = "share")
    /\ MsdLun!Init /\ (moving # "lun" => \A i \in DOMAIN lunImages : lunImages[i] = "none")
    /\ PulledStore!Init
    /\ ListingStore!Init /\ (moving # "listings" =>
            disk.shape = "nothing" /\ saving.dir = CHOOSE d \in Dirs : TRUE)
    /\ EventBus!Init /\ InputLog!Init
    /\ AudioRelay!Init

\* A part that does not move keeps its variables.
Stays(p, partVars) == IF moving = p THEN TRUE ELSE UNCHANGED partVars

OthersStay ==
    /\ UNCHANGED moving
    /\ Stays("plugs", plugVars) /\ Stays("file server", serverVars)
    /\ Stays("mcp", mcpVars)
    /\ Stays("pointer", pointerVars) /\ Stays("caps", capsVars)
    /\ Stays("harness", harnessVars) /\ Stays("profiles", profileVars)
    /\ Stays("registry", registryVars)
    /\ Stays("staging", stagedVars) /\ Stays("lun", lunVars)
    /\ Stays("pulled", pulledVars) /\ Stays("listings", listedVars)
    /\ Stays("bus", busVars) /\ Stays("log", logVars) /\ Stays("relay", relayVars)

Next ==
    \/ moving = "plugs" /\ Plugs!Next /\ OthersStay
    \/ moving = "file server" /\ FileServer!Next /\ OthersStay
    \/ moving = "mcp" /\ McpLock!Next /\ OthersStay
    \/ moving = "pointer" /\ PointerQueue!Next /\ OthersStay
    \/ moving = "caps" /\ CapsTrack!Next /\ OthersStay
    \/ moving = "harness" /\ HarnessBoot!Next /\ OthersStay
    \/ moving = "profiles" /\ Profiles!Next /\ OthersStay
    \/ moving = "registry" /\ Registry!Next /\ OthersStay
    \/ moving = "staging" /\ Staging!Next /\ OthersStay
    \/ moving = "lun" /\ MsdLun!Next /\ OthersStay
    \/ moving = "pulled" /\ PulledStore!Next /\ OthersStay
    \/ moving = "listings" /\ ListingStore!Next /\ OthersStay
    \/ moving = "bus" /\ EventBus!Next /\ OthersStay
    \/ moving = "log" /\ InputLog!Next /\ OthersStay
    \/ moving = "relay" /\ AudioRelay!Next /\ OthersStay

vars == <<moving, plugVars, serverVars, mcpVars, pointerVars, capsVars, harnessVars,
          profileVars, registryVars, stagedVars, lunVars, pulledVars, listedVars,
          busVars, logVars, relayVars>>

Spec == Init /\ [][Next]_vars

\* Where tool calls move they go on as in McpLock.
FairSpec ==
    /\ Spec
    /\ \A t \in Tools : WF_mcpVars(moving = "mcp" /\ McpLock!Continue(t))
    /\ WF_mcpVars(moving = "mcp" /\ McpLock!IdleStep)

-----------------------------------------------------------------------------
(* Properties: what the modules state of their parts. *)

\* An invariant of a part, asked for where that part moves: elsewhere it is in
\* the initial state it has among its own.
Of(p, invariant) == moving = p => invariant

\* A reading of the plug that is given out is of a state its relay had during the
\* call, a set that a reply with a verdict ended was done, and a second attempt uses
\* a session made for it; the file server is offered, and a transfer let go, only
\* while it answered lately.
OthersToldTruly ==
    /\ Plugs!ToldTruly /\ []Of("plugs", Plugs!RetryIsFresh)
    /\ []Of("file server", FileServer!OfferedIsRecent /\ FileServer!GoIsRecent)

\* The minimal footprint: when no tool call and no release is under way and nobody
\* asked to keep the input lock, the daemon's lock is not the agent's, unless a call
\* to the daemon failed and none was answered since.
LockIsGivenBack == Of("mcp", McpLock!QuietMeansReleased)

\* An agent that stops calling does not keep the lock from the others for ever,
\* unless a call that failed left it behind.
LockComesBack == McpLock!LockComesBack

\* Moves that are merged in the queue lose no pixel, and a request is answered
\* "sent" when its own is dealt with, not before; the caps state that is remembered
\* is the target's, unless a failed save left an old one for the daemon to load.
InputIsFollowed ==
    /\ []Of("pointer", PointerQueue!NothingLost) /\ PointerQueue!SentComesAfter
    /\ []Of("caps", CapsTrack!TrackedIsTrue)

\* The harness says "ready" of a machine that has booted since it was asked to
\* boot it, and a probe leaves Num Lock as it was.
BootIsProven ==
    /\ HarnessBoot!ReadyMeansBooted /\ []Of("harness", HarnessBoot!ProbeRestores)

\* Whoever serves a profile uses that profile's configuration, a name leads to
\* its profile whichever way it comes, and a capability is running, failed or
\* off, never two of them, with its commands answered accordingly.
ProfilesStandAlone ==
    /\ Of("profiles", Profiles!AnswersForItself /\ Profiles!NamesReachTheirProfile
                        /\ Profiles!EitherPath)
    /\ Of("registry", Registry!ThreeStates /\ Registry!VerifyInputBelongs)

\* A staged file that is published is one upload, whole, and leaves a mounted
\* image alone, and a sender who starts afresh is let in; the LUN shows what was
\* asked for; a pulled copy is saved under the sha of the same copy; and the last
\* listing that could be read outlives attempts that could not.
FilesAreWhole ==
    /\ []Of("staging", Staging!PublishedWhole) /\ Staging!FreshStartAccepted /\ Staging!ImageKept
    /\ []Of("lun", MsdLun!ExposedAsAsked)
    /\ []Of("pulled", PulledStore!RecordIsTrue /\ PulledStore!SavedIsOneCopy)
    /\ []Of("listings", ListingStore!LastReadableKept)

\* A page is given every event of the bus or told that it was not, the log keeps
\* its newest lines over rotations that fail half-way, and a listener of the public
\* page hears a stream from its headers on with nothing missing.
FollowersMissNothing ==
    /\ Of("bus", EventBus!PageIsTold) /\ Of("log", InputLog!LogKeepsLines)
    /\ Of("relay", AudioRelay!HeardFromTheStart /\ AudioRelay!ListIsOfThisStream)
=============================================================================
