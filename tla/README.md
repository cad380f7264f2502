# vcctrl in TLA+

`vcctrl` drives old computers through a Raspberry Pi: a daemon (`daemon/vcctrld.py`) types on an
emulated keyboard, moves an emulated mouse, captures video and sound, switches mains power, moves
files and tells any number of callers what the machine is doing. The callers are a command line
client, a benchmark harness, an MCP server for agents and browsers. Paths below are relative to
the repository.

The modules here model the parts of the program where several threads, callers or processes share
state. TLC checks them on small instances, and TLAPS proves the facts that matter most for
every value of the constants.

## 1. Inventory

One daemon holds one `Instance` per profile: `Devices` (keyboard and mouse), a `Registry` with an
event bus, an input log, an activity list and an `Arbiter` (the input lock), and the profile's
capabilities. Every connection on the unix socket is a thread, the web server has a thread per
request and per WebSocket, and most capabilities run threads of their own. There is no global
lock: each part has its own, and most calls take several of them one after the other.

| Part | State | Operations | What is hard | What makes it correct | Module |
|---|---|---|---|---|---|
| Input lock (`Arbiter`, vcctrld.py:2566) | owner | acquire, release, break, check | a command is checked once and runs later; no lease | only the owner, or a command checked before the lock changed hands, drives the target | `InputCore` |
| Keyboard and mouse (`Devices`, 1695) | held codes, HID report | type, hold, combo, key, keydown/up, mouse, release_all | operations of many codes, a HID host that goes away, rollover | operations do not mix; what is down can be let go | `InputCore`, `KeySessions` |
| WebSocket input (vcweb.py:1768, 2124) | keys a tab holds | down, up, release, close | release on close competes with the lock and with others' keys | a closed tab holds nothing | `InputCore` |
| H.264 sidecar (5680) | viewer count, process, ring | acquire, release, feed, read, au_after, thermal kill | old and new processes side by side, refused viewers, ring overrun | the process lives as long as its viewers; streams start on a keyframe and go forward | `H264Sidecar` |
| MCP lock manager (agent/vcctrl_mcp.py:278) | remembered lock, sticky flag | ensure, release, mark_sticky, idle watch, gated run | memory and daemon are two states with a subprocess between, which may time out or fail | the lock is ours only while somebody needs or keeps it | `McpLock` |
| Opus stream (6163, vcweb.py:2247) | listeners, process, generation, pages | attach, detach, read, serve, stop | a process is replaced while listeners read | headers and pages of two processes never mix; there is one only while somebody listens | `OpusStream` |
| Power, LEDs, boot profile (2830, 3081, 3642, 8319) | epoch, proof, profile | power, sample, snapshot, verify, establish, invalidate | readings that arrive late, a cycle nobody observes, unlocked samples | nothing is claimed that was noticed before the plug was last found off | `TargetState` |
| Mains plugs (821–1647) | KLAP sessions, the last Wemo port | state, set, retry | one session counted up by two threads, a plug that moves, replies that are lost | what a call says was so during the call | `Plugs` |
| Capture watchdogs (4730, 6090, 6770) | owned, process, state, failures | acquire, release, watch | stop and restart race, stale copies | none left behind, replaced only when it exited, tried again for ever, a state that follows the picture | `CaptureWatchdog` (video) |
| Frame ring (4615–4963) | frames, bytes, pins | push, thin, pin, expire | cap against pin | the byte count is exact, a pin keeps what it promises and ends | `FrameRing` |
| Evidence (4357–5505) | scores, kept bad frames, the last good frame | timeline, AVI, shot, decode | snapshots of a ring that goes on, files that share a name | a score, a recording and a shot are of the frames they are said to be of | `Timeline`, `Recording`, `BadFrames`, `Shots` |
| Bus, input log (2318, 2381) | sequence, deque, files | publish, since, tail, rotate | pagers against a bounded deque, restarts, rotations that end half-way, short writes | a pager knows when it missed something; rotation loses no line early | `EventBus`, `InputLog` |
| Caps tracking (12642) | believed toggle | press, set, load | presses nobody read, nodes that go away, saves that fail | the remembered state is the target's | `CapsTrack` |
| Pointer queue (12542) | merged move | queue, run, wait | merge while sending, cancelled moves, a lock that changes hands | no pixel lost, no answer before one's own move is dealt with | `PointerQueue` |
| Mass storage and uploads (6859–7245, 11750–11836, 12890–13100) | partial and published files, LUN attributes | stage, mount, eject, build | chunks that overlap, repeat and restart; writes that fail | a published file is one upload, whole; an exposed image is as one request asked | `Staging`, `MsdLun` |
| File jobs (8625–10127, 10442–10731, 11231–11910) | job, in_net, queue, stage, incoming | stage, send, pull, scan, cancel, clear | a machine seen through one LED and through files that land; late resets, lost chords, broken transfers, files replaced in mid-run | what is said of the machine and of the files is true; nothing is typed blind; every job ends | `FileJobs` |
| File server, pulled files, listings (10747–12014) | probe cache; copies and sidecars; one JSON file | start, dial; keep, clear, save; read, save, ask | answers that are old when used; a reader between two writes | offered on a recent answer; a saved copy is one copy; a failed attempt hides no listing | `FileServer`, `PulledStore`, `ListingStore` |
| Profiles, registry (13250–14300) | instances, sockets, a thread's configuration; capabilities and routes | find, build, bind, serve; resolve, start, route | one thread serves several machines; a class that fails half way | who serves a profile reads its configuration; three states, never two | `Profiles`, `Registry` |
| Boot selection (bin/vcctrl_common.py:660, 885) | armed LEDs | arm, restart, wait, probe | lamps that lag, an earlier start, a machine that resets by itself | "ready" follows a start that happened | `HarnessBoot` |
| Public mirror (daemon/vcweb_public.py) | listeners, headers, epoch | register, relay, poll | listeners that join between headers and pages | headers first, then no gap | `AudioRelay`, `EventBus` |
| Mouse split (2052) | none | split | signed bytes | the parts add up | only the split of `mouse_px`, in `PointerQueue` |

Not modelled, with reasons in `PROJECT.json`: screen decoding and sound analysis (pixels and
samples), the experiments themselves and the editing of files at the prompt (sequential; they have
no state that others see), browser pages, installation, firmware and the programs for DOS. Several
components are modelled in part; their notes say which part.

How the parts meet: the MCP server and the harness take the arbiter's lock through the socket;
every gated command passes the arbiter and then `Devices.lock`; a WebSocket thread is at once a
sender of commands and a viewer of the frame ring or of the sidecar; the LED sampler invalidates
the boot profile; a power action moves the epoch that voids the LED proof; file jobs send
reboot combinations through the same gated commands as everybody else.

The hazards this list leads to are in `PROJECT.json` under `hazards`, each at its line, with the
properties that cover it or the reason why none does. Six more are of a kind with these and are only
written down here: `mouse_down` holds a button until `mouse_up`, and `serve_ws` releases keys only,
so a button of a closed tab stays down (2189); `release_all` lifts the keys of every client
(vcctrld.py:2029, see `CloseReleasesOwnKeys` below); lock events are published after the arbiter's
lock is given up, so they may be out of order (2600); `ensure` answers from memory after a break
(agent/vcctrl_mcp.py:297, `AnswersAreTrue`); `lock_acquire` looks for a job first and takes the lock
later (1359, `NoHoldOverJob`); a reply to the mirror is cut to a page, and it goes on from the
newest number instead of the last it was given (`MirrorWalks`).

## 2. Modules

### InputCore, KeySessions

`InputCore` composes the dispatcher, the arbiter, `Devices` with both backends, the socket
connections and the WebSocket viewers of one profile. Its threads are `Sockets` and `Viewers`.

| State | Code |
|---|---|
| `owner` | `Arbiter.owner` |
| `busy` | the thread inside `Devices.lock` |
| `held` | `Devices.held` and `Devices.held_mouse`, whose codes are disjoint |
| `hidKeys`, `hidBits` | `_hid_keys`; `_hid_mods` and `_hid_mouse_buttons` |
| `down`, `plugged` | what the target sees; whether the HID host takes reports |
| `strokes`, `toPress`, `pressed`, `sweep` | the local variables of the operation inside the lock |
| `pc`, `req`, `open`, `mine` | each thread's progress and request; the pump and the local `held` of `serve_ws` |
| `overtaken`, `presser` | history, for the properties only |

`Dispatch` is the check of `Registry.dispatch`; `TakeDevices` is `with self.lock`; every later
action writes one event or one report and so is one point at which a HID write can fail: `Emit`
leaves the target as it was and `Leave` abandons the operation, which is what the exception does.
`type`, `key`, `hold`, `combo` and `mouse_click` are lists of strokes (codes pressed in order and
released in reverse), because that is what their loops send. Left out: pacing, the coordinates of
a movement, logging, and the text of replies.

`MCInputCore` lists what each client may send, in three settings: contenders for the lock
(`Input.cfg`), two tabs (`InputTabs.cfg`), and a HID host that goes away (`InputHost.cfg`).

`KeySessions` is what the component promises to the target: input arrives in sessions of one
client, in which codes go down and up in any order, and a session that ends leaves down
only what it leaves held. `InputCore` implements it with `session <- busy`.

### H264Sidecar

`viewers`, `proc`, `running`, `ring`, `seq` are the fields of the class; `alive`, `fed`, `wrote`,
`made` and `reader` are the ffmpeg processes and the two threads each of them has, which go on
for a while after their process has been replaced; `conns`, `ok`, `last` are the
locals of `serve_ws` and `_ws_pump`; `leased` and `shown` are history. Actions that hold the
sidecar's lock are single steps; the reader's loop test, read, push and last assignment are four.
An access unit is its process and its number, and every `Gop`-th is a keyframe.

### McpLock

`heldFlag` and `sticky` are the fields of `LockManager`, `owner` is the daemon's arbiter and `pc`
says how far each tool call is through `ensure`, its command and `release`. A change of memory
under `_state_lock` is a step, and the subprocess call after or before it is another. A call to the
daemon may fail or time out (165): it never got there, or it was served and its answer lost, or it
is served when the caller has long gone on (`astray`, one of each kind at a time). Then `ensure`
refuses with `_held` as it was, and `release` has forgotten the lock without giving it back: history
has that as `abandoned`, until the daemon next answers an acquire or a release. Jobs hold the lock
under an identity of their own, as `JobManager.launch` starts them. Not modelled is the end of the
server, which gives up what it remembers. It is run and proved about as a part of `Parts`.

### OpusStream

`listeners`, `proc`, `generation`, `headers`, `headersDone`, `ring` and `seq` are the fields of
`AudioCapability` under `opus_lock`; `alive`, `bornAs`, `made` and `reader` are the ffmpeg processes
and the `_opus_read` thread each of them has; `stage`, `gen`, `last`, `greeting` and `pending` are
where each `_serve_ws_audio_opus` thread is and its locals. `heard` is history. Every `with
opus_lock` block is one step; reading the pipe and writing to a socket are steps of their own, and
so is the end of a reader's loop before it takes the lock for the last time. A page is its process
and its number, and the first `HeaderPages` are headers. `Popen` may raise, and a process may die at
any time with pages left in its pipe. Left out: the thread that feeds samples to the encoder, which
keeps nothing the stream depends on, and page sizes (the ring counts pages).

### CaptureWatchdog

The video capability's ffmpeg, its readers, its watchdog and the `video release` and `video
acquire` commands of other clients. `proc` stands for `proc` and `owned`, which are set together
under the lock; `alive` and `reading` are the processes and their `_read_frames` threads; `victim`
is the local `proc` of a thread in `_release`, between clearing the record and the kill; `looked`
and `verdict` are the copy the watchdog took of the record and what it says of the picture. A pass
of the watchdog is a step for each time it takes the lock or waits. `kept` and `still` abstract the
ring to what the verdict asks of it: whether there are `FROZEN_RUN` frames and how many of the
newest are identical. Chance decides whether `Popen` succeeds, when a process exits, whether it had
been up for 5 s and whether a pinned ring drops a frame. `last_good` and what is published are left
out, and so is `stop()`, which nothing in the daemon calls. The watchdogs of audio and camera take
the same steps with a verdict that knows no frozen picture.

### FileJobs

`TransferJob`, `PullJob` and `ScanJob` with the steps of `NetJob` they share, the driver they act
through, the staging calls and the queue. One job runs at a time (`_file_send` and its siblings
refuse while one does), so a job's state is a set of plain variables: `at` is its program counter,
`leg` which of its reboots it is in, `tries`, `inNet`, `todo`, `sent`, `failed`, `snap` its fields
and locals; `began` and `home` are history. Jobs follow one another without end. The target is
external: the profile it is in, the LED, chords under way, the card, the batch file it runs and the
line typed ahead of it, each moving on its own. It resets when a chord gets to it, or never; a
transfer creates its file, fills it, and may break at any point. `stage`, `meta` and `late` are the
staged files, their records and the records yet to be written; `got` is what has come back since
the job began to wait. Contents are numbers of uploads, and `Short` for anything cut off. Every
wait may end either way whatever the target does, which over-approximates the timeouts, and every
step may raise (`Crash`). Left out: the job history, `paranoid`, and the single chunks of an upload.

### TargetState

`powered` is the last reading of `TargetEpoch`, `proven` whether `_proven_epoch` is the present
epoch, `seen` is `_seen_values`, `profile` the name `TargetProfile` holds, of this boot or an earlier
one. `sample`, `plug` and `probe` are where each sampler, each thread at the plug and `verify_input`
are and the values they hold in between: what the plug said is remembered later than it was read,
and `_sample` reads the LEDs, compares and notes without a lock. The machine (`mains`, `led`) is
external: it is switched by hand, resets and moves its LEDs when it likes. `sinceOff` is history.
Left out: the record of LED changes, the audit and the refusal of the wrong plug.

`MCTargetState` runs it in two kinds of behaviour, since all threads with all lamps are too many
states: in "power" the plug and `verify_input` move beside one sampler and one lamp, in "lamps" two
samplers read and note two lamps in any order while the plug stands still, as the drop of the
profile on a lamp that goes out (3215) does not ask what the plug says.

### FrameRing, Timeline, Recording, BadFrames, Shots

`FrameRing` is `_push` with ageing, thinning and the cap, `buffer`, and the pins with their expiry;
all of it is under the capability's lock, so each is a step. A frame is an age and a size. The loops
of a push are rounds (`ExpireOnce`, `FitOnce`), as many as there are frames to lose. The other four
read that ring from request threads and take any but its newest frame for one that may go at any
time. `Timeline`: the score cache, which a request reads once and writes score by score while others
do; a score is the number of the frame it was compared with. `Recording`: what an AVI of a span
refuses, shows and repeats, as operators over every ring there can be. `BadFrames`: the number
counted and read under the lock twice, so that of two threads that decode at one place both may read
the number of the later (`overtaken`), the files written outside the lock, each of which may fail
(`torn`), the bounded record, the removal of what falls out. It is of one process: a restart begins
an empty record and leaves the files. `Shots`: the choice of a frame or of a reason, the wait for a
picture, and `last_good`, which the watchdog keeps, too. Left out: pixels and bytes; a frame is
blank, dark, bright or bad.

### EventBus, InputLog, AudioRelay

`EventBus`: `Bus.seq` and its ring, the page and the mirror, which ask from a number each, and a
restart, which starts the numbers anew; `given` is what each was sent since it was last told of a
gap. Each asks again when it has its answer; polls of one page that overlap are not modelled.
`InputLog`: lines are numbered as they are `written`, one thread at a time under the log's lock, while
others have `published` theirs. A rotation is one rename after the other from the oldest file down;
any of them may raise or be the daemon's last, which leaves a hole. `os.write`
may write a part of a line (`torn`), which the next line then runs into. `query` reads while no
rotation is under way.
`AudioRelay`: the thread that reads one connection and sends each page to a snapshot of the
listeners, each listener's thread, which sends the cached headers in `_register_with_headers` before
it has itself put on the list, and a socket that fails, goes or is shut; `epoch` names the stream.

### Plugs, FileServer, Registry, Profiles

`Plugs`: four backends as the steps of one call (connect or look up the session, send, the relay
switches, the reply comes, comes without a verdict or does not, retry), with the table of sessions
and the last good Wemo port shared by all; a plug that restarts forgets its sessions or moves.
`FileServer`: the start of the server, the cached dial of pages that poll and the fresh dial of a
transfer, with a clock. `Registry`: the loop over the capability classes with construction or start
failing anywhere; three classes stand for all. `Profiles`: discovery, the guard that one instance
drives the bridge, the build of those that are left, in their order, the web server and the sockets,
and `_CFG_CTX`, which a thread sets before it serves.

### PointerQueue, CapsTrack, HarnessBoot

`PointerQueue`: `_pq`, who added last, the numbers asked and done, the worker and the move in its
hand, cut into steps of `Widest`, one report each, at any of which writing may fail; `owed`, `gone`
and, among what is gone, `dropped` are history. `CapsTrack`: the latch, its file, which a save may
fail to write (`stale` says so of the file, and of a latch loaded from it), and the daemon's open
nodes against a target that takes each press at once. `HarnessBoot`: the whole of
`select_boot_profile`, `wait_cold_boot` and `at_prompt` with `wait_led` and `stable_led`, step by
step over a machine (`phase`, `led`, `keys`) and the lamps the Pi shows of it (`node`, `chan`). It
assumes that a machine restarts or loses power at most `MaxUpsets` times, and that the lamps are
`Steady` when the harness begins (nothing pressed and unserved, and lamps that are shown are the
machine's): an earlier arm whose chord was served late is read as the start that was asked for.

### Staging, MsdLun, PulledStore, ListingStore

`Staging`: chunks of `msd_stage` and `file_stage`, appended to a part file without a lock, and of
`share_stage`, kept under one; repeats, new attempts, broken writes, deletions, a restart of the
daemon, and `msd_build`, which looks for the name first and writes under it minutes later. Calls
for one name overlap as they like; `met` is history and says that two were at work on the part file
on disk at once. `MsdLun`: the four attribute writes of a mount, each of which may fail, an eject,
and `msd_build` beside them. `PulledStore`: bytes and then sidecar, in either direction, each of which
may fail, and `save_pulled` in between, whose calls may find no daemon or be cut off. A sidecar that
could not be opened for a new copy is still the old one's (`outlived`); a client that was not given
the list saves without a sha (`heard`). `ListingStore`: the file rewritten as a whole, read and asked
for while that goes on, in its old and its new shape; opening it may fail, which loses the reading,
and so may writing it, which loses what all directories had (`lost`).

### Parts, Evidence

`Parts` instantiates the modules of the last four headings, from `EventBus` to `ListingStore`, with
variables and constants of its own for each; `Evidence` does so with `Timeline`, `Recording`,
`BadFrames`, `Shots` and `FrameRing`. `Parts` holds `McpLock`, too. A behaviour is one of one part
(`moving`). Both are generic in their constants; `PartsProofs` and `EvidenceProofs` reason about
them, and `MCParts` and `MCEvidence` give TLC the constants that are functions, sequences or sets of
records.

Definitions whose comment begins with "Mutant" are not part of a specification: each is a slip one
could make in the code, and swapping it in makes TLC find the property named in `PROJECT.json`
violated.

## 3. Runs

Every `.cfg` starts with a comment that says what it is about. Constants that are sets of
threads, keys and viewers are model values; commands each thread may send are listed in the MC
modules.

| Run | Question | Bounds |
|---|---|---|
| `input` | the lock binds whoever is checked after it changed hands, whole chords and characters, what is down is on record, refinement, every operation ends | a sweep, an agent, a tab; two keys, two modifiers, one remapped against the other; uinput |
| `input_tabs` | a tab that is gone holds nothing | two tabs and a socket client, a HID report of one key, no foreign lock |
| `input_host` | a sweep lets go of what it forgets | two socket clients, a HID report of six keys, a host that comes and goes |
| `input_tab_locked` | finding | as `input`, nothing remapped |
| `h264` | the process goes when the viewers go; the count is exact until a refused viewer leaves; keyframe first, nothing goes back, deaths noticed | 2 viewers, 2 processes, ring of 2; in the `setting` "stream" 2 frames each, in "lease" 1, with throttling and `stop` |
| `h264_reload` | finding | 2 viewers, 3 spawns |
| `opus_stream` | one stream per connection, one encoder for whoever listens, deaths repaired, listeners of an old stream leave | 2 listeners, 2 processes, 4 pages each, ring of 1, generations to 3 |
| `capture_watchdog` | no ffmpeg left behind, none replaced for silence, a lost device taken again, a state that follows the source | 2 processes at a time, 1 client, a frozen picture is 2 frames |
| `file_jobs` | `left_in_net` and `ok` are true, what is cleared has arrived, nothing is typed over a command under way | a send, two fetches (one left in NET, one told so) and a scan in any sequence; one file staged twice, two on the card, one nowhere; one chord under way |
| `target_state` | a claim dates from after the last reading that said off; the reading catches up with the plug; a profile does not outlive a reset that shows | in "power" one sampler and one lamp, `verify_input`, the heartbeat, a client with state, on, off and cycle; in "lamps" two samplers and two lamps |
| `parts` | the agent's lock, plugs, file server, pointer, caps lamp, the harness' boot, profiles, registry, staged files, LUN, pulled copies, listings, bus, log, relay | below |
| `evidence` | the ring, timeline, recordings, bad frames, shots | below |

`Parts` and `Evidence` each hold several parts that do not interact, so that they share a run:
`moving` picks one of them in the initial state, and the others stay in one and the same initial
state. The states of the run are the sum of those of its parts, and nothing is said of their
composition. A property of such a run is the conjunction of what the named parts state of
themselves:

| Property | States |
|---|---|
| `LockIsGivenBack` | `McpLock`: `QuietMeansReleased`, which is up to a call to the daemon that failed |
| `LockComesBack` | `McpLock`: an agent that stops calling gives the lock back in the end, kept or not, unless a call that failed left it behind |
| `OthersToldTruly` | `Plugs`: `ToldTruly`, `RetryIsFresh`; `FileServer`: `OfferedIsRecent`, `GoIsRecent` |
| `InputIsFollowed` | `PointerQueue`: `NothingLost`, `SentComesAfter`; `CapsTrack`: `TrackedIsTrue` |
| `BootIsProven` | `HarnessBoot`: `ReadyMeansBooted`, `ProbeRestores` |
| `ProfilesStandAlone` | `Profiles`: `AnswersForItself`, `NamesReachTheirProfile`, `EitherPath`; `Registry`: `ThreeStates`, `VerifyInputBelongs` |
| `FilesAreWhole` | `Staging`: `PublishedWhole`, `FreshStartAccepted`, `ImageKept`; `MsdLun`: `ExposedAsAsked`; `PulledStore`: `RecordIsTrue`, `SavedIsOneCopy`; `ListingStore`: `LastReadableKept` |
| `FollowersMissNothing` | `EventBus`: `PageIsTold`; `InputLog`: `LogKeepsLines`; `AudioRelay`: `HeardFromTheStart`, `ListIsOfThisStream` |
| `RingWithinCap` | `FrameRing`: `BytesExact`, `PushFits` |
| `PinnedIsKept` | `FrameRing`: `PinKeepsRecent` |
| `HistorySurvives` | `FrameRing`: `HistoryKept` |
| `PinsEnd` | `FrameRing`: `AbandonedPinEnds` |
| `EvidenceIsTrue` | `Timeline`: `ScoreSkipsNothing`, `NewIsScored`; `Recording`: `RecordingIsTheCallers`; `BadFrames`: `KeptIsThere`, `DirectoryBounded`; `Shots`: `OnlyPictures`, `ReasonIsTrue` |

Their bounds are in `Parts.cfg`, with what is a function or a sequence in `MCParts`, and in
`Evidence.cfg`, `MCEvidence`. The agent's lock: two tool calls of every kind, an operator, jobs,
the idle watch, a break, one lost or late call of each kind. Plugs: two threads and 8 session
names, which is more than are ever in use at once. File server: a clock to 2, a cache and waits of
1, a page and a transfer. Pointer: two requesters of different identities, 4 requests, 3 pixels
either way, steps of 2. Caps: two keyboards with 2 unread presses each. Harness: one upset, two keys
not served. Profiles: two names and a primary, two requesters. Staging: two uploads of 2 chunks, two
threads, three kinds of store, a build. LUN: one image, two callers. Pulled: four copies, one of them
shorter. Listings: two directories, two readings. Bus: a ring of 3, pages of 2, 6 events to a daemon.
Log: 7 lines, of which 2 may be torn, files of one line before they are rotated, 2 rotated files, two
threads. Relay: two listeners, 2 headers, 2 pages and 2 streams. Ring: two leases, frames of 1 and
2, spans and caps of 1/4 and 1/8, memory short or ample; it is thinned from 6 frames up. Timeline:
two requests, 3 frames. Recording: every ring of frames up to time 9 with gaps up to 3. Bad frames:
two threads, two places, one kept, 4 failures. Shots: 4 frames, 3 in the ring.

Why the bounds are enough: in `InputCore` at most one thread is inside `Devices.lock` and at most
one changes the owner at a time, so three threads give every order of check, change of owner and
entry; two keys and two modifiers suffice for a chord with a stray key, and a rollover of one for an
eviction by every second press (six keys would need seven to see the same). In `H264Sidecar` the
interesting overlaps are of a process and its successor, and `OneEncoder` needs three because the
second is the one wrongly marked. In `CaptureWatchdog` a process is replaced under the watchdog's
nose by one client, and two processes at a time are the one it saw exit and the one it then finds on
record. In `FileJobs` jobs run one at a time and hand on nothing but the target and the stage, all
of which the run explores from every state jobs leave them in; two uploads of one name are the
version sent and its successor, two files fetched give a next command to type after one that failed.
A second chord that is still under way when another is sent does what one chord does later.
`McpLock` has no counters, and a call can meet another call, the idle watch, a job, an operator and
a call that went astray at the daemon. In `FrameRing` six frames are the fewest of which thinning
takes any: the oldest third has two, and one of them goes. In the parts every hazard is a meeting of
two: two threads, two copies, two streams, a page and the ring it lags behind.

Fairness is assumed only where the code has a thread that waits for nothing but time: the thread
inside `Devices.lock` (`OperationsEnd`), the reader threads of the sidecar (`DeathNoticed`), a
tool call that has begun and the idle watch (`LockComesBack`), the reader of a process that has
ended its pipe (`DeathRepaired`) and a WebSocket thread whose client reads or goes
(`OutdatedLeaves`); that a live encoder produces anything is not assumed. `target_state` assumes
that the poller goes on, that what was read is remembered, and that a plug that is asked again and
again at last answers (`PowerIsFollowed`, which is `PowerCatchesUp` where the plug moves, would be
false of a plug that never does); `evidence`
assumes, where the ring moves, that time passes and that the watchdog goes on looking at the
leases (`PinsEnd`). Python's locks are not fair, so nothing is claimed of a thread that others
could keep from a lock for ever: the critical sections here are short, and each fairness condition
is on the step that waits for its turn once.

No fairness is assumed for `file_jobs`: that its jobs end is stated as a count that every step of
the job lowers (`CountsDown`, proved, see section 5), and every wait of the code has its timeout, so
none holds it up for ever.

Deadlock is checked in every run but `opus_stream`, where `stop()` ends the component, and `parts`
and `evidence`, where parts come to an end of their bounds or, like the registry, of their work.

## 4. Findings

Runs that are expected to fail each show one disagreement between the program and what its
documentation, comments or tests say; `PROJECT.json` quotes the lines.

* A tab that closes under somebody else's lock leaves its keys down (`input_tab_locked`).
* A reloaded page can leave two encoders running (`h264_reload`).

The modules state more properties that the code does not have, each with the comment it restates.
They are not runs. For a module that has a run of its own put the name under `PROPERTY`, or
`INVARIANT` when it speaks of single states, of the `.cfg` named here, with the constants changed
as said; for a part of `Parts` or `Evidence`, which are named without their modules below, add a
definition there, of the form `Walks == EventBus!MirrorWalks`, and name that.

| Property | Take | With |
|---|---|---|
| `ExplainedDown`: every key the target sees down is on record or being driven | `input` | `Hid`, `Unplugs` TRUE: a report that fails leaves a code in the report without a record |
| `NoForeignInput`: under a lock only its owner drives | `input_tab_locked` | as it is: a command checked before the lock was taken drives after it. What does hold is `LockHonoured` |
| `CloseReleasesOwnKeys`: closing a tab lifts no key of another | `input_tabs` | as it is: `release_all` is for everybody |
| `StrictSequence`: a viewer is sent every access unit in turn | `h264_reload` | one viewer, one spawn, `MaxFrames` 4, `Gop` 3, `RingLen` 2: the ring overtakes a slow viewer |
| `EachGivesBackItsOwn`: a release gives back a count that was taken (vcctrld.py:5681) | `h264_reload` | `Throttles` TRUE: `serve_ws` releases for a viewer that was refused for heat, too (vcweb.py:1827), and stops the encoder somebody else watches |
| `TakenIsOnTarget`: what a run takes from the queue the target has (vcctrld.py:9660) | `file_jobs` | as it is: a newer version staged while the older was being sent is cleared by name (9665) and is on neither side |
| `DrivesUnderLock`: a gated command drives under the lock that was ensured for it | lock | as it is; one other, no idle watch, break or jobs are enough: the first of two calls to finish releases the lock the other is about to drive under (vcctrl_mcp.py:516) |
| `AnswersAreTrue`: an `ensure` that says the lock is held is right | lock | as it is, or with one tool only: it answers from memory after a break |
| `PromiseKept`: a lock acquired for keeps stays | lock | as it is, or with one tool only: a release under way of the idle watch undoes it |
| `QuietAlwaysReleased`: "RELEASES THE LOCK AFTER THIS ONE ACTION" (vcctrl_mcp.py:496) | lock | as it is: an acquire that times out after the daemon has granted it, or a release that fails, leaves a lock nobody remembers |
| `LockAlwaysComesBack`: "automatically after 300s idle" (docs/MCP-SERVER.md:86) | lock | as it is: the idle watch looks at what is remembered |
| `NoHoldOverJob`: no session lock over a running job | lock | as it is, or with one tool only: a job starts between the check and the acquire |
| `LiveMeansCaptured`: nothing is called live for ever that nobody captures | `capture_watchdog` | `SPECIFICATION NoFfmpegSpec`: while ffmpeg cannot be started, the retry branch leaves the state at `locked` |
| `PinStopsEviction`: under a pin no frame is freed (vcctrld.py:4916) | ring | as it is: frames go when they are older than the span, pinned or not (4700). What does hold is `PinKeepsRecent` |
| `ProofSurvivesNoStart`: a claim is about the boot that runs (2863) | `target_state` | as it is: what was noticed while the readings were unsure stays claimed over a start that no reading showed |
| `OutlivedIsAlwaysDropped`: a profile does not outlive a reset the lamps show | `target_state` | as it is: a sampler that notes what it compared before the lamp was lit after another has seen it lit hides the edge (3165–3218) |
| `OkMeansDone`: a set that did not raise was done | plugs | as it is: of a reply without `err_code` or `error_code` the verdict is None, which is let pass (898–899, 1588–1592) |
| `TornNever`: a call fails only if the plug did not answer | plugs | as it is: two threads count one KLAP session up between sealing and sending |
| `OthersMovesDropped`: a pending move is dropped once the lock has passed on (12555) | pointer | as it is: it is judged by whoever added to it last |
| `SentMeansSent`: a call returns once its own move is sent (12552–12553) | pointer | as it is: one that was dropped is answered `sent`, too (12572, 12602) |
| `WrongOnlyIfMissed`: the latch goes wrong if a press is missed (12661) | caps | as it is: a save that fails unnoticed (12702–12711) leaves an old one for the next daemon to load |
| `PageIsToldOfRestarts`: a page is told of every gap (2361) | bus | as it is: one that does not learn of a restart is told nothing of the first events of the new daemon |
| `MirrorWalks`: the public mirror pages forward (2363) | bus | as it is: it goes on from the newest number (vcweb_public.py:728–742) |
| `AllFilesAreUsed`: lines are lost only where `KEEP` files are full (2410) | log | as it is: a rotation that ended half-way leaves a gap, and the next one fills it from the younger side |
| `FilesAnswer`: the file answers what happened last night (2394) | log | as it is: between a rotation and the next line there is none, and `query` answers from memory (2490, 2514) |
| `WholeLinesAreRead`: every input the daemon sent can be read (2382) | log | as it is: a line after one that was written in part runs into it (2454) |
| `AlwaysPublishedWhole`: no half-written file under its name (11898–11900) | staging | as it is: of two calls at once, a first chunk between the other's hash and its rename (7217–7243) changes what is published |
| `ImageAlwaysKept`: an image that exists is not replaced (7097, 7177) | staging | as it is: the name is looked up with the first chunk, and what was built since is replaced with the last (7243) |
| `WholeExposed`: only whole images are exposed | lun | as it is: `msd_build` works under the image's own name |
| `RecordIsAlwaysTrue`: a lost sidecar is reported as unknown rather than invented (11462) | pulled | as it is: where the earlier copy's could not be opened for the new one, it stays and is reported |
| `RecordedIsChecked`: a saved file is compared with the sha the daemon recorded (vcctrl-client:740) | pulled | as it is: a list that is not answered is taken for an empty one (803) |
| `TwoValued`: after a save `path` holds the file or does not exist (vcctrl-client:732) | pulled | as it is: a reply that is cut off raises what is not caught (485, 813), and leaves the chunks so far |
| `LastIsAlwaysKept`: the last readable listing and the last attempt are both stored (11542–11552) | listings | as it is: opening or writing the file may fail (11569), and one that is torn loses every directory's |
| `ScoreStays`: a score cannot change (5122) | timeline | as it is: frames are thinned away between the snapshots of two requests |
| `KeptIsAlwaysThere`: names cannot repeat however fast failures arrive (5060) | bad frames | as it is: two threads at one place that both read the number after both have counted share a name, and the older record's removal takes the files of the newer |
| `BlankIsWaitedOut` (4373), `GoodIsTheLast` (5505) | shots | as it is: two blanks on an analog source are called repeats and not waited out; a shot keeps the brightest of its window after the watchdog kept a newer frame |
| `EitherPath` (14063) | profiles | `SameName` TRUE: nothing compares the primary's name with those of the other files |

Reading the file jobs against their comments turned up more that the module does not state, since
it follows from a line: a scan that could not arm the LED sends its chord and then says that it
refuses to reboot (vcctrld.py:10100); a job that found the machine in NET and was refused before
its reboot, or whose proof did not come with `already_net`, says `left_in_net` false, which is why
`LeftInNetIsTrue` has its premise; `complete` of a fetch is true when its last file came short
(9872), where bin/vcctrl-client:1865 has "`complete` says everything asked for was done".

The other modules left as much beside their properties, each from one or two lines:

* A thread that nobody bound reads the primary's configuration, as the docstring at vcctrld.py:172–185
  says; the watchdogs, the LED poll and the threads started bare at 10543, 10613 and 10657 are such.
  Two profiles on the HID gadget are not kept apart the way two on the bridge are.
* "every capability is fully constructed before any start() runs" (13253) is not what the loop
  does: it constructs and starts one class after the other (13359–13385).
* Two first moves can each start a worker (`_pq_start`, 12578), since the test is not under the lock.
* A page that asks for a listing during a write is told that nothing was read; what the old shape
  of the file held is filed as an attempt under the directory of its listing.
* `GET /pulled` (vcweb.py:755–795) sends bytes without comparing their sha, and `save_pulled` accepts
  what it cannot compare once a clear has removed the record.
* A write of a bad frame that fails leaves what it had written, and nothing removes it, nor what a
  restart finds of the process before: `DirectoryBounded` is of the rest. "all N candidate decodes
  failed" is also said when some decoded flat, and the `state` a shot reports was read before its
  wait.
* The harness takes an ignored chord and a reset nobody asked for together as the start it asked for.
  A page of the log that was loaded before a restart asks from a number the new bus has not reached.

## 5. Proofs

All proofs are for every value of the constants allowed by the named assumptions of the modules.

* `InputCoreProofs`. `IndInv` strengthens `TypeOK` and `LockHonoured`: the thread inside
  `Devices.lock` is exactly the one at work (`LockUse`), its request was well formed when it was
  checked (`RequestsOK`), nothing of an operation is left outside the lock (`NoLeftovers`) and a
  report names a key once (`KeysOnce`). With a host that stays (`~(Hid /\ Unplugs)`, a premise
  that is needed, see `ExplainedDown` above), `ReportInv` adds that the report is what the
  target sees and that a sweep still has every down code ahead of it; from it follow
  `DownIsExplained` and, step by step, `ImplementsKeySessions`.
  `SweepLetsGo` needs neither: `SweptInv` says that what a sweep has dealt with is neither down nor
  in the report, which a host that goes away and returns cannot undo; a write that fails ends the
  sweep before anything is taken off the record.
  `ClosedViewersHoldNothing` rests on `ViewersOK` and `HeldForViewers`: a key held for a viewer is in
  its `mine`, or the viewer has an operation under way that lifts it. A premise is that no other
  identity takes the lock (`NoForeignLock`), without which it is false: that is the finding
  `input_tab_locked`.
  `StrokesReachWhole` adds what is in the hands of the operation: no code twice (`HandOK`), and a
  chord that climbs by rank, with every modifier down or ahead of the first key (`ChordOK`). It is
  false with more keys than a report holds (`KeysFit`: the oldest is evicted), with two codes
  remapped to one (`RemapApart`: lifting one lifts the other) and for a request that names a code
  twice (`NoRepeats`).
* `H264SidecarProofs`. `TypeCorrect` uses that a push never makes the ring longer than its bound.
  `IdleEncoderIsStopped` needs that the count never exceeds the number of connections and that zero
  means no process (`Counted`): a wrong release can only make the count too small. `CountIsExact`
  says that the count is exact until a refused viewer leaves or the sidecar is stopped, and
  `EachGivesBackItsOwn` of section 4 shows what happens after.
  `DecoderStartsOnKeyframe` rests on `NothingYet`: a pump that has sent nothing has no sequence
  number. `NothingReplayed` rests on `InOrder`: of one process, what has the higher number in the
  ring is the later access unit, and what is left in the ring beyond `last` of a viewer comes after
  what it was shown. The push of a unit takes its number under the lock while its reader is between
  two reads, so `Past` says which units of a process can still come.
* `OpusStreamProofs`. `StreamInv` is what makes `OneStream` inductive. `Births`: only the process
  on record was born with the current generation, so a reader that passes its test is that
  process's. `OwnPages`: the headers are the first pages of the process on record and the ring
  counts its pages as the stream does (`seq - x.seq = Kept(proc) - x.page.n`). `Following`: a
  connection of the current generation is in step with the ring, and one of an older generation
  only finishes what it holds. A step that starts or ends a process moves the generation, which
  makes every connection one of an older generation at once; that is the whole argument, and the
  reason why ending a process has to move it too. `TypeCorrect` is proved with `StreamInv`, because
  a greeting must have a last page. `EncoderOnlyForListeners` adds that the count is the number of
  attached threads (`CountInv`).
* `CaptureWatchdogProofs`. `HandsInv` makes `NoOrphan` inductive: only a thread about to kill has a
  victim, so clearing the record never overwrites one, and a new process gets a number nobody
  refers to. It also says that what the watchdog is about to clear away was seen to have exited,
  which is `RespawnedOnExitOnly`.

* `FileJobsProofs`. `LeftInNetIsTrue` rests on `LeftInv`: a job notes that it takes the target to
  NET before the first chord that could get it there; the LED that goes out after the job put it on
  shows that the target did restart; and nothing on the way back selects NET. So wherever the job
  breaks off, the target is in NET only when the job has noted so. `TypeCorrect` is proved with
  `PlacesInv`, which bounds the chords of a reboot. `JobsCountDown` lowers a count by every step of
  a job: chords left in this reboot, reboots left, places left on this leg and files left, each
  weighted by the work that follows it; the sizes of the sets of files are natural numbers because
  the files are finitely many (`Sizes`), and `GateInv` says that the gate is only met on the way out.
  `TypesAtThePrompt` rests on `PromptInv`: a job that rebooted the target has it at the prompt with
  nothing typed ahead, and one that has its answer is past the command it typed, whatever else a
  wait may have said. `OkIsDelivered` and `TakenWasDelivered` rest on `FilesInv`, where each file the
  job was asked for is (still to do, sent, failed or in hand), and on `SentInv`: what was verified is
  on the card, and neither the batch file nor the line typed ahead holds a command that would fetch it
  again. The last part is what makes it inductive, and needs `PromptInv`.

* `TargetStateProofs`. `ClaimsAreSinceOff` is inductive once the types are known: while off is the
  last reading nothing is claimed, and the next one that is not off is a transition, which voids
  whatever was noticed before. It needs that off is not what an unsure reading is remembered as
  (`TargetAssumption`).

* `PartsProofs` proves what the run `parts` checks, part by part and then for `Parts`: each part
  sees of every step one of its own or none (`EachItsOwn`), so a behaviour of `Parts` is a
  behaviour of every part (`PartsBehave`). One inductive invariant per part:
  * `Accounted`: when the daemon's lock is ours the manager remembers it, or a call on its way
    will make it remember or give it back, or one failed and none was answered since (`abandoned`,
    which only failures set); `FootprintIsMinimal` and `LockIsAlwaysGivenBack` follow.
  * `RelayInv`: where each listener is in the stream. One that joins has as many headers as it
    counts; one on the list has all the pages up to the one in hand (`OnTheList`), and between two
    streams nothing. It rests on headers being cached before a page is passed on.
  * `BootInv`: what a lamp can show, and which keys are not served yet, since a machine began to
    start. A lamp that was seen armed and goes out went out at a POST (`ArmedOK`), a cold machine is
    shown as it was before (`ColdOK`), and the keys a probe has pressed, served or not, lead Num Lock
    back to where it was (`NumOK`). The number of upsets and of unserved keys is arbitrary.
  * `LunInv`: an attribute is written while no image is shown (`MountAt`). `PulledInv`: the record
    beside a copy is that copy's or has outlived its own, and a client that was given a sha saves what
    has it. `ListedInv`: a reading that is not saved is
    missing under its own directory only, and what is missing elsewhere was lost with the file.
    `StagedInv`: until two calls meet one works on a part file, and the chunks that came in a row are
    the file.
  * `ServerInv`: a dial finds what the address answered since it began, and a cached verdict is no
    older than a dial. `RegistryInv`: the capabilities looked at are split three ways, and each
    command is entered by one that runs or is off. `ProfilesInv`: a thread that serves has the
    instance it named and that one's configuration; the proof counts the names of files to find
    that each instance bears one of its own.
  * `BusInv`: the ring is the newest events in a row, and what the page was given since it was told
    of a gap is a row up to the number it asks from. `LogInv`: files follow each other in the order of
    writing and each was full when it was rotated, the one a rotation is about to fill is empty, and
    they reach back to the first line unless the oldest place is taken.
  * `PointerInv`: what is owed is what is pending and what is left of the move in hand (`HandHolds`);
    the steps of a move telescope to its whole (`SentAfter`). `CapsInv`: what is remembered is the
    target's state up to the parity of the presses to be read, and one press changes the parity of an
    odd number of keyboards, whichever (`OneMoreOrLess`). `PlugInv`: a reply that is under way is of a
    state the relay had since the call began, and a second attempt neither has nor finds on the table
    the session of the first; that there always is a session number to give a plug that has one live
    session is a pigeonhole over `Sessions` (`NewSession`).

  One premise is needed, which an entry of section 4 shows: `ProfilesDoStandAlone` has `~SameName`.

* `EvidenceProofs` proves what the run `evidence` checks of the ring and of those who read it, put
  together as in `PartsProofs`. The library's induction takes an operator, which the installed provers
  cannot instantiate; here induction is over a set of numbers (`NatSetInduction`), from the
  well-foundedness of `<`, and `Repeats` carries what one round keeps through any number of rounds.
  * The ring. `Total` is defined by a choice of running sums, so they are shown to exist and to be
    unique before anything is computed with them (`SumExists`, `SumUnique`, `TotalIs`). Thinning
    keeps every other frame of the oldest third: the sums of what is kept and of what is freed run
    beside the sum of the whole (`ThinningAddsUp`). So each round of expiring and of making room
    keeps the count exact, and `FittedFits` shows that as many rounds as there are frames reach
    the cap or the last frame. `ExpiredLosesOld` gives `PinnedFramesAreKept`, since a pin leaves
    expiry as the only loss; `FittedKeepsHead` gives `HistoryDoesSurvive`.
  * The timeline. Each request works on a copy of the ring (`CopiesStay`): a frame the ring still has
    and that is as old as the copy is in the copy, so the neighbour it is compared with is the one
    captured before it among those that are left.
  * Recordings. A median exists and is one of the waits; when all are equal it is theirs.
  * Bad frames. The names in the hands of threads and on record are apart, but for those that were
    `overtaken`, and what is on record has its files, but for those; the removal of what falls out takes
    no other's name. `DirectoryIsBounded` counts what is on record and in the hands
    of threads; what a failed write left behind is not counted, see section 4.
  * Shots. The reason a shot gives is true of what it looked at since it was found.

With these every safety property of the runs is stated by a theorem, under the premises named
above. Only model-checked is liveness, since the prover does not reason about fairness or
`ENABLED`: `OperationsEnd`, `LockComesBack`, `PinsEnd`, `DeathNoticed`, `DeathRepaired`,
`OutdatedLeaves`, `CaptureRetried`, `StateFollowsSource`, `PowerIsFollowed`, `OutlivedIsDropped`.

## 6. What is left

* Compositions: `McpLock` over the arbiter of `InputCore`; `FileJobs` with a lock taken in mid-job;
  `Timeline` and `Shots` over `FrameRing` itself.
* The split of long mouse movements (2052), the pulse that tells a machine is ready, mouse buttons
  of a tab, the order in which lock events are published, the job files of the MCP server, the pages
  the mirror caches.
