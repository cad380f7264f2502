----------------------------- MODULE InputCore -----------------------------
(***************************************************************************)
(* Keyboard and mouse output of one profile: the dispatcher with its       *)
(* input lock, the Devices object that owns the keyboard and mouse at the  *)
(* target, the unix-socket connections that send commands and the web      *)
(* viewers whose held keys are released when their WebSocket closes.       *)
(*                                                                         *)
(* A thread of the daemon is a member of Threads: a socket client (one     *)
(* connection per command) or a WebSocket viewer (one thread per           *)
(* connection).  The daemon has two locks here: the arbiter's, under which *)
(* a check or a change of the owner is one step, and Devices.lock, held by *)
(* `busy` for a whole operation.  A command is checked against the arbiter *)
(* first and takes Devices.lock later, in another step.                    *)
(*                                                                         *)
(* What reaches the target is a set of codes that are down.  A chord, a    *)
(* typed character, a tap and a click are all strokes: codes pressed in    *)
(* order and released in reverse.  Pacing, pointer coordinates and the     *)
(* text of replies are left out.                                           *)
(***************************************************************************)
EXTENDS Naturals, Sequences

CONSTANTS
    Sockets,    \* threads that serve clients of the unix socket and of /cmd
    Viewers,    \* threads that serve a browser's WebSocket
    Owners,     \* caller identities, the `as` of a request
    As,         \* the identity each thread's requests carry
    NoOwner,    \* the lock is free
    Nobody,     \* Devices.lock is free
    NoRequest,
    Keys, Mods, Buttons,
    Chars,      \* what `type` accepts
    CharMap,    \* CHARMAP: a character's keycode and whether it needs shift
    Shift,      \* KEY_LEFTSHIFT
    Rank,       \* press order of a chord: MOD_ORDER, then everything else
    Remap,      \* the profile's key_remap
    Asks,       \* the requests each thread may make
    Hid,        \* backend hid-gadget, else usb4vc-uinput
    Rollover,   \* keys one HID report carries (6 in the code)
    Unplugs     \* the HID host may stop listening

Threads == Sockets \cup Viewers
KbdCodes == Keys \cup Mods
Codes == KbdCodes \cup Buttons

ChordCommands == {"key", "hold", "combo", "type", "mouse_click"}
PressCommands == {"keydown", "mouse_down"}
LiftCommands == {"keyup", "mouse_up"}
SweepCommands == {"release_all", "mouse_release_all"}
MoveCommands == {"mouse_move"}
GatedCommands == ChordCommands \cup PressCommands \cup LiftCommands
                   \cup SweepCommands \cup MoveCommands
LockCommands == {"acquire", "release", "break"}

Request == [cmd : GatedCommands \cup LockCommands, args : Seq(Codes \cup Chars)]

\* The arguments that get past the command handlers: characters for `type`,
\* buttons for the mouse commands and keys for the rest, one for an event.
WellTyped(r) ==
    /\ r.args \in CASE r.cmd = "type" -> Seq(Chars)
                    [] r.cmd \in {"mouse_click", "mouse_down", "mouse_up"} -> Seq(Buttons)
                    [] OTHER -> Seq(KbdCodes)
    /\ r.cmd \in PressCommands \cup LiftCommands => Len(r.args) = 1

ASSUME ThreadAssumption ==
    /\ Sockets \cap Viewers = {}
    /\ Nobody \notin Threads
    /\ NoOwner \notin Owners
    /\ As \in [Threads -> Owners]

ASSUME CodeAssumption ==
    /\ Keys \cap Mods = {} /\ KbdCodes \cap Buttons = {}
    /\ Codes \cap Chars = {}
    /\ Shift \in Mods
    /\ CharMap \in [Chars -> [code : Keys, shift : BOOLEAN]]
    /\ Rank \in [Codes -> Nat]
    /\ \A m \in Mods, k \in Keys : Rank[m] < Rank[k]
    /\ Remap \in [Codes -> Codes]
    /\ \A c \in KbdCodes : Remap[c] \in KbdCodes
    /\ \A b \in Buttons : Remap[b] = b

ASSUME RequestAssumption ==
    /\ NoRequest \notin Request
    /\ \A t \in Threads : Asks[t] \subseteq {r \in Request : WellTyped(r)}

ASSUME BackendAssumption ==
    /\ Hid \in BOOLEAN /\ Unplugs \in BOOLEAN
    /\ Rollover \in Nat \ {0}

VARIABLES
    owner,      \* Arbiter.owner
    busy,       \* the thread inside Devices.lock
    held,       \* Devices.held and Devices.held_mouse
    hidKeys,    \* Devices._hid_keys, oldest first
    hidBits,    \* Devices._hid_mods and Devices._hid_mouse_buttons
    plugged,    \* the HID host is listening
    down,       \* the codes that are down at the target
    strokes, toPress, pressed, sweep,   \* what is left of busy's operation
    pc, req,    \* each thread's progress and the request it is serving
    open,       \* viewers whose WebSocket pump is running
    mine,       \* each viewer's local set `held` of serve_ws
    overtaken,  \* history: threads in flight when the lock last changed hands
    presser     \* history: the thread whose keydown put a code in `held`

lockVars == <<owner, overtaken>>
workVars == <<busy, strokes, toPress, pressed, sweep>>
reportVars == <<hidKeys, hidBits, plugged, down>>
viewerVars == <<open, mine>>
vars == <<owner, overtaken, busy, strokes, toPress, pressed, sweep, hidKeys,
          hidBits, plugged, down, held, presser, pc, req, open, mine>>

SeqRange(s) == {s[i] : i \in DOMAIN s}

TypeOK ==
    /\ owner \in Owners \cup {NoOwner}
    /\ busy \in Threads \cup {Nobody}
    /\ held \subseteq Codes
    /\ hidKeys \in Seq(Keys)
    /\ hidBits \subseteq Mods \cup Buttons
    /\ plugged \in BOOLEAN
    /\ down \subseteq Codes
    /\ strokes \in Seq(Seq(Codes))
    /\ toPress \in Seq(Codes) /\ pressed \in Seq(Codes)
    /\ sweep \subseteq Codes
    /\ pc \in [Threads -> {"idle", "waiting", "working"}]
    /\ req \in [Threads -> Request \cup {NoRequest}]
    /\ open \subseteq Viewers
    /\ mine \in [Viewers -> SUBSET KbdCodes]
    /\ overtaken \subseteq Threads
    /\ presser \in [Codes -> Threads \cup {Nobody}]

Init ==
    /\ owner = NoOwner /\ overtaken = {}
    /\ busy = Nobody /\ strokes = <<>> /\ toPress = <<>> /\ pressed = <<>>
    /\ sweep = {}
    /\ hidKeys = <<>> /\ hidBits = {} /\ down = {}
    /\ plugged \in (IF Hid /\ Unplugs THEN BOOLEAN ELSE {TRUE})
    /\ held = {} /\ presser = [c \in Codes |-> Nobody]
    /\ pc = [t \in Threads |-> "idle"]
    /\ req = [t \in Threads |-> NoRequest]
    /\ open = {} /\ mine = [v \in Viewers |-> {}]

-----------------------------------------------------------------------------
(* The input lock.  Each operation runs inside Arbiter.lock. *)

InFlight == {t \in Threads : pc[t] # "idle"}

SetOwner(o) ==
    /\ owner' = o
    /\ overtaken' = IF o = owner THEN overtaken ELSE InFlight

LockStep(t, cmd) ==
    /\ t \in Sockets /\ pc[t] = "idle"
    /\ \E r \in Asks[t] : r.cmd = cmd
    /\ UNCHANGED <<workVars, reportVars, held, presser, pc, req, viewerVars>>

AcquireLock(t) ==
    /\ LockStep(t, "acquire")
    /\ owner \in {NoOwner, As[t]}
    /\ SetOwner(As[t])

ReleaseLock(t) ==
    /\ LockStep(t, "release")
    /\ owner = As[t]
    /\ SetOwner(NoOwner)

BreakLock(t) ==
    /\ LockStep(t, "break")
    /\ SetOwner(As[t])

-----------------------------------------------------------------------------
(* Requests.  A gated command is refused when another identity owns the    *)
(* lock; a refused command changes nothing.  An admitted one goes on to    *)
(* wait for Devices.lock and is never checked again.                       *)

MayDrive(t) == owner \in {NoOwner, As[t]}

\* Mutant: keyup is missing from GATED_COMMANDS.
DispatchKeyupUngated(t, r) ==
    IF MayDrive(t) \/ r.cmd = "keyup"
    THEN /\ pc' = [pc EXCEPT ![t] = "waiting"]
         /\ req' = [req EXCEPT ![t] = r]
         /\ overtaken' = overtaken \ {t}
    ELSE UNCHANGED <<pc, req, overtaken>>

Dispatch(t, r) ==
    IF MayDrive(t)
    THEN /\ pc' = [pc EXCEPT ![t] = "waiting"]
         /\ req' = [req EXCEPT ![t] = r]
         /\ overtaken' = overtaken \ {t}
    ELSE UNCHANGED <<pc, req, overtaken>>

DispatchFrame == UNCHANGED <<owner, workVars, reportVars, held, presser>>

\* A connection on the unix socket, or a POST to /cmd.
SocketRequest(t) ==
    /\ t \in Sockets /\ pc[t] = "idle"
    /\ \E r \in Asks[t] : r.cmd \in GatedCommands /\ Dispatch(t, r)
    /\ DispatchFrame /\ UNCHANGED viewerVars

ViewerOpens(v) ==
    /\ v \notin open /\ pc[v] = "idle"
    /\ open' = open \cup {v}
    /\ mine' = [mine EXCEPT ![v] = {}]
    /\ UNCHANGED <<owner, overtaken, workVars, reportVars, held, presser, pc, req>>

\* {"t": "down"} notes the key before the keydown is sent, {"t": "up"} forgets
\* it before the keyup is, {"t": "release"} forgets them all.
ViewerMessage(v) ==
    /\ v \in open /\ pc[v] = "idle"
    /\ \E r \in Asks[v] :
          /\ r.cmd \in {"keydown", "keyup", "type", "combo", "release_all"}
          /\ mine' = [mine EXCEPT ![v] =
                CASE r.cmd = "keydown" -> @ \cup {r.args[1]}
                  [] r.cmd = "keyup" -> @ \ {r.args[1]}
                  [] r.cmd = "release_all" -> {}
                  [] OTHER -> @]
          /\ Dispatch(v, r)
    /\ DispatchFrame /\ UNCHANGED open

\* Mutant: the finally block does not release.
ViewerClosesSilently(v) ==
    /\ v \in open /\ pc[v] = "idle"
    /\ open' = open \ {v}
    /\ UNCHANGED <<pc, req, overtaken, mine>>
    /\ DispatchFrame

\* The pump ends, however it ends, and the finally block runs: a viewer that
\* notes keys of its own sends one release_all, subject to the lock like any
\* other request, and ignores the answer.
ViewerCloses(v) ==
    /\ v \in open /\ pc[v] = "idle"
    /\ open' = open \ {v}
    /\ IF mine[v] # {}
       THEN Dispatch(v, [cmd |-> "release_all", args |-> <<>>])
       ELSE UNCHANGED <<pc, req, overtaken>>
    /\ DispatchFrame /\ UNCHANGED mine

-----------------------------------------------------------------------------
(* The reports.  uinput sends one event for the code; the HID gadget sends *)
(* a whole report of the code's device, which fails when no host listens   *)
(* after _hid_keys and its siblings have been changed.                     *)

Pressed(c, ks, bs) ==
    [keys |-> IF c \notin Keys \/ c \in SeqRange(ks) THEN ks
              ELSE Append(IF Len(ks) >= Rollover THEN Tail(ks) ELSE ks, c),
     bits |-> IF c \in Keys THEN bs ELSE bs \cup {c}]

Without(ks, c) ==
    IF c \in SeqRange(ks)
    THEN LET i == CHOOSE j \in DOMAIN ks : ks[j] = c
         IN  [j \in 1 .. Len(ks) - 1 |-> IF j < i THEN ks[j] ELSE ks[j + 1]]
    ELSE ks

\* Mutant: a lift clears modifiers and buttons only.
LiftedBitsOnly(c, ks, bs) == [keys |-> ks, bits |-> bs \ {c}]

Lifted(c, ks, bs) == [keys |-> Without(ks, c), bits |-> bs \ {c}]

Device(c) == IF c \in Buttons THEN Buttons ELSE KbdCodes

ReportSet(rep) == SeqRange(rep.keys) \cup rep.bits

\* The report rep of the device whose codes are dev is written; ok says
\* whether the write succeeded.
WriteReport(rep, dev) ==
    /\ hidKeys' = rep.keys /\ hidBits' = rep.bits
    /\ down' = IF plugged THEN (down \ dev) \cup (ReportSet(rep) \cap dev) ELSE down

Emit(c, val) ==
    /\ UNCHANGED plugged
    /\ IF Hid
       THEN WriteReport(IF val = 1 THEN Pressed(c, hidKeys, hidBits)
                                   ELSE Lifted(c, hidKeys, hidBits), Device(c))
       ELSE /\ down' = IF val = 1 THEN down \cup {c} ELSE down \ {c}
            /\ UNCHANGED <<hidKeys, hidBits>>

WriteFails == Hid /\ ~plugged

HostUnplugs ==
    /\ Hid /\ Unplugs /\ plugged
    /\ plugged' = FALSE /\ down' = {}
    /\ UNCHANGED <<lockVars, workVars, hidKeys, hidBits, held, presser, pc, req, viewerVars>>

HostReturns ==
    /\ Hid /\ ~plugged
    /\ plugged' = TRUE
    /\ UNCHANGED <<lockVars, workVars, hidKeys, hidBits, down, held, presser, pc, req,
                   viewerVars>>

-----------------------------------------------------------------------------
(* Operations, under Devices.lock. *)

StrokesOf(r) ==
    CASE r.cmd = "key" -> [i \in DOMAIN r.args |-> <<r.args[i]>>]
      [] r.cmd = "type" -> [i \in DOMAIN r.args |->
             LET ent == CharMap[r.args[i]]
             IN  IF ent.shift THEN <<Shift, ent.code>> ELSE <<ent.code>>]
      [] r.cmd \in {"hold", "mouse_click"} -> <<r.args>>
      [] OTHER -> <<>>

\* Mutant: a chord is pressed as the caller has it.
ChordAsGiven(ks) == {[i \in DOMAIN ks |-> i]}

\* order_chord: the keys of a chord, modifiers first, ties as the caller has them.
ChordOrders(ks) ==
    LET Before(i, j) == \/ Rank[ks[i]] < Rank[ks[j]]
                        \/ Rank[ks[i]] = Rank[ks[j]] /\ i < j
    IN  {p \in [DOMAIN ks -> DOMAIN ks] :
            \A i, j \in DOMAIN ks : i < j => Before(p[i], p[j])}

\* What a release_all, or a mouse_release_all, lets go of and forgets.
SweepClass(cmd) == IF cmd = "release_all" THEN KbdCodes ELSE Buttons

OperationFrame == UNCHANGED <<lockVars, viewerVars>>

TakeDevices(t) ==
    /\ pc[t] = "waiting" /\ busy = Nobody
    /\ busy' = t
    /\ pc' = [pc EXCEPT ![t] = "working"]
    /\ IF req[t].cmd = "combo"
       THEN \E p \in ChordOrders(req[t].args) :
               strokes' = <<[i \in DOMAIN req[t].args |-> req[t].args[p[i]]]>>
       ELSE strokes' = StrokesOf(req[t])
    /\ sweep' = IF req[t].cmd \in SweepCommands
                THEN held \cap SweepClass(req[t].cmd) ELSE {}
    /\ UNCHANGED <<toPress, pressed, reportVars, held, presser, req>>
    /\ OperationFrame

Working(t, cmds) == busy = t /\ pc[t] = "working" /\ req[t].cmd \in cmds

\* Mutant: Devices.lock is not given back.
LeaveHoldingLock(t) ==
    /\ busy' = busy
    /\ strokes' = <<>> /\ toPress' = <<>> /\ pressed' = <<>> /\ sweep' = {}
    /\ pc' = [pc EXCEPT ![t] = "idle"]
    /\ req' = [req EXCEPT ![t] = NoRequest]

\* The operation is over, by its last line or by the exception of a write:
\* Devices.lock is given back and what was left undone is forgotten.
Leave(t) ==
    /\ busy' = Nobody
    /\ strokes' = <<>> /\ toPress' = <<>> /\ pressed' = <<>> /\ sweep' = {}
    /\ pc' = [pc EXCEPT ![t] = "idle"]
    /\ req' = [req EXCEPT ![t] = NoRequest]

\* Mutant: keydown forgets to note the key.
KeyDownUntracked(t) ==
    /\ Working(t, PressCommands)
    /\ Emit(Remap[req[t].args[1]], 1)
    /\ UNCHANGED <<held, presser>>
    /\ Leave(t) /\ OperationFrame

\* Mutant: keydown notes the key's name instead of its code.
KeyDownNotesName(t) ==
    /\ Working(t, PressCommands)
    /\ Emit(Remap[req[t].args[1]], 1)
    /\ held' = held \cup {req[t].args}
    /\ Leave(t) /\ OperationFrame /\ UNCHANGED presser

KeyDown(t) ==
    /\ Working(t, PressCommands)
    /\ LET c == req[t].args[1]
       IN  /\ Emit(Remap[c], 1)
           /\ IF WriteFails THEN UNCHANGED <<held, presser>>
              ELSE /\ held' = held \cup {c}
                   /\ presser' = [presser EXCEPT ![c] = t]
    /\ Leave(t) /\ OperationFrame

\* Mutant: keyup does not take Devices.lock.
KeyUpUnlocked(t) ==
    /\ pc[t] # "idle" /\ req[t].cmd \in LiftCommands
    /\ Emit(Remap[req[t].args[1]], 0)
    /\ held' = held \ {req[t].args[1]}
    /\ pc' = [pc EXCEPT ![t] = "idle"]
    /\ req' = [req EXCEPT ![t] = NoRequest]
    /\ busy' = IF busy = t THEN Nobody ELSE busy
    /\ UNCHANGED <<strokes, toPress, pressed, sweep, presser>> /\ OperationFrame

KeyUp(t) ==
    /\ Working(t, LiftCommands)
    /\ LET c == req[t].args[1]
       IN  /\ Emit(Remap[c], 0)
           /\ held' = IF WriteFails THEN held ELSE held \ {c}
    /\ Leave(t) /\ OperationFrame /\ UNCHANGED presser

NextStroke(t) ==
    /\ Working(t, ChordCommands)
    /\ toPress = <<>> /\ pressed = <<>> /\ strokes # <<>>
    /\ toPress' = Head(strokes) /\ strokes' = Tail(strokes)
    /\ UNCHANGED <<busy, pressed, sweep, reportVars, held, presser, pc, req>>
    /\ OperationFrame

PressNext(t) ==
    /\ Working(t, ChordCommands) /\ toPress # <<>>
    /\ Emit(Remap[Head(toPress)], 1)
    /\ IF WriteFails THEN Leave(t)
       ELSE /\ pressed' = <<Head(toPress)>> \o pressed
            /\ toPress' = Tail(toPress)
            /\ UNCHANGED <<busy, strokes, sweep, pc, req>>
    /\ OperationFrame /\ UNCHANGED <<held, presser>>

ReleaseNext(t) ==
    /\ Working(t, ChordCommands) /\ toPress = <<>> /\ pressed # <<>>
    /\ Emit(Remap[Head(pressed)], 0)
    /\ IF WriteFails THEN Leave(t)
       ELSE /\ pressed' = Tail(pressed)
            /\ UNCHANGED <<busy, strokes, toPress, sweep, pc, req>>
    /\ OperationFrame /\ UNCHANGED <<held, presser>>

\* Mutant: an operation returns before it has released what it pressed.
ChordDoneEarly(t) ==
    /\ Working(t, ChordCommands)
    /\ toPress = <<>> /\ strokes = <<>>
    /\ Leave(t) /\ OperationFrame /\ UNCHANGED <<reportVars, held, presser>>

ChordDone(t) ==
    /\ Working(t, ChordCommands)
    /\ toPress = <<>> /\ pressed = <<>> /\ strokes = <<>>
    /\ Leave(t) /\ OperationFrame /\ UNCHANGED <<reportVars, held, presser>>

\* release_all goes over the codes held when it took the lock, in the order of
\* their numbers (any order here), and forgets them all only after the last.
SweepNext(t) ==
    /\ Working(t, SweepCommands)
    /\ \E c \in sweep :
          /\ Emit(Remap[c], 0)
          /\ IF WriteFails THEN Leave(t)
             ELSE /\ sweep' = sweep \ {c}
                  /\ UNCHANGED <<busy, strokes, toPress, pressed, pc, req>>
    /\ OperationFrame /\ UNCHANGED <<held, presser>>

\* Mutant: release_all forgets the held codes before the last is released.
SweepDoneEarly(t) ==
    /\ Working(t, SweepCommands)
    /\ held' = held \ SweepClass(req[t].cmd)
    /\ Leave(t) /\ OperationFrame /\ UNCHANGED <<reportVars, presser>>

SweepDone(t) ==
    /\ Working(t, SweepCommands) /\ sweep = {}
    /\ held' = held \ SweepClass(req[t].cmd)
    /\ Leave(t) /\ OperationFrame /\ UNCHANGED <<reportVars, presser>>

\* A move or a wheel event carries no button of its own, but a HID mouse report
\* always carries the current button byte.
MouseMove(t) ==
    /\ Working(t, MoveCommands)
    /\ IF Hid THEN WriteReport([keys |-> hidKeys, bits |-> hidBits], Buttons)
              ELSE UNCHANGED <<hidKeys, hidBits, down>>
    /\ UNCHANGED <<plugged, held, presser>>
    /\ Leave(t) /\ OperationFrame

-----------------------------------------------------------------------------
Operate(t) ==
    \/ TakeDevices(t)
    \/ KeyDown(t) \/ KeyUp(t)
    \/ NextStroke(t) \/ PressNext(t) \/ ReleaseNext(t) \/ ChordDone(t)
    \/ SweepNext(t) \/ SweepDone(t)
    \/ MouseMove(t)

ThreadStep(t) ==
    \/ AcquireLock(t) \/ ReleaseLock(t) \/ BreakLock(t)
    \/ SocketRequest(t)
    \/ Operate(t)

ViewerStep(v) == ViewerOpens(v) \/ ViewerMessage(v) \/ ViewerCloses(v)

Next ==
    \/ \E t \in Threads : ThreadStep(t)
    \/ \E v \in Viewers : ViewerStep(v)
    \/ HostUnplugs \/ HostReturns

Spec == Init /\ [][Next]_vars

\* An operation inside Devices.lock never blocks on anything but time, so the
\* thread that is in it goes on.
FairSpec == Spec /\ \A t \in Threads : WF_vars(busy = t /\ Operate(t))

-----------------------------------------------------------------------------
(* Properties. *)

\* Whatever is down at the target can still be let go: it was sent by keydown or
\* mouse_down and is in `held`, where release_all finds it, or the operation in
\* progress is about to release it.
ExplainedDown ==
    down \subseteq {Remap[c] : c \in held \cup SeqRange(pressed)}

\* Operations do not cut into each other: what an operation has pressed and not
\* yet released is down, so a typed capital still has its shift.
StrokeIntact == {Remap[c] : c \in SeqRange(pressed)} \subseteq down

\* While the last key of a `combo` is down, all its modifiers are: the target
\* sees the chord and not a keystroke with stray modifiers around it.
ChordWhole ==
    \A t \in Threads :
        Working(t, {"combo"}) /\ SeqRange(pressed) \cap Keys # {} =>
            {Remap[m] : m \in SeqRange(req[t].args) \cap Mods} \subseteq down

\* Both: a stroke reaches the target whole.
StrokesWhole == StrokeIntact /\ ChordWhole

\* Under a lock, only its owner drives the target, except for the requests that
\* were already past the check when the lock last changed hands.
LockHonoured ==
    \A t \in Threads :
        pc[t] # "idle" => MayDrive(t) \/ t \in overtaken

\* Once a viewer's connection is over and its thread has finished, no key is
\* held on that viewer's account.
ClosedViewerHoldsNothing ==
    \A v \in Viewers \ open :
        pc[v] = "idle" => \A c \in held : presser[c] # v

\* While someone owns the lock nobody else has an operation under way at the
\* target (not true of the code: see LockHonoured for what is).
NoForeignInput == busy # Nobody => MayDrive(busy)

\* A viewer that goes away lets go of its own keys only (not true of the code).
CloseReleasesOwnKeys ==
    [][\A v \in Viewers : \A c \in held \ held' :
          busy = v /\ v \notin open => presser[c] = v]_vars

\* A release_all or mouse_release_all that reaches its end has let go of every
\* code it forgets, whatever happened to the HID host meanwhile.
SweptIsUp ==
    [][\A t \in Threads : busy = t /\ Working(t, SweepCommands) =>
          {Remap[c] : c \in held \ held'} \cap down' = {}]_vars

\* The operation that has Devices.lock gives it back.
OperationsEnd == \A t \in Threads : busy = t ~> busy # t

\* Every operation is one client's session, and a session leaves nothing down
\* that is not held.
Sessions == INSTANCE KeySessions WITH Clients <- Threads, session <- busy
ImplementsSessions == Sessions!Spec

-----------------------------------------------------------------------------
(* The inductive invariant behind LockHonoured and ExplainedDown. *)

\* The thread inside Devices.lock is the one at work, on a request that was
\* checked, and nothing of an operation is left over outside it.
LockUse == \A t \in Threads : pc[t] = "working" <=> busy = t

RequestsOK ==
    \A t \in Threads : pc[t] # "idle" =>
        req[t] \in Request /\ WellTyped(req[t]) /\ req[t].cmd \in GatedCommands

NoLeftovers ==
    /\ (busy = Nobody \/ req[busy].cmd \notin ChordCommands) =>
           strokes = <<>> /\ toPress = <<>> /\ pressed = <<>>
    /\ (busy = Nobody \/ req[busy].cmd \notin SweepCommands) => sweep = {}

\* A report names a key once.
KeysOnce == \A i, j \in DOMAIN hidKeys : hidKeys[i] = hidKeys[j] => i = j

\* Without a host that comes and goes, the report is what the target sees.
ReportOK ==
    /\ ~(Hid /\ Unplugs) => plugged
    /\ Hid /\ ~Unplugs => down = SeqRange(hidKeys) \cup hidBits

\* During a sweep, what is still down is either held on the other device or
\* not yet swept.
SweepProgress ==
    busy # Nobody /\ req[busy].cmd \in SweepCommands =>
        down \subseteq {Remap[c] : c \in (held \ SweepClass(req[busy].cmd)) \cup sweep}

\* The stroke in hand presses a code once, as long as no request repeats one.
Distinct(s) == \A i, j \in DOMAIN s : s[i] = s[j] => i = j

OnceEach(r) == r.cmd \in {"hold", "combo", "mouse_click"} => Distinct(r.args)

HandOK ==
    /\ \A t \in Threads : pc[t] # "idle" => OnceEach(req[t])
    /\ \A s \in SeqRange(strokes) : Distinct(s)
    /\ Distinct(toPress) /\ Distinct(pressed)
    /\ SeqRange(toPress) \cap SeqRange(pressed) = {}

\* A chord goes down in the order of the ranks and comes up in reverse, and what
\* is not down of its modifiers is still to be pressed, before any key.
Climbs(s) == \A i, j \in DOMAIN s : i < j => Rank[s[i]] <= Rank[s[j]]
Falls(s) == \A i, j \in DOMAIN s : i < j => Rank[s[j]] <= Rank[s[i]]

ChordOK ==
    busy # Nobody /\ req[busy].cmd = "combo" =>
        LET mods == SeqRange(req[busy].args) \cap Mods
        IN  /\ \A s \in SeqRange(strokes) : Climbs(s) /\ mods \subseteq SeqRange(s)
            /\ Climbs(toPress) /\ Falls(pressed)
            /\ \A c \in SeqRange(pressed), d \in SeqRange(toPress) : Rank[c] <= Rank[d]
            /\ toPress # <<>> => mods \subseteq SeqRange(toPress) \cup SeqRange(pressed)
            /\ SeqRange(pressed) \cap Keys # {} => mods \subseteq SeqRange(pressed)

\* A code is up, and in no report that could bring it down again.
Gone(c) == c \notin down /\ (Hid => c \notin SeqRange(hidKeys) \cup hidBits)

\* During a sweep, what has been swept is gone.
SweptInv ==
    busy # Nobody /\ req[busy].cmd \in SweepCommands =>
        \A c \in (held \cap SweepClass(req[busy].cmd)) \ sweep : Gone(Remap[c])

\* What a viewer may have under way, where it may drive: a key it presses is one
\* it notes, and once it has closed it is letting go of all.
ViewersOK ==
    \A v \in Viewers :
        /\ MayDrive(v)
        /\ pc[v] # "idle" =>
              /\ req[v].cmd \in {"keydown", "keyup", "type", "combo", "release_all"}
              /\ req[v].cmd = "keydown" => req[v].args[1] \in mine[v]
              /\ v \notin open => req[v].cmd = "release_all"

\* A key is held for a viewer that notes it or is about to let go of it.
LettingGo(v, c) ==
    /\ pc[v] # "idle"
    /\ \/ req[v].cmd = "release_all"
       \/ req[v].cmd = "keyup" /\ req[v].args[1] = c

HeldForViewers ==
    \A v \in Viewers : \A c \in held :
        presser[c] = v =>
            /\ c \in KbdCodes
            /\ \/ v \in open /\ c \in mine[v]
               \/ LettingGo(v, c)

IndInv == TypeOK /\ KeysOnce /\ LockUse /\ RequestsOK /\ NoLeftovers /\ LockHonoured

ReportInv == ReportOK /\ SweepProgress /\ ExplainedDown
=============================================================================
