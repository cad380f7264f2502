------------------------------ MODULE Profiles ------------------------------
(***************************************************************************)
(* One daemon, several profiles: which profiles are found and built, the   *)
(* one web server and the sockets that reach them, and whose configuration *)
(* a thread reads.  CFG is one name for all of them; what it stands for is *)
(* kept per thread (`_CFG_CTX`), and a thread that was bound to nothing    *)
(* reads the primary's.                                                    *)
(*                                                                         *)
(* A profile is its place in the list that was found, the primary's is 1.  *)
(* Startup is one thread; after it each socket has its own, each request   *)
(* over a socket too, and a browser's connection keeps its thread for all  *)
(* its requests.  Left out: what a request does (InputCore, Registry).     *)
(***************************************************************************)
EXTENDS Naturals, Sequences, FiniteSets

CONSTANTS
    Names,      \* names of profiles, as numbers: files are read in their order
    Callers,    \* threads that serve requests at once
    SameName    \* TRUE: the primary may bear the name of another's file

ProfilesAssumption == Names \subseteq Nat \ {0} /\ IsFiniteSet(Names) /\ SameName \in BOOLEAN

VARIABLES
    found,      \* the profiles, as their files say
    todo,       \* those to build
    built,      \* those that were built, and their background threads
    web,        \* the web server: "not yet", "up" or "failed"
    unbound,    \* sockets still to be bound, by a thread each
    bound,      \* the sockets that are there, and the instance each leads to
    call        \* what each thread that serves requests is at

vars == <<found, todo, built, web, unbound, bound, call>>

NoName == 0

\* Sockets: the old path, and the path of each name.
Alias == 0
Idle == [at |-> "idle"]

Found == [name : Names \cup {NoName}, hid : BOOLEAN]
Built == [of : 1 .. Len(found), beat : 1 .. Len(found)]

TypeOK ==
    /\ found \in Seq(Found) /\ found # <<>>
    /\ todo \subseteq DOMAIN found
    /\ built \in Seq(Built) /\ web \in {"not yet", "up", "failed"}
    /\ \A p \in DOMAIN bound : bound[p] \in DOMAIN built
    /\ \A s \in unbound : s.inst \in DOMAIN built /\ s.path \in Names \cup {Alias}
    /\ \A c \in Callers :
         \/ call[c] = Idle
         \/ call[c].at \in {"open", "web", "socket"} /\ call[c].cfg \in DOMAIN found

-----------------------------------------------------------------------------
(* Which profiles there are: `discover_profiles`, and the guard in `main`. *)

\* The names of files in their order.
InOrder(files) ==
    {s \in [1 .. Cardinality(files) -> files] : \A i, j \in DOMAIN s : i < j => s[i] < s[j]}

\* The primary first, then the files that could be read, by name.
Discovered(primary, names, hids) ==
    [i \in 1 .. Len(names) + 1 |->
        LET n == IF i = 1 THEN primary ELSE names[i - 1]
        IN  [name |-> n, hid |-> hids[IF i = 1 THEN NoName ELSE n]]]

\* Mutant: every profile gets its bridge.
Unguarded(profiles) == DOMAIN profiles

\* Of the profiles that go through the USB4VC bridge only the first is built.
ConflictFree(profiles) ==
    {i \in DOMAIN profiles : profiles[i].hid \/ \A j \in 1 .. i - 1 : profiles[j].hid}

Init ==
    /\ \E primary \in Names \cup {NoName}, files \in SUBSET Names,
          hids \in [Names \cup {NoName} -> BOOLEAN] :
          /\ SameName \/ primary \notin files
          /\ \A n \in Names \ files : hids[n]
          /\ \E names \in InOrder(files) : found = Discovered(primary, names, hids)
          /\ todo = ConflictFree(found)
    /\ built = <<>> /\ web = "not yet" /\ unbound = {} /\ bound = <<>>
    /\ call = [c \in Callers |-> Idle]

-----------------------------------------------------------------------------
(* Starting. *)

\* Mutant: a thread that was bound to nothing.
BeatsAsPrimary(i) == 1

\* "A thread that keeps the profile scope of whoever started it."
BeatsAs(i) == i

\* In the order they were found.
NextToBuild(i) == i \in todo /\ \A j \in todo : i <= j

Build(i) ==
    /\ NextToBuild(i)
    /\ todo' = todo \ {i}
    /\ built' = Append(built, [of |-> i, beat |-> BeatsAs(i)])
    /\ UNCHANGED <<found, web, unbound, bound, call>>

\* The gadget's device nodes are not there.
BuildFails(i) ==
    /\ NextToBuild(i) /\ found[i].hid
    /\ todo' = todo \ {i}
    /\ UNCHANGED <<found, built, web, unbound, bound, call>>

NameOf(b) == found[built[b].of].name

\* The primary has the old path, a profile with a name that of its name.
Paths(b) ==
    (IF built[b].of = 1 THEN {Alias} ELSE {})
        \cup (IF NameOf(b) # NoName THEN {NameOf(b)} ELSE {})

StartWeb ==
    /\ todo = {} /\ built # <<>> /\ web = "not yet"
    /\ web' \in {"up", "failed"}
    /\ unbound' = UNION {{[path |-> p, inst |-> b] : p \in Paths(b)} : b \in DOMAIN built}
    /\ UNCHANGED <<found, todo, built, bound, call>>

\* Each in its thread, in any order; what is there already is unlinked.
Bind ==
    \E s \in unbound :
        /\ unbound' = unbound \ {s}
        /\ bound' = [p \in DOMAIN bound \cup {s.path} |-> IF p = s.path THEN s.inst ELSE bound[p]]
        /\ UNCHANGED <<found, todo, built, web, call>>

-----------------------------------------------------------------------------
(* Requests. *)

\* A thread of its own, bound to the profile whose socket it is.
SocketRequest(c) ==
    /\ call[c] = Idle
    /\ \E path \in DOMAIN bound :
          call' = [call EXCEPT ![c] = [at |-> "socket", path |-> path, inst |-> bound[path],
                                       cfg |-> built[bound[path]].of]]
    /\ UNCHANGED <<found, todo, built, web, unbound, bound>>

WebConnects(c) ==
    /\ call[c] = Idle /\ web = "up"
    /\ call' = [call EXCEPT ![c] = [at |-> "open", cfg |-> 1]]
    /\ UNCHANGED <<found, todo, built, web, unbound, bound>>

\* `registries`: no prefix means the first that was built.  Of two with one
\* name the last is meant.
Routes(name) ==
    IF name = NoName THEN {1}
    ELSE LET named == {b \in DOMAIN built : NameOf(b) = name}
         IN {b \in named : \A a \in named : a <= b}

\* Mutant: the registry is the profile's, the configuration the last bound.
BindsNothing(cfg, b) == cfg

BindsTo(cfg, b) == built[b].of

WebRequest(c, name) ==
    /\ call[c].at = "open"
    /\ \E b \in Routes(name) :
          call' = [call EXCEPT ![c] = [at |-> "web", name |-> name, inst |-> b,
                                       cfg |-> BindsTo(call[c].cfg, b)]]
    /\ UNCHANGED <<found, todo, built, web, unbound, bound>>

\* The browser's connection stays open, and its thread bound as it is.
WebAnswers(c) ==
    /\ call[c].at = "web"
    /\ call' = [call EXCEPT ![c] = [at |-> "open", cfg |-> call[c].cfg]]
    /\ UNCHANGED <<found, todo, built, web, unbound, bound>>

Ends(c) ==
    /\ call[c].at \in {"open", "socket"}
    /\ call' = [call EXCEPT ![c] = Idle]
    /\ UNCHANGED <<found, todo, built, web, unbound, bound>>

Next ==
    \/ \E i \in todo : Build(i) \/ BuildFails(i)
    \/ StartWeb \/ Bind
    \/ \E c \in Callers : \/ SocketRequest(c) \/ WebConnects(c) \/ WebAnswers(c) \/ Ends(c)
                          \/ \E name \in Names \cup {NoName} : WebRequest(c, name)

Spec == Init /\ [][Next]_vars

-----------------------------------------------------------------------------
(* What must hold. *)

\* "A true reading under another machine's name": a request runs under the
\* configuration of the profile whose devices it drives, on a thread that
\* served another one before, too; and so does the power heartbeat.
AnswersForItself ==
    /\ \A c \in Callers : call[c].at \in {"web", "socket"} => call[c].cfg = built[call[c].inst].of
    /\ \A b \in DOMAIN built : built[b].beat = built[b].of

\* A request by name reaches the profile of that name, the old path only ever
\* the primary, and no two profiles drive the one USB4VC bridge.
NamesReachTheirProfile ==
    /\ \A c \in Callers :
         /\ call[c].at = "web" /\ call[c].name # NoName => NameOf(call[c].inst) = call[c].name
         /\ call[c].at = "socket" => call[c].path \in Paths(call[c].inst)
    /\ \A a, b \in DOMAIN built : ~ found[built[a].of].hid /\ ~ found[built[b].of].hid => a = b

\* "Same instance, reachable by either path" (vcctrld.py:14063).  Not so when
\* another file bears the primary's name: nothing compares them.
EitherPath ==
    \A c \in Callers : call[c].at = "socket" /\ call[c].path # Alias =>
        \A b \in DOMAIN built :
            built[b].of = 1 /\ call[c].path \in Paths(b) => call[c].inst = b
=============================================================================
