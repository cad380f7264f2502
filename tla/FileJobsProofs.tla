--------------------------- MODULE FileJobsProofs ---------------------------
(***************************************************************************)
(* Proofs about FileJobs for any files, any requests and any bounds.       *)
(***************************************************************************)
EXTENDS FileJobs, FiniteSetTheorems, TLAPS

-----------------------------------------------------------------------------
(* Types. *)

\* A chord is only ever sent while there are some left to send, and a file is
\* waited for only when there is one.
PlacesInv ==
    /\ at = "chord" => tries < RESET_ATTEMPTS
    /\ at \in {"waiting", "verify"} => now \in Files
Demanding == {"chord", "waiting", "verify"}
TypeInv == TypeOK /\ PlacesInv

LEMMA Numbers ==
    /\ MaxUploads \in Nat /\ MaxChords \in Nat \ {0}
    /\ Nothing \in Contents /\ Whole \in Contents /\ Short \in Contents
    /\ 0 .. MaxUploads \subseteq Contents
BY FilesAssumption DEF Nothing, Whole, Short, Contents

LEMMA Texts ==
    /\ Proof \in Commands /\ List \in Commands
    /\ \A f \in Files : Get(f) \in Commands /\ Chk(f) \in Commands
    /\ \A c \in Commands : c.what = "get" => c.file \in Files
<1>1. Proof \in Commands /\ List \in Commands
  BY DEF Commands
<1>2. \A f \in Files : Get(f) \in Commands /\ Chk(f) \in Commands
  BY DEF Commands
<1>3. ASSUME NEW c \in Commands, c.what = "get"
      PROVE  c.file \in Files
  <2>1. c # Proof /\ c # List
    BY <1>3 DEF Proof, List
  <2>2. \A f \in Files : (c = Chk(f) => c.what = "chk") /\ (c = Get(f) => c.file = f)
    BY DEF Chk, Get
  <2> QED BY <1>3, <2>1, <2>2 DEF Commands
<1> QED BY <1>1, <1>2, <1>3

LEMMA IdleType == Idle \in Lines /\ NoResult \in Results
BY Texts DEF Idle, Lines, NoResult, Results

LEMMA InitType == Init => TypeInv
<1> SUFFICES ASSUME Init PROVE TypeInv
  OBVIOUS
<1>1. /\ card \in [Files -> Contents] /\ got \in Contents
      /\ stage \in [Files -> 0 .. MaxUploads] /\ meta \in [Files -> 0 .. MaxUploads]
      /\ late \in [Files -> 0 .. MaxUploads] /\ snap \in [Files -> 0 .. MaxUploads]
      /\ uploads \in 0 .. MaxUploads /\ chords \in 0 .. MaxChords
  BY Numbers DEF Init, NoFiles, Nothing
<1>2. bat \in Lines /\ line \in Lines
  BY IdleType DEF Init
<1>3. result \in Results
  BY IdleType DEF Init, Results
<1>4. /\ place \in {"default", "net", "booting"} /\ chosen \in BOOLEAN /\ scroll \in BOOLEAN
      /\ inNet \in BOOLEAN /\ cancel \in BOOLEAN /\ began \in BOOLEAN /\ home \in BOOLEAN
      /\ tries = 0 /\ order = NoOrder
  BY DEF Init
<1>5. /\ at \in Places /\ at \notin Demanding /\ leg \in {"scan", "out", "back"}
      /\ now \in Files \cup {NoFile} /\ why \in {"none", "no-listing", "too-large"}
      /\ asked \subseteq Files /\ todo \subseteq Files /\ sent \subseteq Files
      /\ failed \subseteq Files /\ uncleared \subseteq Files
  BY DEF Init, Places, Demanding
<1>6. tries \in 0 .. RESET_ATTEMPTS
  BY <1>4 DEF RESET_ATTEMPTS
<1> QED BY <1>1, <1>2, <1>3, <1>4, <1>5, <1>6 DEF TypeInv, TypeOK, PlacesInv, Demanding

LEMMA AnswerType ==
    ASSUME TypeOK, NEW c \in Commands
    PROVE  Answer(c) \in Contents
BY Numbers, Texts DEF Answer, TypeOK

LEMMA ArriveType ==
    ASSUME TypeOK, NEW c \in Contents, Arrive(c)
    PROVE  got' \in Contents
BY DEF Arrive, TypeOK

LEMMA TargetType == TypeInv /\ Target => TypeInv'
<1> SUFFICES ASSUME TypeInv, Target PROVE TypeInv'
  OBVIOUS
<1> USE DEF TypeInv, TypeOK, PlacesInv, Demanding, target, running, staging, reboot, files, request
<1>1. CASE Reset
  <2>1. chords' \in 0 .. MaxChords
    BY <1>1, Numbers DEF Reset
  <2>2. bat' \in Lines /\ line' \in Lines
    BY <1>1, IdleType DEF Reset
  <2>3. place' \in {"default", "net", "booting"} /\ chosen' \in BOOLEAN /\ scroll' \in BOOLEAN
    BY <1>1 DEF Reset
  <2>4. UNCHANGED <<card, staging, got, at, reboot, files, request, why, result>>
    BY <1>1 DEF Reset
  <2> QED BY <2>1, <2>2, <2>3, <2>4
<1>2. CASE ChordLost
  <2>1. chords' \in 0 .. MaxChords
    BY <1>2, Numbers DEF ChordLost
  <2> QED BY <1>2, <2>1 DEF ChordLost
<1>3. CASE BootDone
  <2>1. place' \in {"default", "net", "booting"} /\ chosen' \in BOOLEAN /\ scroll' \in BOOLEAN
    BY <1>3 DEF BootDone
  <2> QED BY <1>3, <2>1 DEF BootDone
<1>4. CASE Fetch
  <2>1. card' \in [Files -> Contents]
    <3> DEFINE f == bat.cmd.file
    <3>1. PICK c \in {card[f]} \cup (IF stage[f] = Nothing THEN {} ELSE {stage[f], Short}) :
             card' = [card EXCEPT ![f] = c]
      BY <1>4 DEF Fetch
    <3>2. f \in Files => c \in Contents
      BY <3>1, Numbers
    <3> QED BY <3>1, <3>2
  <2>2. bat' \in Lines
    BY <1>4 DEF Fetch, Lines
  <2> QED BY <1>4, <2>1, <2>2 DEF Fetch
<1>5. CASE Put
  <2>1. got' \in Contents
    BY <1>5, ArriveType, Numbers DEF Put
  <2>2. bat' \in Lines
    BY <1>5 DEF Put, Lines
  <2> QED BY <1>5, <2>1, <2>2 DEF Put
<1>6. CASE PutAll
  <2>1. got' \in Contents
    BY <1>6, ArriveType, AnswerType DEF PutAll, Lines
  <2>2. bat' \in Lines
    BY <1>6 DEF PutAll, Lines
  <2> QED BY <1>6, <2>1, <2>2 DEF PutAll
<1>7. CASE FtpFails
  <2>1. bat' \in Lines
    BY <1>7 DEF FtpFails, Lines
  <2> QED BY <1>7, <2>1 DEF FtpFails
<1>8. CASE BatEnds
  BY <1>8, Texts DEF BatEnds, Idle, Lines
<1> QED BY <1>1, <1>2, <1>3, <1>4, <1>5, <1>6, <1>7, <1>8 DEF Target

LEMMA ClearType ==
    ASSUME TypeOK, NEW f \in Files, Clear(f)
    PROVE  stage' \in [Files -> 0 .. MaxUploads] /\ meta' \in [Files -> 0 .. MaxUploads]
BY Numbers DEF Clear, TypeOK, Nothing

LEMMA StagingType == TypeInv /\ Staging => TypeInv'
<1> SUFFICES ASSUME TypeInv, NEW f \in Files,
                    Promote(f) \/ RecordSha(f) \/ FileQueueClear(f)
             PROVE  TypeInv'
  BY FilesAssumption DEF Staging
<1> USE DEF TypeInv, TypeOK, PlacesInv, Demanding, target, running, staging, reboot, files, request
<1>1. CASE Promote(f)
  BY <1>1, Numbers DEF Promote
<1>2. CASE RecordSha(f)
  BY <1>2, Numbers DEF RecordSha, Nothing
<1>3. CASE FileQueueClear(f)
  BY <1>3, ClearType DEF FileQueueClear
<1> QED BY <1>1, <1>2, <1>3

LEMMA CallType == TypeInv /\ Call => TypeInv'
<1> SUFFICES ASSUME TypeInv, Call PROVE TypeInv'
  OBVIOUS
<1> USE DEF TypeInv, TypeOK, PlacesInv, Demanding, target, running, staging, reboot, files, request
<1>1. CASE FileCancel
  BY <1>1 DEF FileCancel
<1>2. ASSUME NEW r \in Requests, Start(r)
      PROVE  TypeInv'
  <2>1. asked' \subseteq Files
    BY <1>2, FilesAssumption DEF Start
  <2>2. bat' \in Lines /\ line' \in Lines
    BY <1>2 DEF Start, Lines
  <2>3. at' \in Places /\ at' \notin Demanding
    BY <1>2 DEF Start, Places
  <2>4. result' \in Results
    BY <1>2 DEF Start, NoResult, Results
  <2>5. began' \in BOOLEAN
    BY <1>2 DEF Start, InNet
  <2> QED BY <1>2, <2>1, <2>2, <2>3, <2>4, <2>5 DEF Start
<1> QED BY <1>1, <1>2 DEF Call

-----------------------------------------------------------------------------
(* The steps of a job. *)

LEMMA FailType ==
    ASSUME NEW b \in BOOLEAN, Fail(b)
    PROVE  result' \in Results /\ at' \in Places /\ at' \notin Demanding
BY IdleType DEF Fail, Go, Results, Places, NoResult, Demanding

LEMMA NoEdgeType ==
    ASSUME TypeOK, NoEdge
    PROVE  result' \in Results /\ at' \in Places /\ at' \notin Demanding
<1>1. CASE leg = "back"
  BY <1>1 DEF NoEdge, Go, Places, TypeOK, Demanding
<1>2. CASE leg # "back"
  BY <1>2, FailType DEF NoEdge, TypeOK
<1> QED BY <1>1, <1>2

LEMMA SendChordType ==
    ASSUME TypeOK, SendChord \/ UNCHANGED chords
    PROVE  chords' \in 0 .. MaxChords
BY Numbers DEF SendChord, TypeOK

LEMMA TypingType ==
    ASSUME TypeOK, NEW c \in Commands, Type(c)
    PROVE  bat' \in Lines /\ line' \in Lines /\ got' \in Contents
<1>1. [mine |-> TRUE, cmd |-> c, step |-> IF c.what = "get" THEN "get" ELSE "put"] \in Lines
  BY DEF Lines
<1> QED BY <1>1, Numbers DEF Type, TypeOK

LEMMA SettleType ==
    ASSUME TypeOK, Settle
    PROVE  result' \in Results /\ at' \in Places /\ at' \notin Demanding
BY DEF Settle, Go, Places, Results, TypeOK, Demanding

\* The reboots.
Rebooting ==
    \/ Gate \/ Armed \/ NotArmed \/ Chord \/ EdgeSeen \/ EdgeUnseen
    \/ Select \/ Selected \/ BootSeen \/ BootUnseen \/ Back

LEMMA RebootingType == TypeInv /\ Rebooting => TypeInv'
<1> SUFFICES ASSUME TypeInv, Rebooting PROVE TypeInv'
  OBVIOUS
<1> USE DEF TypeInv, TypeOK, PlacesInv, Demanding, target, running, staging, reboot, files, request
<1>1. CASE Gate
  <2>1. result' \in Results /\ at' \in Places /\ at' \notin Demanding
    BY <1>1, FailType DEF Gate, Go, Places
  <2> QED BY <1>1, <2>1 DEF Gate
<1>2. CASE Armed
  BY <1>2 DEF Armed, Go, Places, RESET_ATTEMPTS
<1>3. CASE NotArmed
  <2>1. chords' \in 0 .. MaxChords
    BY <1>3, SendChordType DEF NotArmed
  <2>2. result' \in Results /\ at' \in Places /\ at' \notin Demanding
    BY <1>3, FailType DEF NotArmed, Go, Places
  <2> QED BY <1>3, <2>1, <2>2 DEF NotArmed
<1>4. CASE Chord
  <2>1. chords' \in 0 .. MaxChords
    BY <1>4, SendChordType DEF Chord
  <2>2. result' \in Results /\ at' \in Places /\ at' \notin Demanding
    BY <1>4, NoEdgeType DEF Chord, Go, Places
  <2>3. tries' \in 0 .. RESET_ATTEMPTS
    BY <1>4 DEF Chord, RESET_ATTEMPTS
  <2> QED BY <1>4, <2>1, <2>2, <2>3 DEF Chord
<1>5. CASE EdgeSeen
  BY <1>5 DEF EdgeSeen, Go, Places
<1>6. CASE EdgeUnseen
  <2>1. result' \in Results /\ at' \in Places /\ at' \notin {"waiting", "verify"}
           /\ (at' = "chord" => tries < RESET_ATTEMPTS)
    BY <1>6, NoEdgeType DEF EdgeUnseen, Go, Places
  <2> QED BY <1>6, <2>1 DEF EdgeUnseen
<1>7. CASE Select
  BY <1>7 DEF Select
<1>8. CASE Selected
  BY <1>8 DEF Selected, Go, Places
<1>9. CASE BootSeen
  BY <1>9 DEF BootSeen, Go, Places
<1>10. CASE BootUnseen
  <2>1. result' \in Results /\ at' \in Places /\ at' \notin Demanding
    BY <1>10, NoEdgeType DEF BootUnseen
  <2> QED BY <1>10, <2>1 DEF BootUnseen
<1>11. CASE Back
  BY <1>11 DEF Back, Go, Places
<1> QED
  BY <1>1, <1>2, <1>3, <1>4, <1>5, <1>6, <1>7, <1>8, <1>9, <1>10, <1>11 DEF Rebooting

\* The steps beside the reboots.
Transferring ==
    \/ ReadQueue \/ TypeProof \/ Proved \/ Unproved \/ TypeList \/ Listed \/ Unlisted
    \/ TypeFile \/ FileCame \/ AllDone \/ FileSilent \/ Verify
    \/ ClearSent \/ Cleared \/ Tally \/ Crash \/ Finish

LEMMA ResultMade ==
    \A o, p, c, b \in BOOLEAN :
       [ok |-> o, complete |-> p, cancelled |-> c, left |-> b] \in Results
BY DEF Results

LEMMA TransferringType == TypeInv /\ Transferring => TypeInv'
<1> SUFFICES ASSUME TypeInv, Transferring PROVE TypeInv'
  OBVIOUS
<1> USE DEF TypeInv, TypeOK, PlacesInv, Demanding, target, running, staging, reboot, files, request
<1>1. CASE ReadQueue
  <2>1. result' \in Results /\ at' \in Places /\ at' \notin Demanding
    BY <1>1, FailType DEF ReadQueue, Go, Places
  <2>2. Queue \subseteq Files
    BY DEF Queue
  <2> QED BY <1>1, <2>1, <2>2 DEF ReadQueue
<1>2. CASE TypeProof
  BY <1>2, TypingType, Texts DEF TypeProof, Go, Places
<1>3. CASE Proved
  BY <1>3, Numbers DEF Proved, Go, Places
<1>4. CASE Unproved
  BY <1>4, FailType DEF Unproved
<1>5. CASE TypeList
  BY <1>5, TypingType, Texts DEF TypeList, Go, Places
<1>6. CASE Listed
  BY <1>6, Numbers DEF Listed, Go, Places
<1>7. CASE Unlisted
  BY <1>7 DEF Unlisted, Go, Places
<1>8. CASE TypeFile
  <2>1. PICK f \in todo : /\ Type(IF Sends THEN Get(f) ELSE Chk(f))
                         /\ now' = f /\ todo' = todo \ {f}
    BY <1>8 DEF TypeFile
  <2>2. bat' \in Lines /\ line' \in Lines /\ got' \in Contents
    BY <2>1, TypingType, Texts
  <2> QED BY <1>8, <2>1, <2>2 DEF TypeFile, Go, Places
<1>9. CASE FileCame
  BY <1>9 DEF FileCame, Go, Places
<1>10. CASE AllDone
  <2>1. result' \in Results /\ at' \in Places /\ at' \notin Demanding
    BY <1>10, SettleType DEF AllDone
  <2> QED BY <1>10, <2>1 DEF AllDone
<1>11. CASE FileSilent
  <2>1. result' \in Results /\ at' \in Places /\ at' \notin Demanding
    BY <1>11, SettleType DEF FileSilent
  <2>2. failed' \subseteq Files
    BY <1>11 DEF FileSilent
  <2> QED BY <1>11, <2>1, <2>2 DEF FileSilent
<1>12. CASE Verify
  <2>1. sent' \subseteq Files /\ failed' \subseteq Files
    BY <1>12 DEF Verify
  <2> QED BY <1>12, <2>1, Numbers DEF Verify, Go, Places
<1>13. CASE ClearSent
  <2>1. PICK f \in uncleared : Clear(f) /\ uncleared' = uncleared \ {f}
    BY <1>13 DEF ClearSent
  <2>2. stage' \in [Files -> 0 .. MaxUploads] /\ meta' \in [Files -> 0 .. MaxUploads]
    BY <2>1, ClearType
  <2> QED BY <1>13, <2>1, <2>2 DEF ClearSent
<1>14. CASE Cleared
  BY <1>14 DEF Cleared, Go, Places
<1>15. CASE Tally
  <2>1. result' \in Results
    <3>1. /\ Ok \in BOOLEAN /\ Complete \in BOOLEAN
          /\ (result.cancelled /\ why = "none") \in BOOLEAN
      BY DEF Ok, Complete
    <3>2. [ok |-> Ok, complete |-> Complete,
           cancelled |-> result.cancelled /\ why = "none", left |-> inNet] \in Results
      <4> DEFINE c == result.cancelled /\ why = "none"
      <4> HIDE DEF c
      <4>1. c \in BOOLEAN /\ inNet \in BOOLEAN
        BY <3>1 DEF c
      <4>2. [ok |-> Ok, complete |-> Complete, cancelled |-> c, left |-> inNet] \in Results
        BY <3>1, <4>1, ResultMade
      <4> QED BY <4>2, Zenon DEF c
    <3> QED BY <1>15, <3>2, Zenon DEF Tally
  <2> QED BY <1>15, <2>1 DEF Tally, Go, Places
<1>16. CASE Crash
  <2>1. result' \in Results /\ at' \in Places /\ at' \notin Demanding
    BY <1>16, FailType DEF Crash
  <2> QED BY <1>16, <2>1 DEF Crash
<1>17. CASE Finish
  <2>1. result' \in Results
    BY <1>17 DEF Finish, Results, NoResult
  <2>2. snap' \in [Files -> 0 .. MaxUploads] /\ got' \in Contents
    BY <1>17, Numbers DEF Finish, NoFiles, Nothing
  <2>3. tries' \in 0 .. RESET_ATTEMPTS
    BY <1>17 DEF Finish, RESET_ATTEMPTS
  <2> QED BY <1>17, <2>1, <2>2, <2>3 DEF Finish, Go, Places
<1> QED
  BY <1>1, <1>2, <1>3, <1>4, <1>5, <1>6, <1>7, <1>8, <1>9, <1>10, <1>11, <1>12, <1>13,
     <1>14, <1>15, <1>16, <1>17 DEF Transferring

LEMMA NextIsOneOf ==
    Next => Target \/ Staging \/ Call \/ Rebooting \/ Transferring
BY DEF Next, Step, Rebooting, Transferring

LEMMA StutterType == TypeInv /\ UNCHANGED vars => TypeInv'
BY DEF TypeInv, TypeOK, PlacesInv, vars, target, running, staging, reboot, files, request

LEMMA TypeSteps == TypeInv /\ [Next]_vars => TypeInv'
BY NextIsOneOf, TargetType, StagingType, CallType, RebootingType, TransferringType, StutterType

\* Every variable keeps its type, and no reboot sends more chords than
\* RESET_ATTEMPTS.
THEOREM TypeCorrect == Spec => []TypeOK
<1>1. TypeInv => TypeOK
  BY DEF TypeInv
<1> QED BY InitType, TypeSteps, <1>1, PTL DEF Spec

-----------------------------------------------------------------------------
(* left_in_net. *)

\* While a job runs, in_net is set from before the first chord that may take
\* the target to NET; coming back, the LED that goes off after `arm` has put it
\* on shows a reset, and nothing on that way selects NET.
LeftInv ==
    /\ at \notin {"none", "finish"} /\ ~inNet /\ (home \/ ~began) => ~InNet
    /\ at \in {"none", "finish"} /\ ~result.left /\ (home \/ ~began) => ~InNet
    /\ at \in {"chord", "edge", "menu"} /\ leg = "out" => inNet
    /\ at = "menu" => leg = "out"
    /\ at \in {"chord", "edge"} /\ leg = "back" /\ ~scroll => ~InNet
    /\ at = "boot" /\ leg = "back" => ~InNet

LEMMA LeftInit == Init => LeftInv
BY DEF Init, LeftInv, InNet, NoResult

LEMMA LeftSteps == TypeOK /\ LeftInv /\ [Next]_vars => LeftInv'
<1> SUFFICES ASSUME TypeOK, LeftInv, [Next]_vars PROVE LeftInv'
  OBVIOUS
<1> USE DEF TypeOK, LeftInv, target, running, staging, reboot, files, request
<1>1. CASE Target
  <2>1. UNCHANGED <<at, inNet, home, began, result, leg>>
    BY <1>1 DEF Target, Reset, ChordLost, BootDone, Fetch, Put, PutAll, FtpFails, BatEnds
  <2>2. ~scroll' /\ scroll => ~InNet'
    BY <1>1 DEF Target, Reset, ChordLost, BootDone, Fetch, Put, PutAll, FtpFails, BatEnds, InNet
  <2>3. ~InNet => ~InNet'
    BY <1>1 DEF Target, Reset, ChordLost, BootDone, Fetch, Put, PutAll, FtpFails, BatEnds, InNet
  <2> QED BY <2>1, <2>2, <2>3
<1>2. CASE Staging
  BY <1>2 DEF Staging, Promote, RecordSha, FileQueueClear, InNet
<1>3. CASE Call
  <2>1. CASE FileCancel
    BY <2>1 DEF FileCancel, InNet
  <2>2. ASSUME NEW r \in Requests, Start(r)
        PROVE  LeftInv'
    BY <2>2 DEF Start, InNet
  <2> QED BY <1>3, <2>1, <2>2 DEF Call
<1>4. CASE Rebooting
  <2>1. CASE Gate
    BY <2>1 DEF Gate, Fail, Go, InNet, NoResult
  <2>2. CASE Armed
    BY <2>2 DEF Armed, Go, InNet
  <2>3. CASE NotArmed
    BY <2>3 DEF NotArmed, Fail, Go, InNet, NoResult
  <2>4. CASE Chord
    BY <2>4 DEF Chord, NoEdge, Fail, Go, InNet, NoResult
  <2>5. CASE EdgeSeen
    BY <2>5 DEF EdgeSeen, Go, InNet
  <2>6. CASE EdgeUnseen
    BY <2>6 DEF EdgeUnseen, NoEdge, Fail, Go, InNet, NoResult
  <2>7. CASE Select
    BY <2>7 DEF Select, InNet
  <2>8. CASE Selected
    BY <2>8 DEF Selected, Go, InNet
  <2>9. CASE BootSeen
    BY <2>9 DEF BootSeen, Go, InNet
  <2>10. CASE BootUnseen
    BY <2>10 DEF BootUnseen, NoEdge, Fail, Go, InNet, NoResult
  <2>11. CASE Back
    BY <2>11 DEF Back, Go, InNet
  <2> QED
    BY <1>4, <2>1, <2>2, <2>3, <2>4, <2>5, <2>6, <2>7, <2>8, <2>9, <2>10, <2>11 DEF Rebooting
<1>5. CASE Transferring
  <2>1. CASE Unproved \/ Crash
    BY <2>1 DEF Unproved, Crash, Fail, Go, InNet, NoResult
  <2>2. CASE Proved
    BY <2>2 DEF Proved, Go, InNet
  <2>3. CASE ReadQueue
    BY <2>3 DEF ReadQueue, Fail, Go, InNet, NoResult
  <2>4. CASE TypeProof \/ TypeList \/ TypeFile \/ FileCame \/ Unlisted \/ Listed
    BY <2>4 DEF TypeProof, TypeList, TypeFile, FileCame, Unlisted, Listed, Go, InNet
  <2>5. CASE AllDone \/ FileSilent \/ Verify \/ ClearSent \/ Cleared
    BY <2>5 DEF AllDone, FileSilent, Settle, Verify, ClearSent, Cleared, Go, InNet
  <2>6. CASE Tally
    BY <2>6 DEF Tally, Go, InNet
  <2>7. CASE Finish
    BY <2>7 DEF Finish, Go, InNet, NoResult
  <2> QED BY <1>5, <2>1, <2>2, <2>3, <2>4, <2>5, <2>6, <2>7 DEF Transferring
<1>6. CASE UNCHANGED vars
  BY <1>6 DEF vars, InNet
<1> QED BY <1>1, <1>2, <1>3, <1>4, <1>5, <1>6, NextIsOneOf

\* A job that says the target is not in NET is right: left_in_net.
THEOREM LeftInNetCorrect == Spec => []LeftInNetIsTrue
<1>1. LeftInv => LeftInNetIsTrue
  BY DEF LeftInv, LeftInNetIsTrue
<1> QED BY TypeCorrect, LeftInit, LeftSteps, <1>1, PTL DEF Spec

-----------------------------------------------------------------------------
(* Every step of a job leaves it less to do. *)

Sizes ==
    /\ Cardinality(Files) \in Nat
    /\ Cardinality(todo) \in 0 .. Cardinality(Files)
    /\ Cardinality(uncleared) \in 0 .. Cardinality(Files)

LEMMA SubsetSize ==
    ASSUME NEW S \in SUBSET Files
    PROVE  IsFiniteSet(S) /\ Cardinality(S) \in 0 .. Cardinality(Files)
BY FS_Subset, FS_CardinalityType, FilesAssumption

LEMMA SizesHold == TypeOK => Sizes
BY SubsetSize, FS_CardinalityType, FilesAssumption DEF TypeOK, Sizes

LEMMA OneLess ==
    ASSUME NEW S \in SUBSET Files, NEW f \in S
    PROVE  Cardinality(S \ {f}) = Cardinality(S) - 1
BY SubsetSize, FS_RemoveElement

\* The gate comes before the reboot into NET, and after the one of a scan.
GateInv == at \in {"queue", "gate"} => leg = "out"

LEMMA GateSteps == TypeOK /\ GateInv /\ [Next]_vars => GateInv'
<1> SUFFICES ASSUME TypeOK, GateInv, [Next]_vars PROVE GateInv'
  OBVIOUS
<1> USE DEF TypeOK, GateInv, Go, target, running, staging, reboot, files, request
<1>1. CASE Target
  BY <1>1 DEF Target, Reset, ChordLost, BootDone, Fetch, Put, PutAll, FtpFails, BatEnds
<1>2. CASE Staging
  BY <1>2 DEF Staging, Promote, RecordSha, FileQueueClear
<1>3. CASE Call
  BY <1>3 DEF Call, Start, FileCancel
<1>4. CASE Rebooting
  BY <1>4 DEF Rebooting, Gate, Armed, NotArmed, Chord, EdgeSeen, EdgeUnseen, Select,
              Selected, BootSeen, BootUnseen, Back, NoEdge, Fail
<1>5. CASE Transferring
  BY <1>5 DEF Transferring, ReadQueue, TypeProof, Proved, Unproved, TypeList, Listed,
              Unlisted, TypeFile, FileCame, AllDone, FileSilent, Verify, ClearSent,
              Cleared, Tally, Crash, Finish, Settle, Fail
<1>6. CASE UNCHANGED vars
  BY <1>6 DEF vars
<1> QED BY <1>1, <1>2, <1>3, <1>4, <1>5, <1>6, NextIsOneOf

LEMMA CountSteps ==
    TypeInv /\ GateInv /\ TypeOK' /\ [Next]_vars => (GetsOn => Left' < Left)
<1> SUFFICES ASSUME TypeInv, GateInv, TypeOK', [Next]_vars, GetsOn PROVE Left' < Left
  OBVIOUS
<1>0. Sizes /\ Sizes'
  <2>1. Sizes
    BY SizesHold DEF TypeInv
  <2>2. Sizes'
    BY SubsetSize, FS_CardinalityType, FilesAssumption DEF TypeOK, Sizes
  <2> QED BY <2>1, <2>2
<1> USE <1>0 DEF TypeInv, PlacesInv, Sizes, GetsOn, Go, Left, LegLeft, InLeg, FromNext, FromListing,
         target, running, staging, reboot, files, request
<1>1. CASE Target
  BY <1>1 DEF Target, Reset, ChordLost, BootDone, Fetch, Put, PutAll, FtpFails, BatEnds
<1>2. CASE Staging
  BY <1>2 DEF Staging, Promote, RecordSha, FileQueueClear
<1>3. CASE Call
  BY <1>3 DEF Call, Start, FileCancel
<1>4. CASE Rebooting
  <2>1. CASE Gate
    BY <2>1 DEF Gate, Fail, GateInv
  <2>2. CASE Armed
    BY <2>2 DEF Armed, TypeOK
  <2>3. CASE NotArmed
    BY <2>3 DEF NotArmed, Fail, TypeOK
  <2>4. CASE Chord
    BY <2>4 DEF Chord, NoEdge, Fail, TypeOK, RESET_ATTEMPTS
  <2>5. CASE EdgeSeen
    BY <2>5 DEF EdgeSeen, TypeOK, RESET_ATTEMPTS
  <2>6. CASE EdgeUnseen
    BY <2>6 DEF EdgeUnseen, NoEdge, Fail, TypeOK, RESET_ATTEMPTS
  <2>7. CASE Select
    BY <2>7 DEF Select
  <2>8. CASE Selected
    BY <2>8 DEF Selected, TypeOK
  <2>9. CASE BootSeen
    BY <2>9 DEF BootSeen, TypeOK
  <2>10. CASE BootUnseen
    BY <2>10 DEF BootUnseen, NoEdge, Fail, TypeOK
  <2>11. CASE Back
    BY <2>11 DEF Back
  <2> QED
    BY <1>4, <2>1, <2>2, <2>3, <2>4, <2>5, <2>6, <2>7, <2>8, <2>9, <2>10, <2>11 DEF Rebooting
<1>5. CASE Transferring
  <2>1. CASE ReadQueue
    BY <2>1 DEF ReadQueue, Fail
  <2>2. CASE TypeProof \/ Proved \/ Unproved
    BY <2>2 DEF TypeProof, Proved, Unproved, Fail
  <2>3. CASE TypeList \/ Listed \/ Unlisted
    BY <2>3 DEF TypeList, Listed, Unlisted
  <2>4. CASE TypeFile
    <3>1. Cardinality(todo') = Cardinality(todo) - 1
      BY <2>4, OneLess DEF TypeFile, TypeOK
    <3> QED BY <2>4, <3>1 DEF TypeFile
  <2>5. CASE FileCame \/ Verify
    BY <2>5 DEF FileCame, Verify
  <2>6. CASE AllDone \/ FileSilent
    BY <2>6 DEF AllDone, FileSilent, Settle
  <2>7. CASE ClearSent
    <3>1. Cardinality(uncleared') = Cardinality(uncleared) - 1
      BY <2>7, OneLess DEF ClearSent, TypeOK
    <3> QED BY <2>7, <3>1 DEF ClearSent
  <2>8. CASE Cleared \/ Tally \/ Finish
    BY <2>8 DEF Cleared, Tally, Finish
  <2>9. CASE Crash
    <3>1. Left' = 1
      BY <2>9 DEF Crash, Fail
    <3>2. 8 - 2 * tries \in Nat /\ 9 - 2 * tries \in Nat
      BY DEF TypeOK, RESET_ATTEMPTS
    <3>3. LegLeft \in Nat
      BY <3>2
    <3>4. Left > 1
      BY <2>9, <3>3 DEF Crash
    <3> QED BY <3>1, <3>4
  <2> QED
    BY <1>5, <2>1, <2>2, <2>3, <2>4, <2>5, <2>6, <2>7, <2>8, <2>9 DEF Transferring
<1>6. CASE UNCHANGED vars
  BY <1>6 DEF vars
<1> QED BY <1>1, <1>2, <1>3, <1>4, <1>5, <1>6, NextIsOneOf

\* Every job comes to its end: what it has left to do gets less with all it
\* does.
THEOREM JobsCountDown == Spec => CountsDown
<1>1. TypeInv /\ TypeInv' /\ GateInv /\ [Next]_vars => [GetsOn => Left' < Left]_vars
  BY CountSteps DEF TypeInv
<1>2. Init => GateInv
  BY DEF Init, GateInv
<1>3. TypeInv => TypeOK
  BY DEF TypeInv
<1> QED BY InitType, TypeSteps, <1>2, <1>3, GateSteps, <1>1, PTL DEF Spec, CountsDown

-----------------------------------------------------------------------------
(* What is typed, and what has come back. *)

\* The command that asks for file f.
Wanted(f) == IF Sends THEN Get(f) ELSE Chk(f)

\* At the prompt; past the last command that was typed; and at work on c, typed
\* once and not yet answered, or past it.
AtPrompt == bat = Idle /\ line = Idle
PastLast == line = Idle /\ bat.step \notin {"get", "put"}
WorksOn(c) ==
    /\ line = Idle \/ (line.cmd = c /\ bat.cmd # c /\ got = Nothing)
    /\ bat.step \in {"get", "put"} => bat.cmd = c /\ got = Nothing

\* Nothing that is yet to be typed has been typed before.
Untyped == \A f \in todo : bat.cmd # Wanted(f)

\* A job that rebooted the target found its prompt, and types only what it has
\* not typed before, once the last command has been answered.
PromptInv ==
    ~order.told =>
    /\ at \in {"chord", "edge"} /\ leg = "out" /\ ~scroll => AtPrompt
    /\ at \in {"menu", "prove"} => AtPrompt
    /\ at = "boot" /\ leg = "out" => AtPrompt
    /\ at = "proving" => WorksOn(Proof) /\ bat.cmd = Proof
    /\ at = "list" => PastLast /\ bat.cmd = Proof
    /\ at = "listing" => WorksOn(List) /\ bat.cmd \in {Proof, List}
    /\ at \in {"next", "verify"} => PastLast /\ Untyped
    /\ at = "waiting" => WorksOn(Wanted(now)) /\ Untyped

\* What a job has not begun, and what it has done with the files it is about.
Early ==
    \/ at \in {"none", "queue", "gate", "prove", "proving", "list", "listing"}
    \/ InLeg /\ leg # "back"
LateInJob == at \in {"clear", "back", "tally"} \/ (InLeg /\ leg = "back")
FilesInv ==
    /\ Early => sent = {} /\ failed = {} /\ uncleared = {} /\ why = "none"
    /\ Early /\ Sends /\ at \notin {"none", "queue"} => todo = asked
    /\ at = "next" => asked \subseteq todo \cup sent \cup failed
    /\ at \in {"waiting", "verify"} =>
          /\ asked \subseteq todo \cup sent \cup failed \cup {now}
          /\ now \notin todo \cup sent
    /\ at \in {"next", "waiting", "verify"} => todo \cap sent = {}
    /\ at = "clear" => Sends
    /\ uncleared \subseteq sent
    /\ LateInJob /\ why = "none" /\ failed = {} /\ ~result.cancelled => asked \subseteq sent
    /\ at = "finish" /\ result.ok /\ ~result.cancelled => asked \subseteq sent

\* A file that was verified is on the target, and no command that was typed can
\* change it any more.
Refetched(f) == \E b \in {bat, line} : b.step = "get" /\ b.cmd.file = f
SentInv ==
    /\ Sends /\ at \in {"waiting", "verify"} =>
          (got # Short /\ (at = "waiting" => got # Nothing) => got = card[now])
    /\ Sends => \A f \in sent : card[f] = snap[f] /\ ~Refetched(f)

LEMMA Asking ==
    /\ Proof # List /\ Idle.cmd = Proof /\ Idle.step = "idle"
    /\ \A f, g \in Files : Wanted(f) = Wanted(g) => f = g
    /\ \A f \in Files : Wanted(f) # Proof /\ Wanted(f) # List
<1>1. Proof # List /\ Idle.cmd = Proof /\ Idle.step = "idle"
  BY DEF Proof, List, Idle
<1>2. ASSUME NEW f \in Files PROVE Wanted(f).file = f /\ Wanted(f).what \in {"get", "chk"}
  BY DEF Wanted, Get, Chk
<1>3. Proof.what = "proof" /\ List.what = "list"
  BY DEF Proof, List
<1> QED BY <1>1, <1>2, <1>3

\* What is typed is at work, or lost, once the target is past what came before.
LEMMA Typing ==
    ASSUME NEW c, PastLast, bat.cmd # c, Type(c)
    PROVE  WorksOn(c)' /\ bat'.cmd \in {bat.cmd, c}
BY DEF PastLast, Type, WorksOn

LEMMA TypingAtPrompt ==
    ASSUME AtPrompt, Type(Proof)
    PROVE  WorksOn(Proof)' /\ bat'.cmd = Proof
BY Asking DEF AtPrompt, Type, WorksOn

\* An answer means that the target is past what it was asked.
LEMMA AnsweredIsPast ==
    ASSUME NEW c, WorksOn(c), Came
    PROVE  PastLast
BY DEF WorksOn, Came, PastLast

\* A target left to itself stays where it is with its commands, or moves on.
LEMMA TargetWorks ==
    ASSUME NEW c, TypeOK, Target, Awaited = {c}, WorksOn(c)
    PROVE  WorksOn(c)' /\ bat'.cmd \in {bat.cmd, c, Proof}
<1> USE Asking DEF WorksOn, Arrive, TypeOK, target, running
<1>1. CASE Reset
  BY <1>1 DEF Reset
<1>2. CASE ChordLost \/ BootDone
  BY <1>2 DEF ChordLost, BootDone
<1>3. CASE Fetch
  BY <1>3 DEF Fetch, Lines
<1>4. CASE Put
  BY <1>4 DEF Put, Lines
<1>5. CASE PutAll
  BY <1>5 DEF PutAll, Lines
<1>6. CASE FtpFails
  BY <1>6 DEF FtpFails, Lines
<1>7. CASE BatEnds
  BY <1>7 DEF BatEnds
<1> QED BY <1>1, <1>2, <1>3, <1>4, <1>5, <1>6, <1>7 DEF Target

LEMMA TargetPast ==
    ASSUME TypeOK, Target, PastLast
    PROVE  PastLast' /\ bat'.cmd \in {bat.cmd, Proof}
<1> USE Asking DEF PastLast, TypeOK, target, running
<1>1. CASE Reset
  BY <1>1 DEF Reset
<1>2. CASE ChordLost \/ BootDone
  BY <1>2 DEF ChordLost, BootDone
<1>3. CASE Fetch
  BY <1>3 DEF Fetch
<1>4. CASE Put
  BY <1>4 DEF Put, Lines
<1>5. CASE PutAll
  BY <1>5 DEF PutAll, Lines
<1>6. CASE FtpFails
  BY <1>6 DEF FtpFails, Lines
<1>7. CASE BatEnds
  BY <1>7 DEF BatEnds
<1> QED BY <1>1, <1>2, <1>3, <1>4, <1>5, <1>6, <1>7 DEF Target

LEMMA TargetAtPrompt ==
    ASSUME TypeOK, Target
    PROVE  /\ AtPrompt => AtPrompt'
           /\ scroll /\ ~scroll' => AtPrompt'
<1> USE Asking DEF AtPrompt, TypeOK, target, running
<1>1. CASE Reset
  BY <1>1 DEF Reset
<1>2. CASE ChordLost \/ BootDone
  BY <1>2 DEF ChordLost, BootDone
<1>3. CASE Fetch \/ Put \/ PutAll \/ FtpFails \/ BatEnds
  BY <1>3 DEF Fetch, Put, PutAll, FtpFails, BatEnds
<1> QED BY <1>1, <1>2, <1>3 DEF Target

LEMMA TargetLeavesJobs ==
    Target => UNCHANGED <<at, reboot, files, request, why, result, staging>>
BY DEF Target, Reset, ChordLost, BootDone, Fetch, Put, PutAll, FtpFails, BatEnds

LEMMA PromptInit == Init => PromptInv
BY DEF Init, PromptInv

LEMMA PromptTarget == TypeOK /\ PromptInv /\ FilesInv /\ Target => PromptInv'
<1> SUFFICES ASSUME TypeOK, PromptInv, FilesInv, Target, ~order.told PROVE PromptInv'
  BY TargetLeavesJobs DEF PromptInv, request
<1>1. UNCHANGED <<at, reboot, files, request, why, result, staging>>
  BY TargetLeavesJobs
<1>2. /\ AtPrompt => AtPrompt'
      /\ scroll /\ ~scroll' => AtPrompt'
  BY TargetAtPrompt
<1>3. PastLast => PastLast' /\ bat'.cmd \in {bat.cmd, Proof}
  BY TargetPast
<1>4. Sends' = Sends /\ \A f : Wanted(f)' = Wanted(f)
  BY <1>1 DEF Sends, Wanted, request
<1>5. at = "proving" => WorksOn(Proof)' /\ bat'.cmd = Proof
  BY TargetWorks DEF Awaited, PromptInv
<1>6. at = "listing" => WorksOn(List)' /\ bat'.cmd \in {Proof, List}
  BY TargetWorks DEF Awaited, PromptInv
<1>7. ASSUME at = "waiting"
      PROVE  WorksOn(Wanted(now))' /\ bat'.cmd \in {bat.cmd, Wanted(now), Proof}
  <2>1. PICK c : c = Wanted(now)
    OBVIOUS
  <2>2. Awaited = {c} /\ WorksOn(c)
    BY <1>7, <2>1 DEF Awaited, PromptInv, Wanted, Sends
  <2>3. WorksOn(c)' /\ bat'.cmd \in {bat.cmd, c, Proof}
    BY <2>2, TargetWorks
  <2>4. c = Wanted(now)'
    BY <1>1, <1>4, <2>1 DEF files
  <2> QED BY <2>1, <2>3, <2>4
<1>8. ASSUME at \in {"next", "verify"} PROVE PastLast' /\ Untyped'
  <2>1. PastLast' /\ bat'.cmd \in {bat.cmd, Proof}
    BY <1>3, <1>8 DEF PromptInv
  <2>2. Untyped
    BY <1>8 DEF PromptInv
  <2>3. ASSUME NEW f \in todo PROVE bat'.cmd # Wanted(f)
    BY <2>1, <2>2, Asking DEF Untyped, TypeOK
  <2> QED BY <1>1, <1>4, <2>1, <2>3 DEF Untyped, files
<1>9. ASSUME at = "waiting" PROVE WorksOn(Wanted(now))' /\ Untyped'
  <2>1. Untyped /\ now \notin todo /\ now \in Files \cup {NoFile}
    BY <1>9 DEF PromptInv, FilesInv, TypeOK
  <2>2. ASSUME NEW f \in todo PROVE bat'.cmd # Wanted(f)
    <3>1. f \in Files /\ f # now
      BY <2>1 DEF TypeOK
    <3>2. Wanted(f) # Wanted(now)
      BY <3>1 DEF Wanted, Get, Chk
    <3> QED BY <1>7, <1>9, <2>1, <3>1, <3>2, Asking DEF Untyped
  <2> QED BY <1>1, <1>4, <1>7, <1>9, <2>2 DEF Untyped, files
<1> QED BY <1>1, <1>2, <1>3, <1>4, <1>5, <1>6, <1>8, <1>9 DEF PromptInv, reboot

\* A step that leaves the target's commands, the files and the request alone.
Still == UNCHANGED <<bat, line, got, todo, now, order>>

LEMMA StillPrompt ==
    Still => /\ AtPrompt' = AtPrompt /\ PastLast' = PastLast /\ Untyped' = Untyped
             /\ WorksOn(Proof)' = WorksOn(Proof) /\ WorksOn(List)' = WorksOn(List)
             /\ WorksOn(Wanted(now))' = WorksOn(Wanted(now))
BY DEF Still, AtPrompt, PastLast, Untyped, WorksOn, Wanted, Sends

LEMMA PromptStaging == PromptInv /\ (Staging \/ FileCancel \/ UNCHANGED vars) => PromptInv'
<1> SUFFICES ASSUME PromptInv, Staging \/ FileCancel \/ UNCHANGED vars PROVE PromptInv'
  OBVIOUS
<1>1. Still /\ UNCHANGED <<at, leg, scroll>>
  BY DEF Staging, Promote, RecordSha, FileQueueClear, FileCancel, vars, target, running,
         reboot, files, request, Still
<1> QED BY <1>1, StillPrompt DEF PromptInv, Still

LEMMA PromptStart ==
    ASSUME PromptInv, NEW r \in Requests, Start(r)
    PROVE  PromptInv'
<1>1. at' = "queue" \/ at' = "arm" \/ (at' = "prove" /\ order'.told) \/ at' = "gate"
  BY DEF Start
<1> QED BY <1>1 DEF PromptInv

LEMMA PromptReboots == TypeOK /\ LeftInv /\ PromptInv /\ Rebooting => PromptInv'
<1> SUFFICES ASSUME TypeOK, LeftInv, PromptInv, Rebooting PROVE PromptInv'
  OBVIOUS
<1>1. Still
  BY DEF Rebooting, Gate, Armed, NotArmed, Chord, EdgeSeen, EdgeUnseen, Select, Selected,
         BootSeen, BootUnseen, Back, running, files, request, Still
<1>2. AtPrompt' = AtPrompt /\ order' = order
  BY <1>1, StillPrompt DEF Still
<1>3. CASE Gate \/ NotArmed \/ Back
  BY <1>3 DEF Gate, NotArmed, Back, Fail, Go, PromptInv
<1>4. CASE Armed
  BY <1>4 DEF Armed, Go, PromptInv
<1>5. CASE Chord
  BY <1>2, <1>5 DEF Chord, NoEdge, Fail, Go, PromptInv
<1>6. CASE EdgeSeen
  BY <1>2, <1>6 DEF EdgeSeen, Go, PromptInv, TypeOK, target, reboot
<1>7. CASE EdgeUnseen
  BY <1>2, <1>7 DEF EdgeUnseen, NoEdge, Fail, Go, PromptInv, target, reboot
<1>8. CASE Select
  BY <1>2, <1>8 DEF Select, PromptInv, reboot
<1>9. CASE Selected
  BY <1>2, <1>9 DEF Selected, Go, PromptInv
<1>10. CASE BootSeen
  BY <1>2, <1>10 DEF BootSeen, Go, PromptInv
<1>11. CASE BootUnseen
  BY <1>2, <1>11 DEF BootUnseen, NoEdge, Fail, Go, PromptInv
<1> QED BY <1>3, <1>4, <1>5, <1>6, <1>7, <1>8, <1>9, <1>10, <1>11 DEF Rebooting

LEMMA TransferKeeps == Transferring /\ ~Finish => UNCHANGED request
<1>1. ReadQueue \/ TypeProof \/ Proved \/ Unproved \/ TypeList \/ Listed => UNCHANGED request
  BY DEF ReadQueue, TypeProof, Proved, Unproved, TypeList, Listed
<1>2. Unlisted \/ TypeFile \/ FileCame \/ AllDone \/ FileSilent => UNCHANGED request
  BY DEF Unlisted, TypeFile, FileCame, AllDone, FileSilent
<1>3. Verify \/ ClearSent \/ Cleared \/ Tally \/ Crash => UNCHANGED request
  BY DEF Verify, ClearSent, Cleared, Tally, Crash
<1> QED BY <1>1, <1>2, <1>3 DEF Transferring

LEMMA PromptTransfers == TypeOK /\ PromptInv /\ FilesInv /\ Transferring => PromptInv'
<1> SUFFICES ASSUME TypeOK, PromptInv, FilesInv, Transferring, ~order.told, ~Finish
             PROVE  PromptInv'
  <2>1. Finish => PromptInv'
    BY DEF Finish, Go, PromptInv
  <2>2. Transferring /\ ~Finish => order' = order
    BY TransferKeeps DEF request
  <2> QED BY <2>1, <2>2 DEF PromptInv
<1> USE DEF Go, request
<1>1. CASE ReadQueue \/ Unproved \/ Crash
  BY <1>1 DEF ReadQueue, Unproved, Crash, Fail, PromptInv
<1>2. CASE TypeProof
  <2>1. AtPrompt /\ Type(Proof) /\ at' = "proving"
    BY <1>2 DEF TypeProof, PromptInv
  <2>2. WorksOn(Proof)' /\ bat'.cmd = Proof
    BY <2>1, TypingAtPrompt
  <2> QED BY <2>1, <2>2 DEF PromptInv
<1>3. CASE Proved
  <2>1. WorksOn(Proof) /\ bat.cmd = Proof /\ Came
    BY <1>3 DEF Proved, PromptInv
  <2>2. PastLast
    BY <2>1, AnsweredIsPast
  <2>3. PastLast' /\ bat'.cmd = Proof /\ todo' = todo /\ at' \in {"next", "list"}
    BY <1>3, <2>1, <2>2 DEF Proved, PastLast, running, files
  <2>4. \A f \in todo' : Wanted(f)' # Proof
    BY <2>3, Asking DEF TypeOK, Wanted, Get, Chk, Proof
  <2>5. Untyped'
    BY <2>3, <2>4 DEF Untyped
  <2> QED BY <2>3, <2>5 DEF PromptInv
<1>4. CASE TypeList
  <2>1. PastLast /\ bat.cmd = Proof /\ Type(List) /\ at' = "listing"
    BY <1>4 DEF TypeList, PromptInv
  <2>2. WorksOn(List)' /\ bat'.cmd \in {Proof, List}
    BY <2>1, Typing, Asking
  <2> QED BY <2>1, <2>2 DEF PromptInv
<1>5. CASE Listed
  <2>1. WorksOn(List) /\ bat.cmd \in {Proof, List} /\ Came
    BY <1>5 DEF Listed, PromptInv
  <2>2. PastLast
    BY <2>1, AnsweredIsPast
  <2>3. /\ PastLast' /\ bat'.cmd \in {Proof, List} /\ at' \in {"next", "back"}
        /\ todo' \subseteq Files
    BY <1>5, <2>1, <2>2 DEF Listed, PastLast, running, files, TypeOK
  <2>4. Untyped'
    BY <2>3 DEF Untyped, Wanted, Get, Chk, Proof, List
  <2> QED BY <2>3, <2>4 DEF PromptInv
<1>6. CASE Unlisted \/ AllDone \/ FileSilent \/ ClearSent \/ Cleared \/ Tally
  BY <1>6 DEF Unlisted, AllDone, FileSilent, ClearSent, Cleared, Tally, Settle, PromptInv
<1>7. CASE TypeFile
  <2>1. PICK f \in todo : /\ Type(Wanted(f)) /\ now' = f /\ todo' = todo \ {f}
    BY <1>7 DEF TypeFile, Wanted
  <2>2. PICK c : c = Wanted(f)
    OBVIOUS
  <2>3. PastLast /\ Untyped /\ at' = "waiting" /\ order' = order
    BY <1>7 DEF TypeFile, PromptInv
  <2>4. WorksOn(c)' /\ bat'.cmd \in {bat.cmd, c}
    BY <2>1, <2>2, <2>3, Typing DEF Untyped
  <2>5. Wanted(now)' = c
    BY <2>1, <2>2, <2>3 DEF Wanted, Sends
  <2>6. ASSUME NEW g \in todo' PROVE bat'.cmd # Wanted(g)'
    <3>1. g \in Files /\ f \in Files /\ g # f /\ g \in todo
      BY <2>1 DEF TypeOK
    <3>2. Wanted(g)' = Wanted(g) /\ Wanted(g) # c
      BY <2>2, <2>3, <3>1, Asking DEF Wanted, Sends
    <3> QED BY <2>3, <2>4, <3>1, <3>2 DEF Untyped
  <2> QED BY <2>3, <2>4, <2>5, <2>6 DEF PromptInv, Untyped
<1>8. CASE FileCame
  <2>1. PICK c : c = Wanted(now)
    OBVIOUS
  <2>2. WorksOn(c) /\ Came /\ Untyped /\ at' = "verify"
    BY <1>8, <2>1 DEF FileCame, PromptInv
  <2>3. PastLast /\ Still
    BY <1>8, <2>2, AnsweredIsPast DEF FileCame, Still, running, files
  <2> QED BY <2>2, <2>3, StillPrompt DEF PromptInv
<1>9. CASE Verify
  BY <1>9 DEF Verify, PromptInv, PastLast, Untyped, running, Wanted, Sends
<1> QED BY <1>1, <1>2, <1>3, <1>4, <1>5, <1>6, <1>7, <1>8, <1>9 DEF Transferring

\* Every step but a Start keeps PromptInv.
LEMMA PromptSteps ==
    TypeOK /\ LeftInv /\ PromptInv /\ FilesInv /\ [Next]_vars => PromptInv'
<1>1. PromptInv /\ Call => PromptInv'
  BY PromptStart, PromptStaging DEF Call
<1> QED BY <1>1, PromptTarget, PromptStaging, PromptReboots, PromptTransfers, NextIsOneOf

-----------------------------------------------------------------------------
(* The files a job is about. *)

LEMMA FilesInit == Init => FilesInv
BY DEF Init, FilesInv, Early, LateInJob, InLeg, NoResult

LEMMA FilesSteps == TypeInv /\ GateInv /\ FilesInv /\ [Next]_vars => FilesInv'
<1> SUFFICES ASSUME TypeInv, GateInv, FilesInv, [Next]_vars PROVE FilesInv'
  OBVIOUS
<1> USE DEF FilesInv, Early, LateInJob, InLeg, Sends, Go
<1>1. CASE Target \/ Staging \/ FileCancel \/ UNCHANGED vars
  <2>1. UNCHANGED <<at, leg, files, order, why, result>>
    BY <1>1, TargetLeavesJobs
       DEF Staging, Promote, RecordSha, FileQueueClear, FileCancel, vars, reboot, request, files
  <2> QED BY <2>1 DEF files
<1>2. ASSUME NEW r \in Requests, Start(r) PROVE FilesInv'
  <2>1. /\ at' \in {"queue", "arm", "prove", "gate"} /\ (at' = "arm" => leg' = "scan")
        /\ (r.kind = "send" /\ ~r.told => at' = "queue")
        /\ at = "none" /\ UNCHANGED <<sent, failed, uncleared, why>> /\ order' = r
    BY <1>2 DEF Start
  <2>2. r.kind = "send" => ~r.told
    BY FilesAssumption
  <2> QED BY <2>1, <2>2
<1>3. CASE Rebooting
  <2>1. UNCHANGED <<files, order, why>>
    BY <1>3 DEF Rebooting, Gate, Armed, NotArmed, Chord, EdgeSeen, EdgeUnseen, Select, Selected,
                BootSeen, BootUnseen, Back, request, files
  <2>2. CASE at' = "finish"
    <3>1. result'.ok = FALSE \/ at = "finish"
      BY <1>3, <2>2 DEF Rebooting, Gate, Armed, NotArmed, Chord, EdgeSeen, EdgeUnseen, Select,
                Selected, BootSeen, BootUnseen, Back, NoEdge, Fail, NoResult
    <3>2. at # "finish"
      BY <1>3 DEF Rebooting, Gate, Armed, NotArmed, Chord, EdgeSeen, EdgeUnseen, Select,
                Selected, BootSeen, BootUnseen, Back
    <3> QED BY <2>1, <2>2, <3>1, <3>2 DEF files
  <2>3. CASE at' # "finish"
    <3>1. result' = result
      BY <1>3, <2>3 DEF Rebooting, Gate, Armed, NotArmed, Chord, EdgeSeen, EdgeUnseen, Select,
                Selected, BootSeen, BootUnseen, Back, NoEdge, Fail
    <3>2. /\ Early' => Early /\ at \notin {"none", "queue"}
          /\ LateInJob' => LateInJob
          /\ at' \notin {"next", "waiting", "verify", "clear", "none", "queue"}
      BY <1>3, <2>3 DEF Rebooting, Gate, Armed, NotArmed, Chord, EdgeSeen, EdgeUnseen, Select,
                Selected, BootSeen, BootUnseen, Back, NoEdge, Fail, GateInv, reboot, TypeInv, TypeOK
    <3> QED BY <2>1, <2>3, <3>1, <3>2 DEF files
  <2> QED BY <2>2, <2>3
<1>4. CASE Transferring
  <2> USE DEF files, reboot, request, running
  <2>1. CASE ReadQueue
    BY <2>1 DEF ReadQueue, Fail, NoResult
  <2>2. CASE TypeProof \/ TypeList \/ Unproved \/ Crash
    BY <2>2 DEF TypeProof, TypeList, Unproved, Crash, Fail, NoResult
  <2>3. CASE Proved
    BY <2>3 DEF Proved
  <2>4. CASE Listed
    BY <2>4 DEF Listed
  <2>5. CASE Unlisted
    BY <2>5 DEF Unlisted
  <2>6. CASE TypeFile
    BY <2>6 DEF TypeFile
  <2>7. CASE FileCame
    BY <2>7 DEF FileCame
  <2>8. CASE AllDone
    BY <2>8 DEF AllDone, Settle, TypeInv, TypeOK, Results
  <2>9. CASE FileSilent
    BY <2>9 DEF FileSilent, Settle
  <2>10. CASE Verify
    BY <2>10 DEF Verify
  <2>11. CASE ClearSent \/ Cleared
    BY <2>11 DEF ClearSent, Cleared
  <2>12. CASE Tally
    BY <2>12 DEF Tally, Ok
  <2>13. CASE Finish
    BY <2>13 DEF Finish
  <2> QED BY <1>4, <2>1, <2>2, <2>3, <2>4, <2>5, <2>6, <2>7, <2>8, <2>9, <2>10, <2>11,
             <2>12, <2>13 DEF Transferring
<1> QED BY <1>1, <1>2, <1>3, <1>4, NextIsOneOf DEF Call

-----------------------------------------------------------------------------
(* The files that were sent. *)

LEMMA SentInit == Init => SentInv
BY DEF Init, SentInv

\* Only a fetch that was typed changes what the target holds.
LEMMA TargetKeepsSent == TypeInv /\ PromptInv /\ SentInv /\ Target => SentInv'
<1> SUFFICES ASSUME TypeInv, PromptInv, SentInv, Target, Sends PROVE SentInv'
  BY TargetLeavesJobs DEF SentInv, Sends, request
<1>0. UNCHANGED <<at, order, sent, snap, now>> /\ Sends'
  BY TargetLeavesJobs DEF Sends, request, files
<1>1. ~order.told
  BY FilesAssumption DEF TypeInv, TypeOK, Sends, NoOrder
<1>2. ASSUME NEW f \in sent PROVE card'[f] = snap[f] /\ ~Refetched(f)'
  <2>1. f \in Files /\ card[f] = snap[f] /\ ~Refetched(f) /\ card \in [Files -> Contents]
    BY DEF SentInv, TypeInv, TypeOK
  <2> USE DEF Refetched
  <2>2. CASE Reset \/ ChordLost \/ BootDone
    <3>1. CASE Reset
      <4>1. card' = card /\ bat' = Idle /\ line' = Idle
        BY <3>1 DEF Reset
      <4> QED BY <2>1, <4>1, Asking
    <3>2. CASE ChordLost \/ BootDone
      <4>1. UNCHANGED <<card, bat, line>>
        BY <3>2 DEF ChordLost, BootDone, running
      <4> QED BY <2>1, <4>1
    <3> QED BY <2>2, <3>1, <3>2
  <2>3. CASE Fetch
    <3>1. bat.step = "get" /\ bat.cmd.file # f
      BY <2>1, <2>3 DEF Fetch
    <3>2. card'[f] = card[f]
      BY <2>1, <2>3, <3>1 DEF Fetch
    <3>3. bat'.step = "put" /\ line' = line
      BY <2>3 DEF Fetch, TypeInv, TypeOK, Lines
    <3> QED BY <2>1, <3>2, <3>3
  <2>4. CASE Put \/ PutAll \/ FtpFails
    <3>1. card' = card /\ line' = line /\ bat'.step # "get"
      BY <2>4 DEF Put, PutAll, FtpFails, TypeInv, TypeOK, Lines
    <3> QED BY <2>1, <3>1
  <2>5. CASE BatEnds
    BY <2>1, <2>5 DEF BatEnds, Idle
  <2> QED BY <2>2, <2>3, <2>4, <2>5 DEF Target
<1>3. ASSUME at \in {"waiting", "verify"}, got' # Short, at = "waiting" => got' # Nothing
      PROVE  got' = card'[now]
  <2>1. Awaited = {Get(now)}
    BY <1>3 DEF Awaited, Sends
  <2>2. at = "waiting" => (bat.step = "get" => got = Nothing)
    BY <1>1, <1>3 DEF PromptInv, WorksOn
  <2>3. at = "verify" => bat.step # "get"
    BY <1>1, <1>3 DEF PromptInv, PastLast
  <2>4. (got # Short /\ (at = "waiting" => got # Nothing)) => got = card[now]
    BY <1>3 DEF SentInv
  <2>5. CASE Reset \/ ChordLost \/ BootDone \/ FtpFails \/ BatEnds
    BY <1>3, <2>4, <2>5 DEF Reset, ChordLost, BootDone, FtpFails, BatEnds, running
  <2>6. CASE Fetch
    BY <1>3, <2>2, <2>3, <2>6 DEF Fetch
  <2>7. CASE Put
    BY <1>3, <2>4, <2>7 DEF Put, Arrive
  <2>8. CASE PutAll
    <3>1. card' = card /\ Arrive(Answer(bat.cmd))
      BY <2>8 DEF PutAll
    <3>2. bat.cmd \in Awaited => Answer(bat.cmd) = card[now]
      BY <2>1 DEF Answer, Get
    <3> QED BY <1>3, <2>4, <3>1, <3>2 DEF Arrive
  <2> QED BY <2>5, <2>6, <2>7, <2>8 DEF Target
<1> QED BY <1>0, <1>2, <1>3 DEF SentInv

LEMMA SentSteps ==
    TypeInv /\ PromptInv /\ FilesInv /\ SentInv /\ [Next]_vars => SentInv'
<1> SUFFICES ASSUME TypeInv, PromptInv, FilesInv, SentInv, [Next]_vars PROVE SentInv'
  OBVIOUS
<1>1. CASE Staging \/ FileCancel \/ UNCHANGED vars
  <2>1. UNCHANGED <<at, order, sent, snap, now, got, card, bat, line>>
    BY <1>1 DEF Staging, Promote, RecordSha, FileQueueClear, FileCancel, vars, reboot, files,
                running, request
  <2> QED BY <2>1 DEF SentInv, Sends, Refetched
<1>2. ASSUME NEW r \in Requests, Start(r) PROVE SentInv'
  <2>1. sent' = {} /\ at' \notin {"waiting", "verify"}
    BY <1>2 DEF Start, FilesInv, Early
  <2> QED BY <2>1 DEF SentInv
<1>3. CASE Rebooting
  <2>1. UNCHANGED <<order, sent, snap, card, bat, line>> /\ at' \notin {"waiting", "verify"}
    BY <1>3 DEF Rebooting, Gate, Armed, NotArmed, Chord, EdgeSeen, EdgeUnseen, Select, Selected,
                BootSeen, BootUnseen, Back, NoEdge, Fail, Go, request, files, running
  <2> QED BY <2>1 DEF SentInv, Sends, Refetched
<1>4. CASE Transferring
  <2>1. CASE ReadQueue \/ TypeProof \/ TypeList \/ Finish
    <3>1. sent' = {} /\ at' \notin {"waiting", "verify"}
      BY <2>1 DEF ReadQueue, TypeProof, TypeList, Finish, Fail, Go, files, FilesInv, Early
    <3> QED BY <3>1 DEF SentInv
  <2>2. CASE Proved \/ Unproved \/ Listed \/ Unlisted \/ AllDone \/ FileSilent \/ ClearSent
             \/ Cleared \/ Tally \/ Crash
    <3>1. UNCHANGED <<order, sent, snap, card, bat, line>> /\ at' \notin {"waiting", "verify"}
      BY <2>2 DEF Proved, Unproved, Listed, Unlisted, AllDone, FileSilent, ClearSent, Cleared,
                  Tally, Crash, Fail, Go, Settle, request, files, running
    <3> QED BY <3>1 DEF SentInv, Sends, Refetched
  <2>3. CASE TypeFile
    <3>1. PICK f \in todo : Type(Wanted(f)) /\ now' = f
      BY <2>3 DEF TypeFile, Wanted
    <3>2. UNCHANGED <<order, sent, snap, card>> /\ got' = Nothing /\ at' = "waiting"
      BY <2>3, <3>1 DEF TypeFile, Type, request, Go
    <3>3. ASSUME NEW g \in sent, Sends PROVE ~Refetched(g)'
      <4>1. g # f /\ ~Refetched(g)
        BY <2>3, <3>3 DEF TypeFile, FilesInv, SentInv
      <4>2. Wanted(f).file = f
        BY DEF Wanted, Get, Chk
      <4> QED BY <3>1, <4>1, <4>2 DEF Type, Refetched
    <3> QED BY <3>2, <3>3 DEF SentInv, Sends
  <2>4. CASE FileCame
    BY <2>4 DEF FileCame, Came, Go, SentInv, Sends, Refetched, request, files, running
  <2>5. CASE Verify
    <3>1. UNCHANGED <<order, snap, card, bat, line>> /\ at' = "next"
      BY <2>5 DEF Verify, Go, request, running
    <3>2. ASSUME NEW f \in sent', Sends PROVE card[f] = snap[f] /\ ~Refetched(f)
      <4>1. CASE f \in sent
        BY <3>2, <4>1 DEF SentInv
      <4>2. CASE f \notin sent
        <5>1. f = now /\ got = snap[now] /\ now \in Files
          BY <2>5, <3>2, <4>2 DEF Verify, Verified, TypeInv, PlacesInv
        <5>2. got # Short
          BY <5>1, Numbers DEF TypeInv, TypeOK, Short
        <5>3. card[now] = got
          BY <2>5, <3>2, <5>2 DEF Verify, SentInv
        <5>4. PastLast
          BY <2>5, <3>2, FilesAssumption DEF Verify, PromptInv, TypeInv, TypeOK, Sends, NoOrder
        <5> QED BY <5>1, <5>3, <5>4 DEF PastLast, Refetched, Idle
      <4> QED BY <4>1, <4>2
    <3> QED BY <3>1, <3>2 DEF SentInv, Sends, Refetched
  <2> QED BY <1>4, <2>1, <2>2, <2>3, <2>4, <2>5 DEF Transferring
<1> QED BY <1>1, <1>2, <1>3, <1>4, TargetKeepsSent, NextIsOneOf DEF Call

DeliveryInv == TypeInv /\ LeftInv /\ GateInv /\ PromptInv /\ FilesInv /\ SentInv

LEMMA DeliveryHolds == Spec => []DeliveryInv
<1>1. Init => DeliveryInv
  <2>1. Init => GateInv
    BY DEF Init, GateInv
  <2> QED BY <2>1, InitType, LeftInit, PromptInit, FilesInit, SentInit DEF DeliveryInv
<1>2. DeliveryInv /\ [Next]_vars => DeliveryInv'
  <2>1. TypeInv => TypeOK
    BY DEF TypeInv
  <2> QED BY <2>1, TypeSteps, LeftSteps, GateSteps, PromptSteps, FilesSteps, SentSteps
          DEF DeliveryInv
<1> QED BY <1>1, <1>2, PTL DEF Spec

\* A run that says `ok` and was not cancelled delivered every file it was about,
\* whatever was staged, cleared, cut short or typed meanwhile.
THEOREM OkIsDelivered == Spec => []OkMeansDelivered
<1>1. DeliveryInv => OkMeansDelivered
  BY DEF DeliveryInv, FilesInv, SentInv, OkMeansDelivered, Delivered
<1> QED BY DeliveryHolds, <1>1, PTL

\* What a run takes from the queue, the target holds as it was when the run read
\* the queue.
THEOREM TakenWasDelivered == Spec => ClearedIsOnTarget
<1>1. DeliveryInv /\ [Next]_vars =>
        [at = "clear" => \A f \in uncleared \ uncleared' : card[f] = snap[f]]_vars
  BY DEF DeliveryInv, FilesInv, SentInv
<1> QED BY DeliveryHolds, <1>1, PTL DEF Spec, ClearedIsOnTarget

\* A job that rebooted the target itself types nothing at a prompt that is still
\* at work on its last command.
THEOREM TypesAtThePrompt == Spec => NotTypedOver
<1>1. DeliveryInv /\ [Next]_vars =>
        [Typed /\ ~order.told => ~(bat.mine /\ bat.step \in {"get", "put"})]_vars
  BY DEF DeliveryInv, PromptInv, Typed, PastLast, AtPrompt, Idle
<1> QED BY DeliveryHolds, <1>1, PTL DEF Spec, NotTypedOver
=============================================================================
