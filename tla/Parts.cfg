\* Two of each of those who act, and bounds a step beyond where something fills up.
\* That a part stops is no deadlock.
CONSTANTS
    heartbeat = heartbeat
    client = client
    PlugKinds = {"kasa", "klap", "wemo", "shell"}
    PlugCallers = {heartbeat, client}
    Wishes <- MCWishes
    Ports <- MCPorts
    Sessions = {1, 2, 3, 4, 5, 6, 7, 8}
    NoSession = 0
    Pollers = {poller}
    Checkers = {transfer}
    Cache = 1
    PollWait = 1
    CheckWait = 1
    MaxTime = 2
    Tools = {1, 2}
    OtherOwners = {"operator"}
    Me = "agent"
    MayBreak = TRUE
    IdleWatch = TRUE
    Jobs = TRUE
    Movers = {1, 2}
    Owners = {"page", "sweep"}
    As <- MCAs
    NoOwner = "nobody"
    Far = 3
    MostMoves = 4
    Widest = 2
    Keyboards = {own, desk}
    MaxUnread = 2
    MaxUpsets = 1
    MaxKeys = 2
    ProfileNames = {1, 2}
    Requests = {tab, phone}
    SameName = FALSE
    Stores = {"msd", "file", "share"}
    Uploads = {"mine", "yours"}
    Chunks = 2
    Threads = {1, 2}
    Images = {cd}
    Callers = {tab, phone}
    NoImage = NoImage
    NoCaller = NoCaller
    Size <- MCSize
    Dirs = {output, logs}
    MaxReadings = 2
    Publishers = {1, 2}
    Cap = 3
    EventsPerPage = 2
    MaxSeq = 6
    MaxLines = 7
    MaxTorn = 2
    FileLines = 1
    KeptFiles = 2
    Listeners = {tab, phone}
    Slots = 2
    Headers = 2
    Pages = 2
    Streams = 2
SPECIFICATION FairSpec
CHECK_DEADLOCK FALSE
INVARIANTS LockIsGivenBack ProfilesStandAlone FollowersMissNothing
PROPERTIES FilesAreWhole OthersToldTruly InputIsFollowed BootIsProven LockComesBack
