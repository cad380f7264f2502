\* Two leases, frames of two sizes and memory that is short at times; few frames in
\* a ring with room for few.  That a part stops is no deadlock.
CONSTANTS
    page = page
    record = record
    Holders = {page, record}
    Sizes = {1, 2}
    Budgets <- MCBudgets
    MinCap = 2
    Headrooms = {0, 9}
    Few = 6
    Timeout = 1
    Timelines = {tab, phone}
    Frames = 3
    Room = 3
    Ends = 9
    Gap = 3
    MostRepeats = 2
    Decoders = {one, other}
    Places = {shot, picture}
    KeptFrames = 1
    Errors = 4
    ShotFrames = 4
    ShotRoom = 3
    Window = 3
SPECIFICATION FairSpec
CHECK_DEADLOCK FALSE
PROPERTIES EvidenceIsTrue RingWithinCap PinnedIsKept HistorySurvives PinsEnd
