\* Another client releases and acquires, while processes end, cannot be
\* started, and show pictures or none.
CONSTANTS
    Procs = {1, 2}
    c1 = c1
    Callers = {c1}
    Watch = Watch
    FrozenRun = 2
SPECIFICATION FairSpec
INVARIANTS NoOrphan
PROPERTIES OnlyTheDeadAreReplaced CaptureRetried StateFollowsSource
