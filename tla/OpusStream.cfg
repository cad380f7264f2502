\* Two listeners come and go while encoders die, fail to start and are replaced.
CONSTANTS
    l1 = l1  l2 = l2
    Listeners = {l1, l2}
    Procs = {1, 2}
    MaxPages = 4
    MaxGeneration = 3
    HeaderPages = 2
    RingLen = 1
    Behind = 1
    Keep = 1
SPECIFICATION FairSpec
INVARIANTS OneStream EncoderForListeners
PROPERTIES DeathRepaired OutdatedLeaves
\* stop() ends it.
CHECK_DEADLOCK FALSE
