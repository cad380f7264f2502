\* The last viewer leaves and another comes before the old reader has ended.
CONSTANTS
    Viewers = {v1, v2}
    Encoders = {1, 2, 3}
    MaxFrames = 1
    Gop = 2
    RingLen = 2
    Throttles = FALSE
    Dies = FALSE
    Stops = FALSE
SPECIFICATION Spec
INVARIANTS OneEncoder
