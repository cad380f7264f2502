\* Two viewers come and go and empty the ring while encoders die, fail to start
\* and are replaced; the constants are those of "stream", see MCH264Sidecar.
CONSTANTS
    Viewers = {v1, v2}
    Encoders = {1, 2}
    MaxFrames = 2
    Gop = 2
    RingLen = 2
    Throttles = FALSE
    Dies = TRUE
    Stops = FALSE
SPECIFICATION SettingsSpec
INVARIANTS IdleMeansStopped LeaseCounted
PROPERTIES StartsOnKeyframe NoReplay DeathNoticed
