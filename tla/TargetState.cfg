\* Two threads that sample, a verify_input, the heartbeat and one client with any
\* power commands, at a machine that does what it likes.
CONSTANTS
    poller = poller
    Samplers = {poller, snapshot}
    client = client
    Callers = {client}
    Heartbeat = Heartbeat
    None = None
    Lamps = {"caps", "scroll"}
SPECIFICATION MCSpec
INVARIANTS ClaimsAreSinceOff
PROPERTIES PowerIsFollowed OutlivedIsDropped
