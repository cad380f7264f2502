\* A tab closes while somebody else owns the lock.
CONSTANTS
    sweepc = sweepc  agentc = agentc  tab1 = tab1  tab2 = tab2
    sweepid = sweepid  browser = browser
    a = a  b = b  ctrl = ctrl  shift = shift  btn = btn  chA = chA  cha = cha
    Sockets = {sweepc, agentc}
    Viewers = {tab1}
    Owners = {sweepid, browser}
    NoOwner = NoOwner
    Nobody = Nobody
    NoRequest = NoRequest
    Keys = {a, b}
    Mods = {ctrl, shift}
    Buttons = {btn}
    Chars = {chA, cha}
    Shift = shift
    As <- MCAs
    Asks <- LockAsksOf
    CharMap <- MCCharMap
    Rank <- MCRank
    Remap <- RemapNothing
    Hid = FALSE
    Rollover = 6
    Unplugs = FALSE
SPECIFICATION Spec
INVARIANTS ClosedViewerHoldsNothing
