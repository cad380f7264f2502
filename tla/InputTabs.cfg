\* Two tabs come and go and a socket client sends; nobody takes the lock.  HID
\* gadget, a report carries one key.
CONSTANTS
    sweepc = sweepc  agentc = agentc  tab1 = tab1  tab2 = tab2
    sweepid = sweepid  browser = browser
    a = a  b = b  ctrl = ctrl  shift = shift  btn = btn  chA = chA  cha = cha
    Sockets = {agentc}
    Viewers = {tab1, tab2}
    Owners = {sweepid, browser}
    NoOwner = NoOwner
    Nobody = Nobody
    NoRequest = NoRequest
    Keys = {a, b}
    Mods = {ctrl, shift}
    Buttons = {btn}
    Chars = {chA, cha}
    Shift = shift
    As <- TabsAs
    Asks <- TabsAsks
    CharMap <- MCCharMap
    Rank <- MCRank
    Remap <- RemapNothing
    Hid = TRUE
    Rollover = 1
    Unplugs = FALSE
SPECIFICATION Spec
INVARIANTS ClosedViewerHoldsNothing
