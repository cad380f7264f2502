\* The host of the gadget goes away and comes back while keys and buttons are
\* pressed and swept up.
CONSTANTS
    sweepc = sweepc  agentc = agentc  tab1 = tab1  tab2 = tab2
    sweepid = sweepid  browser = browser
    a = a  b = b  ctrl = ctrl  shift = shift  btn = btn  chA = chA  cha = cha
    Sockets = {sweepc, agentc}
    Viewers = {}
    Owners = {sweepid, browser}
    NoOwner = NoOwner
    Nobody = Nobody
    NoRequest = NoRequest
    Keys = {a, b}
    Mods = {ctrl, shift}
    Buttons = {btn}
    Chars = {chA, cha}
    Shift = shift
    As <- HostAs
    Asks <- HostAsks
    CharMap <- MCCharMap
    Rank <- MCRank
    Remap <- RemapNothing
    Hid = TRUE
    Rollover = 6
    Unplugs = TRUE
SPECIFICATION Spec
PROPERTIES SweptIsUp
