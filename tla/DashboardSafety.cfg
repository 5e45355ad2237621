SPECIFICATION ScreenSpec
CONSTANTS
    c1 = c1
    c2 = c2
    k1 = k1
    Conns = {c1, c2}
    Keys = {k1}
    KeyOf <- OneKey
    Finds = {c2}
    Modes = {"plugin", "iptables"}
    NextCap <- Double
    WireSize = 2
INVARIANTS
    NewcomersShownOnce
    CalmGreetingHeals
CHECK_DEADLOCK FALSE
