SPECIFICATION Spec
CONSTANTS
    c1 = c1
    c2 = c2
    c3 = c3
    k1 = k1
    k2 = k2
    Conns = {c1, c2, c3}
    Keys = {k1, k2}
    KeyOf <- TwoKeys
    Finds = {c2, c3}
    Modes = {"plugin", "iptables"}
    NextCap <- Double
    WireSize = 1
INVARIANTS
    EveryCountAnnouncedOnce
    ActiveTracksFrps
    OnlyOldRecordsLag
CHECK_DEADLOCK FALSE
