SPECIFICATION Spec
CONSTANTS
    IPs = {ip1}
    Modules = {web}
    NoModule = none
    Handlers = {h1, h2}
    Nil = nil
    Policies <- SomePolicies
    InitialBan = 1
    MaxBan = 3
    MaxWait = 1
    MaxTime = 3
    MaxStrikes = 2
    MaxUnspent = 3
    MaxBlocked = 1
SYMMETRY Interchangeable
INVARIANTS
    CountsSpentOnce
    ExemptPasses
    BannedStaysOut
PROPERTIES
    BansAreEarned
    NoShorterBan
CHECK_DEADLOCK FALSE
