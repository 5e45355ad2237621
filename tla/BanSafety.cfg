SPECIFICATION Spec
CONSTANTS
    IPs = {ip1}
    Handlers = {h1, h2}
    Boot = boot
    Nil = nil
    Policies <- SomePolicies
    InitialPolicies <- PlainPolicy
    Requests = {"ban", "unban", "settings"}
    MaxStrikes = 1
    DbMayFail = FALSE
    IptablesMayFail = TRUE
    MayStop = TRUE
SYMMETRY Interchangeable
INVARIANTS
    RulesHaveRecords
    DiskBanIsLive
PROPERTIES
    StrikesNeverForgotten
    BootEnforcesBans
CHECK_DEADLOCK FALSE
