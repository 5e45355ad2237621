SPECIFICATION FairSpec
CONSTANTS
    IPs = {ip1}
    Handlers = {h1, h2}
    Boot = boot
    Nil = nil
    Policies <- PlainPolicy
    InitialPolicies <- PlainPolicy
    Requests = {"ban", "unban", "settings"}
    MaxStrikes = 1
    DbMayFail = TRUE
    IptablesMayFail = FALSE
    MayStop = TRUE
PROPERTIES
    StaleRuleHeals
CHECK_DEADLOCK FALSE
