SPECIFICATION Spec
CONSTANTS
    IPs = {ip1}
    Handlers = {h1}
    Boot = boot
    Nil = nil
    Policies <- PlainPolicy
    InitialPolicies <- PlainPolicy
    Requests = {"ban"}
    MaxStrikes = 2
    DbMayFail = FALSE
    IptablesMayFail = FALSE
    MayStop = FALSE
INVARIANT BanEnforced
CHECK_DEADLOCK FALSE
