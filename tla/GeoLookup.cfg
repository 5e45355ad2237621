SPECIFICATION FairSpec
CONSTANTS
    a = a
    b = b
    p = p
    i = i
    Nil = Nil
    Callers = {a, b, p}
    Peekers = {p}
    IPs = {i}
    Window = 1
    ActiveTTL = 1
    NormalTTL = 2
INVARIANTS
    OneQueryPerIP
    AnswersNeverGoBack
PROPERTIES
    WaitersShareAnswer
    LookupsReturn
CHECK_DEADLOCK FALSE
