SPECIFICATION InsideSpec
CONSTANTS
    q1 = q1
    q2 = q2
    s1 = s1
    g1 = g1
    l1 = l1
    l2 = l2
    Queries = {q1, q2}
    Providers = {s1}
    Geocoders = {g1}
    Loads = {l1, l2}
    Reloaded = {1}
    MaxFails = 2
    Cooldown = 1
    p1 = p1
    p2 = p2
    p3 = p3
    Putters = {p1, p2, p3}
    Flusher = flusher
    None = none
    PersistEvery = 2
    MaxStarts = 1
SYMMETRY Symmetry
INVARIANTS
    AnswersAreUsed
    FileIsLastSave
    FileLagsLittle
PROPERTY
    PassedOverIfTripped
CHECK_DEADLOCK FALSE
