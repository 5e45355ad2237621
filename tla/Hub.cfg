SPECIFICATION FairSpec
CONSTANTS
    c1 = c1
    c2 = c2
    Clients = {c1, c2}
    MaxMessages = 3
    QueueSize = 1
    BufferSize = 2
    Greetings = 2
INVARIANTS
    ServedChannelsAreOpen
PROPERTIES
    FeedSpec
    EmitIsNeverStuck
    GoneBrowsersLeave
CHECK_DEADLOCK FALSE
