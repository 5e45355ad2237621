SPECIFICATION FairSpec
CONSTANTS
    e1 = e1
    e2 = e2
    e3 = e3
    i1 = i1
    i2 = i2
    Events = {e1, e2}
    IPs = {i1, i2}
    IpOf <- TwoIPs
    Far = {e1}
    None = None
    Overview = Overview
    QueueSize = 2
    SuppressFor = 1
    IdleAfter = 2
INVARIANTS
    OffMeansStill
    OneHandOnTheCamera
    CameraGivenBack
    IdleOnlyAfterSilence
PROPERTIES
    EveryLineGoes
    QueueIsFreed
    SilenceBringsOverview
