SPECIFICATION Spec
CONSTANTS
    Records <- SomeRecords
    MaxRecords = 3
    Suspects <- SomeSuspects
    Addresses <- SomeAddresses
    IpOfAddress <- SomeIps
    Servers <- SomeServers
    Options <- SomeOptions
    NormAdmin <- Norm
    Cameras <- Two
    Zoom <- SomeZoom
    Faces <- SomeFaces
    InView <- SomeView
    LabelWidth = 3
    LabelLimit = 2
INVARIANTS
    SceneIsFresh
    ClustersApart
    HiddenForAReason
CHECK_DEADLOCK FALSE
