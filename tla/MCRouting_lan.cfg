SPECIFICATION FairSpec
CONSTANTS
    Shape = "lan"
    Nodes <- MCNodes
    Subnets <- MCSubnets
    Attached <- MCAttached
    Unaddressed <- MCUnaddressed
    Mask <- MCMask
    Covers <- MCCovers
    Started = {"n1"}
    Dests = {"s23"}
    Default = "default"
    Nobody = nobody
    None = none
    Prompt = TRUE
    SetupRace = FALSE
INVARIANTS
    TypeOK
    NextHopsAdvance
    TableIsCurrent
    FoundMeansDevice
PROPERTIES
    Converges
CHECK_DEADLOCK FALSE
