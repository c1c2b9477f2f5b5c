SPECIFICATION Spec
CONSTANTS
    NoId = NoId
    None = None
    Us = Us
    Ids <- FwdIds
    NSlots = 2
    Config <- LearnConfig
    Dests = {"d", "e", "g", "own"}
    OwnDests = {"own"}
    TransportEnabled = TRUE
    Param <- Times
    Cap <- LearnCap
    Limit <- LearnLimit
    NodeMtu = 2
    LinkMtu = 2
    MaxTime = 2
    HeldMax = 1
    InitRegistry <- FwdRegistry
    InitOnline <- FwdIds
    Packets <- LearnPackets
    HostOps = {}
    HostIds = {"b"}
    RequestTags = {}
INVARIANTS
    CacheMatchesPath
PROPERTIES
    PathsAreNotRolledBack
    BulkPathsYield
