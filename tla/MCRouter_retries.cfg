SPECIFICATION Spec
CONSTANTS
    NoId = NoId
    None = None
    Us = Us
    Ids <- FwdIds
    NSlots = 2
    Config <- RetryConfig
    Dests = {"d"}
    OwnDests = {}
    TransportEnabled = TRUE
    Param <- RetryTimes
    Cap <- PairCap
    Limit <- FwdLimit
    NodeMtu = 2
    LinkMtu = 2
    MaxTime = 3
    HeldMax = 1
    InitRegistry <- FwdRegistry
    InitOnline <- FwdIds
    Packets <- RetryPackets
    HostOps = {"drop_path"}
    HostIds = {"b"}
    RequestTags = {}
INVARIANTS
    AnnouncesAreSpaced
