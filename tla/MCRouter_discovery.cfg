SPECIFICATION Spec
CONSTANTS
    NoId = NoId
    None = None
    Us = Us
    Ids <- DiscIds
    NSlots = 2
    Config <- DiscConfig
    Dests = {"d"}
    OwnDests = {}
    TransportEnabled = TRUE
    Param <- Times
    Cap <- DiscCap
    Limit <- DiscLimit
    NodeMtu = 2
    LinkMtu = 2
    MaxTime = 2
    HeldMax = 1
    InitRegistry <- FwdRegistry
    InitOnline <- DiscOnline
    Packets <- DiscPackets
    HostOps = {"register", "reset"}
    HostIds = {"b", "c"}
    RequestTags = {}
INVARIANTS
    RequestersAreCurrent
