SPECIFICATION Spec
CONSTANTS
    NoId = NoId
    None = None
    Us = Us
    Ids <- FwdIds
    NSlots = 2
    Config <- AnnConfig
    Dests = {"d", "e"}
    OwnDests = {}
    TransportEnabled = TRUE
    Param <- AnnTimes
    Cap <- AnnCap
    Limit <- AnnLimit
    NodeMtu = 2
    LinkMtu = 2
    MaxTime = 2
    HeldMax = 1
    InitRegistry <- FwdRegistry
    InitOnline <- FwdIds
    Packets <- AnnPackets
    HostOps = {"online", "send_local"}
    HostIds = {"b"}
    RequestTags = {}
INVARIANTS
    PendingTargetsAreAllowed
