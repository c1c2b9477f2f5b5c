SPECIFICATION Spec
CONSTANTS
    NoId = NoId
    None = None
    Us = Us
    Ids <- BridgeIds
    NSlots = 3
    Config <- BridgeConfig
    Dests = {"d"}
    OwnDests = {}
    TransportEnabled = TRUE
    Param <- BridgeTimes
    Cap <- PairCap
    Limit <- BridgeLimit
    NodeMtu = 2
    LinkMtu = 2
    MaxTime = 1
    HeldMax = 1
    InitRegistry <- BridgeRegistry
    InitOnline <- BridgeIds
    Packets <- BridgePackets
    HostOps = {"request_path", "online"}
    HostIds = {"b"}
    RequestTags = {1}
PROPERTIES
    NothingRecordedUnsent
    LiveFramesAreNotLost
