SPECIFICATION Spec
CONSTANTS
    NoId = NoId
    None = None
    Us = Us
    Ids <- FwdIds
    NSlots = 2
    Config <- FwdConfig
    Dests = {"d"}
    OwnDests = {}
    TransportEnabled = TRUE
    Param <- Times
    Cap <- FwdCap
    Limit <- FwdLimit
    NodeMtu = 2
    LinkMtu = 2
    MaxTime = 2
    HeldMax = 1
    InitRegistry <- FwdRegistry
    InitOnline <- FwdIds
    Packets <- FwdPackets
    HostOps = {"online", "drop_path"}
    HostIds = {"b"}
    RequestTags = {}
INVARIANTS
    TokensNameTheirOwner
    RoutesNameLiveInterfaces
    ProofReturnedOnce
PROPERTIES
    DeadFramesStayDead
    NothingRecordedUnsent
