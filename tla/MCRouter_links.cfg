SPECIFICATION Spec
CONSTANTS
    NoId = NoId
    None = None
    Us = Us
    Ids <- FwdIds
    NSlots = 2
    Config <- LinkConfig
    Dests = {"d"}
    OwnDests = {}
    TransportEnabled = TRUE
    Param <- Times
    Cap <- LinkCap
    Limit <- LinkLimit
    NodeMtu = 2
    LinkMtu = 2
    MaxTime = 3
    HeldMax = 1
    InitRegistry <- FwdRegistry
    InitOnline <- FwdIds
    Packets <- LinkPackets
    HostOps = {"online"}
    HostIds = {"a"}
    RequestTags = {}
INVARIANTS
    TokensNameTheirOwner
PROPERTIES
    NothingRecordedUnsent
    LinksAreNotEvicted
