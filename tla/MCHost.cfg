SPECIFICATION Spec
CONSTANTS
    None = None
\* Session, in units of a few seconds: the peer falls silent.
    EstablishmentPerHop = 1
    KeepaliveMin = 1
    KeepaliveDefault = 2
    StaleTimeDefault = 4
    StaleFactor = 2
    StaleGrace = 1
    KeepaliveTimeoutFactor = 1
    UnknownRtt = 1
    KeepalivePerRtt <- MCKeepalivePerRtt
    Hops <- MCHops
    PeerRtts <- MCPeerRtts
    Identities <- MCIdentities
    SilentFrom = 5
    MaxTime = 9
    Patience = 6
\* Transfer: windows of one or two parts, so that three parts need several requests.
    r1 = r1
    r2 = r2
    r3 = r3
    r4 = r4
    Resources = {r1, r3}
    PartLens <- Lens
    MapHash <- Collides
    MAX_ADV_RETRIES = 1
    Deadline = 1
    Rates = {"unknown"}
    MaxFaults = 2
    MaxInFlight = 2
    WINDOW_INITIAL = 1
    WINDOW_MIN = 1
    WINDOW_MAX_SLOW = 2
    WINDOW_MAX_VERY_SLOW = 1
    WINDOW_MAX_FAST = 2
    WINDOW_FLEXIBILITY = 2
    FAST_RATE_THRESHOLD = 2
    VERY_SLOW_RATE_THRESHOLD = 1
\* The queue: every fill level of four slots, wrapped or not.
    Items = {a, b, c}
    Capacity = 4
PROPERTIES
    TicksJudgeSilence
    IdentityAndCloseAreFinal
    SilentPeerIsClosed
    TransfersConclude
    RingImplementsFifo
