SPECIFICATION Spec
CONSTANTS
    None = None
\* Transfer: windows of one or two parts, so that one resource needs several requests.
    r1 = r1
    r2 = r2
    r3 = r3
    r4 = r4
    Resources = {r1, r2, r4}
    PartLens <- ShortLens
    MapHash <- Collides
    MAX_ADV_RETRIES = 1
    Deadline = 1
    Rates = {"unknown"}
    MaxFaults = 1
    MaxInFlight = 2
    WINDOW_INITIAL = 1
    WINDOW_MIN = 1
    WINDOW_MAX_SLOW = 2
    WINDOW_MAX_VERY_SLOW = 1
    WINDOW_MAX_FAST = 2
    WINDOW_FLEXIBILITY = 2
    FAST_RATE_THRESHOLD = 2
    VERY_SLOW_RATE_THRESHOLD = 1
\* Pacing: a second of four units; grace and steady rates differ and may be
\* exchanged; a cap that does not divide the airtime.
    Milli = 4
    steady_per_sec = 1
    grace_per_sec = 2
    Grace = 5
    OtherRates <- Exchanged
    TxTimes = {1, 2}
    cap_permille = 3
    Permille = 4
    MaxQueue = 2
\* The radio: a sequence value comes round exactly when a second half expires;
\* the budget of three units admits one short packet and is exceeded by a long
\* one, which takes a whole window, so that long packets can follow on one another.
    FrameAir = 2
    window_ms = 4
    max_utilization_bps = 7500
    split_timeout_ms = 10
    Sequences4 = 3
INVARIANTS
    PayloadsArriveIntact
    FailureIsEarned
    AnnouncesWithinBudget
    
    OneWaitSuffices
