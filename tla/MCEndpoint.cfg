SPECIFICATION Spec
SYMMETRY Symmetry
CONSTANTS
    None = None
\* Announce order: wall clocks that repeat, stand still and pass the last value.
    AnnounceTimeMax = 4
    WallTimes = {0, 2, 3, 5}
\* Ratchet ring: two places, a rotation every unit, expiry after two.
    ExpirySecs = 2
    RingMax = 2
    IntervalSecs = 1
    MaxKeys = 4
    MaxTime = 6
\* Seen messages: more than twice the ring, so that it wraps, before and after restarts.
    Ids = {a, b, c, d, e}
    N = 3
    MaxStored = 7
\* Handshake: through the relay or directly, packets repeated and reordered.
    a1 = a1
    a2 = a2
    f1 = f1
    Attempts <- MCAttempts
    Native <- MCNative
    Destinations = {local, remote}
    Ours = {local}
    Signallings <- MCSignallings
    MaxAnswers = 2
\* Advertisements: sizes on both sides of a cipher block, of one, two and eight packets,
\* and beyond the largest transfer.
    Sizes = {0, 1, 11, 12, 13, 411, 412, 875, 876, 1339, 1340, 3658, 3659, 3660}
    Requests = {"id1", "id2"}
\* Windows: the constants of resource.rs; more fast batches than the promotion takes.
    WINDOW_INITIAL = 4
    WINDOW_MIN = 2
    WINDOW_MAX_SLOW = 10
    WINDOW_MAX_VERY_SLOW = 4
    WINDOW_MAX_FAST = 75
    WINDOW_FLEXIBILITY = 4
    FAST_RATE_THRESHOLD = 4
    VERY_SLOW_RATE_THRESHOLD = 2
    MaxRounds = 5
INVARIANTS
    AdvertisedKeysAreKept
    AgesAreConservative
    StoredCandidatesCommit
    RecentMessagesAreStoredOnce
    EndsAgree
    RelayedProofsAreAccepted
    AdmittedTransfersFit
    WindowStaysOpen
PROPERTY AnnouncesAdvance
