SPECIFICATION Spec
SYMMETRY Symmetry
CONSTANTS
\* Ratchets: three peers and two keys for a table of two.
    Peers = {d1, d2, d3}
    PeerKeys = {r1, r2}
    ExpirySecs = 1
    PeersMax = 2
    MaxTime = 3
\* Delivery keys: more destinations than places; the clock outlives restarts.
    Destinations = {a, b, c}
    N = 2
    MaxClock = 3
    MaxUses = 5
INVARIANTS
    PeersStayReachable
    
