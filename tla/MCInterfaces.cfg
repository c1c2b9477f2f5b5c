SPECIFICATION Spec
SYMMETRY Symmetry
CONSTANTS
    None = None
\* Set-up: calls in any order, valid and refused ones.
    Hashes = {h1, h2, h3}
    Configs <- MCConfigs
    Descriptors <- MCDescriptors
    Capacities <- MCCapacities
    MAX_INTERFACES = 2
    ROUTER_LOCAL_SLOTS = 3
    LOCAL_LINKS_MAX = 1
    WATCHED_DESTINATIONS_MAX = 1
\* Retained frames: queued, selected and sent while two interfaces reconnect and
\* are replaced.
    Interfaces = {i1, i2}
    Far = far
    Modes = {full, gateway}
    OUTBOUND = 1
    MaxIdentity = 2
    MaxGeneration = 3
INVARIANTS
    SetupsStayUsable
    ReplacementsGetNothingOld
    
