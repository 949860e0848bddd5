CONSTANTS
    Keys = {k1, k2}
    Pinned = {k1}
    Settings = {s1, s2, svc}
    Unsupported = {svc}
    Templates = {t1, t2}
    Broken = {}
    None = None
    Faults = {"down", "unvalidated"}
    MaxChanges = 2
SPECIFICATION FairSpec
INVARIANTS
    TypeOK
    CachedIsOnDisk
    KeptIsInForce
    RunnersFollowStores
PROPERTIES
    PinnedStay
    Converges
    ImplementsMirror
