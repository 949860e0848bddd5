CONSTANTS
    Keys = {k1, k2}
    Pinned = {k1}
    Settings = {s1, s2, svc}
    Unsupported = {svc}
    Templates = {t1, bad}
    Broken = {bad}
    None = None
    Faults = {"down", "hollowRegistration", "hollowList", "hollowConfig", "unwritable",
              "unvalidated"}
    MaxChanges = 2
SPECIFICATION Spec
INVARIANTS
    RunnersFollowStores
SYMMETRY ValueSymmetry
