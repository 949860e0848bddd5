CONSTANTS
    Keys = {k1, k2}
    Pinned = {k1}
    Settings = {s1, s2, svc}
    Unsupported = {svc}
    Templates = {t1, t2, bad}
    Broken = {bad}
    None = None
    Faults = {"hollowList"}
    MaxChanges = 2
SPECIFICATION Spec
PROPERTIES
    PinnedStay
