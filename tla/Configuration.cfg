CONSTANTS
    Processes = {sidecar}
    Sidecar = sidecar
    Ids = {i1, i2}
    Intervals = {0, 1, 2}
    Absent = Absent
    Empty = Empty
SPECIFICATION FairSpec
INVARIANTS
    TypeOK
    NodeIdKept
    EmptyOnlyIfLost
    DifferencesAreMarked
PROPERTIES
    OverridesEnd
