CONSTANTS
    Processes = {sidecar}
    Sidecar = sidecar
    Ids = {i1, i2}
    Intervals = {0, 1}
    Absent = Absent
    Empty = Empty
SPECIFICATION Spec
INVARIANTS
    IntervalIsPositive
SYMMETRY IdSymmetry
