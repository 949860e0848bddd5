CONSTANTS
    Runners = {r1, r2}
    Keys = {k1}
    Callers = {loop, service}
    None = None
    Loop = loop
    Service = service
    Races = {"crash"}
SPECIFICATION Spec
INVARIANTS
    NoOrphans
SYMMETRY Interchangeable
CHECK_DEADLOCK FALSE
