CONSTANTS
    Runners = {r1, r2, r3}
    Keys = {k1, k2}
    Callers = {loop, service}
    None = None
    Loop = loop
    Service = service
    Races = {}
SPECIFICATION Spec
INVARIANTS
    TypeOK
    NoOrphans
    StopLeavesNothing
CHECK_DEADLOCK FALSE
