CONSTANTS
    Runners = {r1, r2}
    Keys = {k1}
    Callers = {loop, service}
    None = None
    Loop = loop
    Service = service
    Races = {"service"}
SPECIFICATION Spec
INVARIANTS
    StopLeavesNothing
SYMMETRY Interchangeable
CHECK_DEADLOCK FALSE
