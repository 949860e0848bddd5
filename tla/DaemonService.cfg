CONSTANTS
    Runners = {r1, r2}
    Keys = {k1}
    Callers = {loop, service}
    None = None
    Loop = loop
    Service = service
    Races = {"busy", "service"}
SPECIFICATION FairSpec
PROPERTIES
    StopReturns
CHECK_DEADLOCK FALSE
