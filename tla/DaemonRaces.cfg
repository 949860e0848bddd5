CONSTANTS
    Runners = {r1}
    Keys = {k1, k2}
    Callers = {loop, service}
    None = None
    Loop = loop
    Service = service
    Races = {"crash", "busy", "service", "fatal", "deadline"}
SPECIFICATION FairSpec
PROPERTIES
    StopReturns
    RoundsEnd
CHECK_DEADLOCK FALSE
