CONSTANTS
    Slots = {g1, g2}
    NoSlot = NoSlot
    Clients = {periodicals}
    Updater = periodicals
    MaxTries = 1
    Unix = FALSE
    Races = {"spawn", "timeout", "look", "giveUp"}
SPECIFICATION Spec
INVARIANTS
    RunningHasMonitor
SYMMETRY SlotSymmetry
CHECK_DEADLOCK FALSE
