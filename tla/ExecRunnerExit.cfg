CONSTANTS
    Slots = {g1, g2, g3}
    NoSlot = NoSlot
    Clients = {periodicals, service}
    Updater = periodicals
    MaxTries = 3
    Unix = TRUE
    Races = {"exit"}
SPECIFICATION Spec
INVARIANTS
    OldLaunchesKilled
SYMMETRY SlotSymmetry
CHECK_DEADLOCK FALSE
