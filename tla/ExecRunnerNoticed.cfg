CONSTANTS
    Slots = {g1, g2}
    NoSlot = NoSlot
    Clients = {periodicals}
    Updater = periodicals
    MaxTries = 1
    Unix = FALSE
    Races = {"timeout", "look", "giveUp"}
SPECIFICATION Spec
INVARIANTS
    OldLaunchesKilled
    AnswersTruly
PROPERTIES
    ShutdownStops
CHECK_DEADLOCK FALSE
