CONSTANTS
    Slots = {g1, g2}
    NoSlot = NoSlot
    Clients = {periodicals}
    Updater = periodicals
    MaxTries = 1
    Unix = TRUE
    Races = {"timeout"}
SPECIFICATION FairSpec
PROPERTIES
    RequestServed
CHECK_DEADLOCK FALSE
