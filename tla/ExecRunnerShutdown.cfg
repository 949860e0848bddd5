CONSTANTS
    Slots = {g1, g2}
    NoSlot = NoSlot
    Clients = {periodicals, service}
    Updater = periodicals
    MaxTries = 3
    Unix = TRUE
    Races = {}
SPECIFICATION Spec
PROPERTIES
    SupervisorObeysShutdown
