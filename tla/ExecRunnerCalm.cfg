CONSTANTS
    Slots = {g1, g2}
    NoSlot = NoSlot
    Clients = {periodicals}
    Updater = periodicals
    MaxTries = 2
    Unix = TRUE
    Races = {}
SPECIFICATION FairSpec
INVARIANTS
    TypeOK
    OldLaunchesKilled
    QuietIsConsistent
    CrashLoopBounded
    AnswersTruly
PROPERTIES
    ShutdownStops
    RequestServed
    ImplementsRunner
    EndsWhatItBegins
