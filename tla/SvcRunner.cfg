CONSTANTS
    Names = {old, new}
    Nobody = Nobody
    Clients = {periodicals}
    Updater = periodicals
    MaxPolls = 1
    MaxRenames = 1
    ManagerMayFail = TRUE
SPECIFICATION FairSpec
INVARIANTS
    TypeOK
    StoppedIsNotSupervised
PROPERTIES
    RequestServed
    RestartedAfterExit
    StaleServicesGo
