SPECIFICATION FairSpec
CONSTANTS
    MaxSessions = 2
    MaxFaults = 3
INVARIANTS
    TypeOK
    ProvisionedIsComplete
    DeprovisionedIsGone
    CrashLosesAtMostOne
    FailedProvisionLeavesNothing
PROPERTIES
    EventuallyClean
    ImplementsProvider
