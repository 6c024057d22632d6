SPECIFICATION FairSpec
CONSTANTS
    MaxSessions = 2
    MaxFaults = 2
INVARIANTS
    TypeOK
    ProvisionedIsComplete
    DeprovisionedIsGone
    CompleteIsRemovable
    FailedProvisionLeavesOnlyGateway
PROPERTIES
    InstancesEnd
    ImplementsProvider
