SPECIFICATION FairSpec
CONSTANTS
    MaxSessions = 1
    MaxFaults = 1
PROPERTY EventuallyClean
