SPECIFICATION FairSpec
CONSTANTS
    Timeout = 2
    WarningPeriod = 1
    t1 = t1
    t2 = t2
    Traffic = {t1, t2}
    MaxStarts = 3
INVARIANTS
    TypeOK
    EnabledIsWatched
    OneTimeoutPerStart
    WarnedOncePerIdlePeriod
PROPERTIES
    IdleIsEnded
    StoppedLoopsEnd
