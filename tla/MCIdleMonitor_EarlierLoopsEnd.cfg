SPECIFICATION FairSpec
CONSTANTS
    Timeout = 2
    WarningPeriod = 1
    t1 = t1
    t2 = t2
    Traffic = {t1, t2}
    MaxStarts = 2
PROPERTY EarlierLoopsEnd
