SPECIFICATION FairSpec
CONSTANTS
    r1 = r1
    t1 = t1
    q1 = q1
    Runs <- OneRun
    Ticks <- OneTick
    Requests <- OneRequest
    Ready = 3
    Due <- DueDays
    LastDay = 3
    Strikes = 3
    MaxRestarts = 1
INVARIANT TierNeedsDays
INVARIANT WarmupIsUnfinished
PROPERTY ParkedHolds
PROPERTY WarmupEnds
PROPERTY ReloadedProxySleeps
