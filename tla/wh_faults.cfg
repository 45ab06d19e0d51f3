SPECIFICATION FairSpec
CONSTANTS
    Jobs = {j1, j2, j3}
    MaxAttempts = 3
    Backoff <- ShortBackoff
    Window = 60
    SweepEvery = 20
    SendTime = 1
    Latency = 1
    Redelivery = 42
    Faults = {"lost", "crash", "sweep"}
    MaxFaults = 1
INVARIANT FaultsAddOneJob
INVARIANT CrashesMultiplyPosts
PROPERTY EveryEventLeaves
CHECK_DEADLOCK FALSE
