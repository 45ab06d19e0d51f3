SPECIFICATION Spec
CONSTANTS
    Runs = {r1, r2}
    JobTimeout = 2
    Lease = 3
    SweepEvery = 1
    Scale = 1
    Horizon <- TwoCycles
INVARIANT LiveLeaseHolds
INVARIANT OrphanRequeuedInTime
CHECK_DEADLOCK FALSE
