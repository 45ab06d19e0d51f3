SPECIFICATION Spec
CONSTANTS
    Days = 7
    Hours = 3
    Windows <- Offices
    Zones <- WestAndEast
    RestSets <- Draws
    Workers = {w1, w2}
    None = None
    Cron = 0
    MaxRows = 2
INVARIANT OneActionPerDay
INVARIANT OpeningIsRight
INVARIANT DeferralEnds
SYMMETRY WorkerSymmetry
CHECK_DEADLOCK FALSE
