SPECIFICATION FairSpec
CONSTANTS
    t1 = t1  t2 = t2  t3 = t3  a1 = a1
    Tasks = {t1, t2}
    Accounts = {a1}
    AccountOf <- OneAccountTwoTasks
    Rank <- RankTwo
    Runs = {r1, r2}
    Sweepers = {w1}
    NoTask = NoTask
    Faults = {"crash", "timeout", "upset", "error"}
    MaxFaults = 1
    MaxTries = 0
    MaxJobs = 2
INVARIANT OneExecutingRow
PROPERTY ImplementsSlot
PROPERTY SlotIsReleased
PROPERTY EveryTaskSettles
CHECK_DEADLOCK FALSE
