SPECIFICATION Spec
CONSTANTS
    t1 = t1  t2 = t2  t3 = t3  a1 = a1
    Tasks = {t1, t2, t3}
    Accounts = {a1}
    AccountOf <- OneAccountThreeTasks
    Rank <- RankThree
    Runs = {r1, r2}
    Sweepers = {w1}
    NoTask = NoTask
    Faults = {}
    MaxFaults = 0
    MaxTries = 0
    MaxJobs = 2
INVARIANT OneTaskRunsPerAccount
CHECK_DEADLOCK FALSE
