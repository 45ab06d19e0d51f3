SPECIFICATION Spec
CONSTANTS
    t1 = t1  t2 = t2  t3 = t3  a1 = a1
    Tasks = {t1, t2}
    Accounts = {a1}
    AccountOf <- OneAccountTwoTasks
    Rank <- RankTwo
    Runs = {r1, r2}
    Sweepers = {w1, w2}
    NoTask = NoTask
    Faults = {"timeout"}
    MaxFaults = 1
    MaxTries = 0
    MaxJobs = 2
PROPERTY RunningIsNeverReset
CHECK_DEADLOCK FALSE
