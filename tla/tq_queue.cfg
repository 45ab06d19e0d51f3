SPECIFICATION Spec
CONSTANTS
    t1 = t1  t2 = t2  t3 = t3  a1 = a1
    Tasks = {t1, t2}
    Accounts = {a1}
    AccountOf <- OneAccountTwoTasks
    Rank <- RankTwo
    Runs = {r1, r2}
    Sweepers = {w1}
    NoTask = NoTask
    Faults = {"upset"}
    MaxFaults = 1
    MaxTries = 1
    MaxJobs = 2
INVARIANT HeadIsDriven
SYMMETRY RunSymmetry
CHECK_DEADLOCK FALSE
