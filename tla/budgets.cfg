SPECIFICATION Spec
CONSTANTS
    a1 = a1  a2 = a2  w1 = w1  None = None  Broken = Broken
    Accounts = {a1, a2}
    Creds = {c1}
    FirstCreds = {}
    Limit = 1
    MaxCreds = 1
    LocalCred = c1
    Workers = {w1}
    Slots = {s1, s2}
    WorkerOf <- OneWorker
    Gateway = Gateway
    Writes = {"joins_per_day", "reactions_per_day"}
    Sensitive = {"joins_per_day"}
    Reads = {"get_chat_info"}
    UseCases = {"join_groups"}
    UseOf <- OneUseCase
    Orders <- Ordered
    Watched <- Recorded1
    Proxies = {1}
    ProxyOf <- Host
    Files <- Contents
    Defaults <- CodeDefaults
    TopCap <- LargestCaps
    Window = 2
INVARIANT CountIsLower
INVARIANT OverfillNeedsImport
INVARIANT EveryCounterExpires
INVARIANT AggregateWithinMembers
INVARIANT AtMostTwoWindows
INVARIANT ZeroRemainingIsRefused
INVARIANT NoCallIsUncounted
SYMMETRY SlotSymmetry
CHECK_DEADLOCK FALSE
