SPECIFICATION Spec
CONSTANTS
    Jobs = {j1, j2, j3}
    MaxAttempts = 5
    Backoff <- BackoffUnits
    Window = 30
    SweepEvery = 10
    SendTime = 1
    Latency = 4
    Redelivery = 21
    Faults = {"lost"}
    MaxFaults = 2
INVARIANT OneJobPerRow
INVARIANT PostsAreBounded
PROPERTY DeliveredIsFinal
SYMMETRY JobSymmetry
CHECK_DEADLOCK FALSE
