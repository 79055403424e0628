CONSTANTS
    Calls = {c1, c2, c3}
    Keys = {k1, k2}
    Concurrency = 1
    MaxQueueSize = 1
    QueueTimeout = 2
    MaxPartitions = 1
    MaxCalls = 2
    Window = 2
    MaxCharges = 1
    LastArrival = 2
    None = None
SPECIFICATION Spec
SYMMETRY Interchangeable
INVARIANTS
    RollingBudget NoIdleSlot PermitOwned WaiterReachable IdleMeansDrained
PROPERTIES
    PoolPerKey
