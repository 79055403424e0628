\* QueueTimeout > MaxDuration: a lease is overdue while a waiter still has time.
CONSTANTS
    Requests = {r1, r2, r3}
    Concurrency = 1
    MaxQueueSize = 2
    QueueTimeout = 2
    MaxDuration = 1
    ReapFallback = 2
    LastArrival = 1
SPECIFICATION Spec
INVARIANTS
    NoIdleSlot
    LeaseOwned
PROPERTIES
    ServedInOrder
    NothingStartsAfterClose
    PoolSpec
    WaiterAnswered
    OverdueReclaimed
