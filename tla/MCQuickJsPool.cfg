\* Every request runs once: deadlock is the end of the last one.
CONSTANTS
    r1 = r1
    r2 = r2
    r3 = r3
    s1 = s1
    s2 = s2
    None = None
    Requests = {r1, r2}
    Slots = {s1}
    MaxChildren = 2
    MaxChunks = 1
    Faults = {"crash", "error", "garbled", "dirty"}
SPECIFICATION Spec
CHECK_DEADLOCK FALSE
SYMMETRY Callers
INVARIANTS RunWithinLease ChildFitForRun WholeAnswer NoChildLost
PROPERTIES RejectedForCause NoStrayAnswer
