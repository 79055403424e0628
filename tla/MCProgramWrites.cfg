\* A program that was answered stops: deadlock there is its end.
CONSTANTS
    w1 = w1
    w2 = w2
    Calls = {w1, w2}
    Kinds <- Connectors
    Budgeted = {w1}
    MaxWrites = 1
    MaxRequests <- Requests
SPECIFICATION FairSpec
CHECK_DEADLOCK FALSE
INVARIANTS FailedNeverApplied RetrySafe EffectsAccounted
PROPERTIES NothingLate ProgramAnswered
