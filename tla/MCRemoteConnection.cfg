CONSTANTS
    Callers = {c1, c2}
    Modes = {"oauth", "credential"}
    MaxVersion = 1
    None = None
SPECIFICATION FairSpec
\* Each call is made once; when all are over, nothing is left to do.
CHECK_DEADLOCK FALSE
INVARIANTS
    SessionOwned OneAttempt CachedUsable NotStale
PROPERTIES
    CallAnswered SessionsEnd
