CONSTANTS
    Redeemers = {r1, r2}
    Tokens = {t1, t2}
    MaxEpoch = 2
    MaxGen = 3
    MaxConsents = 2
    Faults = {"storage", "lost", "expire", "reset", "reissue"}
    None = None
SPECIFICATION Spec
SYMMETRY Symmetric
\* A redeemer redeems once; when all have, nothing is left to do.
CHECK_DEADLOCK FALSE
INVARIANT UnansweredBlocked ResetFences
PROPERTY NoReplay AmbiguousIsFinal
