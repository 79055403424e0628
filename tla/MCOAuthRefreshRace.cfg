CONSTANTS
    Redeemers = {r1, r2, r3}
    Tokens = {t1, t2}
    MaxEpoch = 1
    MaxGen = 4
    MaxConsents = 2
    Faults = {"skew"}
    None = None
SPECIFICATION Spec
SYMMETRY Symmetric
\* A redeemer redeems once; when all have, nothing is left to do.
CHECK_DEADLOCK FALSE
PROPERTY GrantKept
