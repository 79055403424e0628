CONSTANTS
    Redeemers = {r1, r2}
    Tokens = {t1}
    MaxEpoch = 2
    MaxGen = 3
    MaxConsents = 2
    Faults = {"crash", "lost", "refuse", "reset", "reissue"}
    None = None
SPECIFICATION FairSpec
\* A redeemer redeems once; when all have, nothing is left to do.
CHECK_DEADLOCK FALSE
PROPERTY NobodyWaitsForEver
