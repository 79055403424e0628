CONSTANTS
    Keys = {k1, k2}
    Linkable = {k2}
    Memos = {m1}
    Reads = {r1, r2}
    Writes = {w1}
    Drivers = {"sql"}
    Faults = {}
    MaxExternal = 0
    None = None
SPECIFICATION Spec
SYMMETRY Symmetric
\* Each read and each write happens once; when all have, nothing is left to do.
CHECK_DEADLOCK FALSE
INVARIANTS
    NeverHidden
