CONSTANTS
    Callers = {c1, c2}
    Modes = {"credential"}
    MaxVersion = 0
    None = None
SPECIFICATION Spec
\* Each call is made once; when all are over, nothing is left to do.
CHECK_DEADLOCK FALSE
PROPERTY SiblingsKept
