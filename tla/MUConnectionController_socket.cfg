\* The UDP socket of an earlier try is released again.
CONSTANTS
    MaxConns = 1
    None = None
    MaxReconnects = 1
    Faults = {}
SPECIFICATION Spec
PROPERTIES
    TeardownNeedsSocket
\* The user may be done, and the network silent.
CHECK_DEADLOCK FALSE
