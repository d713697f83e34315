CONSTANTS
    Notes = {n1}
    Malformed = {}
    Unsendable = {}
    Volatile = {n1}
    Handlers = {h1}
    MaxAttempts = 2
    MaxFaults = 1
    MaxStops = 0
    NoNote = NoNote
SPECIFICATION Spec
SYMMETRY Symmetry
CHECK_DEADLOCK FALSE
INVARIANTS
    LossExcluded
