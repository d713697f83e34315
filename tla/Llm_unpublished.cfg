CONSTANTS
    o1 = o1
    o2 = o2
    Orders = {o1}
    Envelopes <- Single
    Malformed = Malformed
    Scores = {40, 80}
    Threshold = 70
    Handlers = {h1}
    MaxInputs = 1
    MaxFaults = 1
SPECIFICATION Spec
CHECK_DEADLOCK FALSE
SYMMETRY Symmetry
INVARIANTS
    PublishFailureRetried
