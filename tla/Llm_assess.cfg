CONSTANTS
    o1 = o1
    o2 = o2
    Orders = {o1, o2}
    Envelopes <- Overlapping
    Malformed = Malformed
    Scores = {40, 80}
    Threshold = 70
    Handlers = {h1, h2}
    MaxInputs = 1
    MaxFaults = 1
SPECIFICATION FairSpec
CHECK_DEADLOCK FALSE
INVARIANTS
    TypeOK
    NoOrderLost
    VerdictsExplained
    IndInv
    VerdictInv
PROPERTIES
    SettledOrTriedAgain
