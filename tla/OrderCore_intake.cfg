CONSTANTS
    o1 = o1
    o2 = o2
    Orders = {o1, o2}
    Batches <- CrossedBatches
    Scores = {80, 101}
    Threshold = 60
    Handlers = {h1, h2}
    Relays = {r1}
    BatchSize = 2
    MaxInputs = 2
    MaxFaults = 2
    MaxRelayFaults = 0
    NoScore = NoScore
SPECIFICATION Spec
SYMMETRY Symmetry
CHECK_DEADLOCK FALSE
INVARIANTS
    TypeOK
    OrdersAndRequestsTogether
    NoMessageLost
    IndInv
