CONSTANTS
    o1 = o1
    o2 = o2
    Orders = {o1}
    Batches <- SingleBatches
    Scores = {40, 80}
    Threshold = 60
    Handlers = {h1, h2}
    Relays = {r1}
    BatchSize = 1
    MaxInputs = 1
    MaxFaults = 1
    MaxRelayFaults = 1
    NoScore = NoScore
SPECIFICATION Spec
CHECK_DEADLOCK FALSE
PROPERTY RepeatedVerdictIsNoOp
