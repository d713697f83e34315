CONSTANTS
    o1 = o1
    o2 = o2
    Orders = {o1}
    Batches <- SingleBatches
    Scores = {80, 101}
    Threshold = 60
    Handlers = {h1, h2}
    Relays = {r1}
    BatchSize = 1
    MaxInputs = 1
    MaxFaults = 0
    MaxRelayFaults = 0
    NoScore = NoScore
SPECIFICATION FairSpec
CHECK_DEADLOCK FALSE
PROPERTY InvalidVerdictDeadLettered
