CONSTANTS
    o1 = o1
    o2 = o2
    Orders = {o1, o2}
    Batches <- CrossedBatches
    Scores = {}
    Threshold = 60
    Handlers = {h1, h2}
    Relays = {}
    BatchSize = 1
    MaxInputs = 3
    MaxFaults = 1
    MaxRelayFaults = 0
    NoScore = NoScore
SPECIFICATION FairSpec
CHECK_DEADLOCK FALSE
PROPERTIES
    MessagesHandled
