CONSTANTS
    Notes = {n1, n2}
    Malformed = {n2}
    Unsendable = {}
    Volatile = {n1}
    Handlers = {h1, h2}
    MaxAttempts = 3
    MaxFaults = 2
    MaxStops = 1
    NoNote = NoNote
SPECIFICATION FairSpec
CHECK_DEADLOCK FALSE
PROPERTIES
    EventuallySettled
INVARIANTS
    TypeOK
    NoNotificationLost
    AttemptBudget
    DuplicatesExplained
    DeadLettersJustified
    IndInv
