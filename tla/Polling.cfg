CONSTANTS
    MaxPages = 2
    PageSize = 1
    MaxOrders = 3
    MaxRank = 3
    MaxChanges = 2
    MaxWaiting = 1
    MaxFaults = 1
SPECIFICATION FairSpec
INVARIANTS
    TypeOK
    MissesExplained
    RequestSafe
    IndInv
PROPERTIES
    EventuallyAssessed
