CONSTANTS
    Daemons = {d}
    OneShots = {x}
    Lifetime = 7
    RefreshBefore = 5
    CheckInterval = 2
    ErrorInterval = 2
    AuthExpiredInterval = 10
    CallTicks = 1
    LockTimeout = 1
    MaxLogins = 2
    MaxFaults = 2
    NoJar = NoJar
    NoOwner = NoOwner
    Reader = Reader
SPECIFICATION FairSpec
INVARIANTS
    TypeOK
    NeverExpiresUnprovoked
    IndInv
PROPERTIES
    FileNeverGoesBack
    LockReleased
    SessionKeptAlive
