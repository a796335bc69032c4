SPECIFICATION FairSpec
CONSTANTS
    h1 = h1
    h2 = h2
    h3 = h3
    c1 = c1
    c2 = c2
    NoToken = NoToken
    Handlers <- MCHandlers
    Cores <- MCCores
    CoreOf <- MCCoreOf
    LockTtl = 3
    ExtendS = 1
    MaxLate = 1
    Retry = 1
INVARIANTS
    TypeOK
    TimelyHoldsLock
PROPERTIES
    ImplementsContract
    OnlyHolderDeletes
    OrphanLockExpires
CHECK_DEADLOCK FALSE
