SPECIFICATION FairSpec
CONSTANTS
    c1 = c1
    c2 = c2
    a1 = a1
    NoOwner = NoOwner
    Cores <- MCCores
    Agents <- MCAgents
    LeaseTtl = 3
    HeartbeatS = 1
    MaxLate = 1
    MaxFaults = 2
INVARIANTS
    TypeOK
    FreshOwnerHoldsLease
PROPERTIES
    ImplementsContract
    LossIsNoticed
    UntrackedLeaseEnds
CHECK_DEADLOCK FALSE
