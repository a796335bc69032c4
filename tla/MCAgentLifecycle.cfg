SPECIFICATION FairSpec
CONSTANTS
    a1 = a1
    a2 = a2
    None = None
    Order <- MCOrder
    MaxCalls = 3
    MaxFailures = 1
INVARIANTS
    TypeOK
    
PROPERTY
    ResyncRevives
