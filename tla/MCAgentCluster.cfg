SPECIFICATION FairSpec
CONSTANTS
    c1 = c1
    c2 = c2
    a1 = a1
    NoOwner = NoOwner
    NoAgent = NoAgent
    Cores <- MCCores
    Agents <- MCAgents
    Disturbances = {"lapse", "error", "request"}
    MaxDisturbances = 1
    MaxDowns = 1
INVARIANTS
    TypeOK
    RuntimeExclusive
PROPERTIES
    Failover
    RegistrySettles
    
