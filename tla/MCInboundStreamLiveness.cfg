SPECIFICATION FairSpec
CONSTANTS
    c1 = c1
    c2 = c2
    a1 = a1
    m1 = m1
    m2 = m2
    s1 = s1
    Channel = Channel
    NoOwner = NoOwner
    Cores <- MCCores
    Agents <- MCAgents
    Messages <- MCMessages
    SessionOf <- MCSessionOf
    AgentOf <- MCAgentOf
    FreshGroups = FALSE
    MaxConcurrency = 1
    MaxInflight = 2
    MaxLapses = 0
    MaxErrors = 0
    MaxLostAdds = 0
    MaxLostAcks = 0
    MaxSlow = 1
    MaxDowns = 1
    MaxStale = 0
PROPERTIES
    AllProcessed
    PelDrains
