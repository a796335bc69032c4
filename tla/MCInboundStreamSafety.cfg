SPECIFICATION Spec
CONSTANTS
    c1 = c1
    c2 = c2
    a1 = a1
    m1 = m1
    m2 = m2
    s1 = s1
    Channel = Channel
    NoOwner = NoOwner
    Cores <- MCCores
    Agents <- MCAgents
    Messages <- MCOneMessage
    SessionOf <- MCOneSessionOf
    AgentOf <- MCOneAgentOf
    FreshGroups = TRUE
    MaxConcurrency = 1
    MaxInflight = 2
    MaxLapses = 1
    MaxErrors = 1
    MaxLostAdds = 1
    MaxLostAcks = 1
    MaxSlow = 1
    MaxDowns = 1
    MaxStale = 1
SYMMETRY MCSymmetry
INVARIANTS
    TypeOK
    LossesHaveCauses
    
