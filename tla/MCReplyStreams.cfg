SPECIFICATION FairReplySpec
CONSTANTS
    g1 = g1
    g2 = g2
    NoNode = NoNode
    Fallback = Fallback
    Nodes <- MCNodes
    Sessions = {s1}
    Deltas = 1
    MaxRequests = 2
    MaxFaults = 1

    
PROPERTIES
    ReplyCloses
    OrphansReclaimed
CHECK_DEADLOCK FALSE
