SPECIFICATION FairSpec
CONSTANTS
    g1 = g1
    g2 = g2
    b1 = b1
    NoOwner = NoOwner
    NoBot = NoBot
    Gateways <- MCGateways
    Bots <- MCBots
    Disturbances = {"lapse", "error", "failure", "crash", "shutdown"}
    MaxDisturbances = 2
    MaxVersion = 1
    MaxChanges = 1
INVARIANTS
    TypeOK
    OneConnection

    
    
