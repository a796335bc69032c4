SPECIFICATION FairSpec
CONSTANTS
    s1 = s1
    s2 = s2
    s3 = s3
    NoSocket = NoSocket
    Sockets <- MCSockets
    MaxAttempts = 4
    TimeoutCount = 2
    MaxFailures = 2
    MaxStarts = 2
PROPERTIES
    
    DeadPeerNoticed
CHECK_DEADLOCK FALSE
