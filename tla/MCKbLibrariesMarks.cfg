SPECIFICATION Spec
CONSTANTS
    l1 = l1
    l2 = l2
    d1 = d1
    d2 = d2
    r1 = r1
    r2 = r2
    None = None
    Libraries <- MCLibraries
    Unbound <- MCUnbound
    Datasets <- MCDatasets
    Requests <- MCRequests
    MaxRequests = 2
    MaxFaults = 1
    MaxConsole = 1
PROPERTY
    OnlyMarksChange
