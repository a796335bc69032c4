SPECIFICATION FairSpec
CONSTANTS
    c1 = c1
    c2 = c2
    q1 = q1
    q2 = q2
    k1 = k1
    k2 = k2
    w1 = w1
    w2 = w2
    token = token
    None = None
    Cores <- MCCores
    Questions <- MCQuestions
    TokenOf <- MCTokenOf
    Clicks <- MCClicks
    Workers <- MCWorkers
    MaxFaults = 1
INVARIANTS
    WritesHaveCauses
    UnknownHasCause
PROPERTIES
    ResolvedIsFinal
    ClicksAnswered
CHECK_DEADLOCK FALSE
