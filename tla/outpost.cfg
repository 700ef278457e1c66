SPECIFICATION FairSpec
CONSTANTS
    c1 = c1  a1 = a1  a2 = a2  g1 = g1  g2 = g2
    Commands <- OneCommand
    Agents <- OneAgent
    Gateways <- TwoGateways
    MaxRuns = 2
    MaxPosts = 2
    MaxAttempts = 2
    Batch = 2
    Margin = 2
    BackoffCap = 4
    MaxFaults = 1
INVARIANTS
    ResultsAccounted
    NoConcurrentDelivery
PROPERTIES
    Settles
CHECK_DEADLOCK FALSE
