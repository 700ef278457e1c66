SPECIFICATION FairSpec
CONSTANTS
    t1 = t1  e1 = e1  r1 = r1  r2 = r2  d1 = d1  d2 = d2
    Triggers <- OneTrigger
    Events <- OneEvent
    Matches <- AllMatch
    Replicas <- TwoReplicas
    Deliveries <- TwoDeliveries
    NumActions = 2
    MaxAttempts = 2
    RetryBatch = 2
    MaxEdits = 1
    MaxFaults = 1
INVARIANTS
    NoDoubleFire
    RowIsTruthful
PROPERTIES
    DispatchSettles
CHECK_DEADLOCK FALSE
