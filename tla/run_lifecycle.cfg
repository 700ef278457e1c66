SPECIFICATION Spec
CONSTANTS
    w1 = w1  w2 = w2  d1 = d1  d2 = d2  c1 = c1  r1 = r1  r2 = r2
    Workers = {w1, w2}
    Deciders = {d1, d2}
    Cancellers = {}
    Gates = {g1, g2, g3}
    Replicas = {r1}
    ReplicaOf <- OneReplica
    NoOne = NoOne
    MaxSessions = 3
    MaxRotations = 0
    MaxCrashes = 0
    MaxEdits = 0
SYMMETRY Interchangeable
INVARIANTS ExclusiveOwnership RejectionFailsRun
PROPERTIES ResumeNeedsEveryGate RejectionClosesGates DecisionIsFinal ImplementsContract
CHECK_DEADLOCK FALSE
