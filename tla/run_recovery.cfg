SPECIFICATION FairSpec
CONSTANTS
    w1 = w1  w2 = w2  d1 = d1  d2 = d2  c1 = c1  r1 = r1  r2 = r2
    Workers = {w1, w2}
    Deciders = {d1}
    Cancellers = {}
    Gates = {g1}
    Replicas = {r1, r2}
    ReplicaOf <- TwoReplicas
    NoOne = NoOne
    MaxSessions = 3
    MaxRotations = 1
    MaxCrashes = 1
    MaxEdits = 0
INVARIANTS ReclaimOnlyOrphans
PROPERTIES RunProgress
CHECK_DEADLOCK FALSE
