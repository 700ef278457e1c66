SPECIFICATION Spec
CONSTANTS
    w1 = w1  w2 = w2  d1 = d1  d2 = d2  c1 = c1  r1 = r1  r2 = r2
    Workers = {w1, w2}
    Deciders = {d1}
    Cancellers = {c1}
    Gates = {g1}
    Replicas = {r1, r2}
    ReplicaOf <- TwoReplicas
    NoOne = NoOne
    MaxSessions = 3
    MaxRotations = 1
    MaxCrashes = 0
    MaxEdits = 1
INVARIANTS RunIsServed
PROPERTIES TerminalIsFinal
