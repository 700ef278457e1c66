SPECIFICATION Spec
CONSTANTS
    p1 = p1
    p2 = p2
    r1 = r1
    k1 = k1
    k2 = k2
    Pods <- TwoPods
    Repos <- OneRepo
    Pushes <- OnePush
    Ttl = 2
    Interval = 3
    MaxAge = 1
    Horizon = 5
    MaxFaults = 2
SYMMETRY Interchangeable
CHECK_DEADLOCK FALSE
INVARIANTS
    EntitledSweepsAlone
PROPERTIES
    OneSweepPerInterval
