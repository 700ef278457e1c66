SPECIFICATION StepFairSpec
CONSTANTS
    w1 = w1
    w2 = w2
    r1 = r1
    r2 = r2
    NExec = 2
    Workers = {w1, w2}
    Replicas = {r1, r2}
    HostOf <- HostOfWorker
    Loads <- SmallLoads
    Reapers = {r1}
    NoOrg = "none"
    Resources = {"cpu", "mem"}
    Budget <- Limits
    UserCap = 1
    OrgCap = 1
    KernelIsolated = TRUE
    MaxFaults = 1
INVARIANTS
    WithinLimits
    
PROPERTIES
    OutcomesStand
    EverythingEnds
CHECK_DEADLOCK FALSE
