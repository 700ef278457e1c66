SPECIFICATION LeaseFairSpec
CONSTANTS
    a = a
    Leases <- OneLease
    MaxLeases = 1
    MaxCommands = 2
    MaxLeaseFaults = 2
INVARIANTS
    ReadyHasSandbox
PROPERTIES
    WorkingLeaseKept
    LeaseSettles
