SPECIFICATION FairSpec
CONSTANTS
    s1 = s1
    Services <- OneService
    Replicated <- OneService
    MaxEdits = 3
    MaxFaults = 2
CHECK_DEADLOCK FALSE

    
PROPERTIES
    ForeignUntouched
    Converges
