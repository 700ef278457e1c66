SPECIFICATION FairSpec
CONSTANTS
    t1 = t1
    t2 = t2
    l1 = l1
    l2 = l2
    i1 = i1
    i2 = i2
    i3 = i3
    loop = loop
    Tasks <- TwoTasks
    Legs <- TwoLegs
    Iters <- ThreeIters
    Loops <- OneLoop
    Shapes <- Pairs
    Budget = 2
    GroupConcurrency = 1
    ScatterLimit = 1
    MapConcurrency = 2
    FailureTolerance = 34
    LoopLimit = 2
    LoopHardMax = 50
    JobCancels <- PlainJobs
    CloneFails = FALSE
INVARIANTS Verdicts ReturnedIsComplete ClonesWithinSlots
PROPERTIES FanoutReturns
CHECK_DEADLOCK FALSE
