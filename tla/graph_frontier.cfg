SPECIFICATION GraphFairSpec
CONSTANTS
    Steps <- FourSteps
    Graphs <- RegularGraphs
    BodyRecords = TRUE
INVARIANTS TraversalSound ExactFrontier
PROPERTIES RunsOnce Drains
CHECK_DEADLOCK FALSE
