SPECIFICATION RouterSpec
CONSTANTS
    NodeCount = 4
    MaxArcWeight = 3
    Infinite = 27
    MaxWeight = 3
    Inputs <- MCInputs
    Positions <- MCPositions
    GivenRanks <- MCGivenRanks
    Fragile <- MCFragile
    Requests <- MCRequests
    NoWitness = NoWitness
    Nowhere = Nowhere
    MaxControls = 3
    None = None
INVARIANTS
    LowerTrianglesHold
    ValidGraphsArePacked
    RoutesAreShortest
    RoutesAreRealized
CHECK_DEADLOCK FALSE
