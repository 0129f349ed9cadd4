SPECIFICATION VerdictSpec
CONSTANTS
    Edges = {0, 1, 2, 3, 4, 5, 6}
    Nodes = {0, 1, 2, 3, 4, 5}
    Inputs <- RingInputs
    Half = 3
    OtherLength = 4
    ArcCap = 8
    MaxBranches = 10
INVARIANTS TypeOK KeepsClosedSets PeelsToTheCore VerdictIsRight
PROPERTIES VerdictReturns
