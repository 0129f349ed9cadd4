SPECIFICATION SolveSpec
CONSTANTS
    Edges = {0, 1, 2, 3, 4}
    Nodes = {0, 1, 2, 3}
    Inputs <- SmallInputs
    Rounds = 3
    CycleLength = 4
    MaxBranches = 8
INVARIANTS TypeOK KeepsClosedSets NoCycleIsRight StopsAtTheCore VerifiesExactly
PROPERTIES ImplementsCpuLean SolveReturns
