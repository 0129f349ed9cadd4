SPECIFICATION Spec
CONSTANTS
    Edges = {0, 1, 2, 3, 4}
    Nodes = {0, 1, 2, 3}
    Inputs <- SmallInputs
    CycleLength = 4
    BucketNodes = 2
    Parts = 2
    PartOf <- Alternate
    Capacity = 2
    DeadCapacity = 1
    Slack = 1
    DenseLimit = 2
    BatchRounds = 2
    Rounds = 5
INVARIANTS VerdictIsSound
PROPERTIES TrimsExactly
