SPECIFICATION Spec
CONSTANTS
    Edges = {0, 1, 2, 3, 4}
    Nodes = {0, 1, 2, 3}
    Inputs <- SmallInputs
    CycleLength = 4
    BucketNodes = 2
    Parts = 3
    PartOf <- Dealt
    Capacity = 1
    DeadCapacity = 1
    FineMargin = 0
    MarkRounds = 4
    BatchRounds = 2
    EarlyRound = 5
    Rounds = 6
INVARIANTS SurvivorsAreRead DestroyedIsOver NoCycleIsRight
PROPERTIES TrimsExactly
