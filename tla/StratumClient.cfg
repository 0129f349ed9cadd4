SPECIFICATION FairSpec
CONSTANTS
    MaxGenerations = 3
    MaxCalls = 3
    MaxWire = 2
INVARIANTS TypeOK AnswersOwnCall OneReader ConnectedIsRead NothingLeftPending
PROPERTIES CallsReturn
CHECK_DEADLOCK FALSE
