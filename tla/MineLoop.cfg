SPECIFICATION Spec
CONSTANTS
    MaxGraphs = 4
    NonceStart = 0
    NonceMax = 2
    Saturate = FALSE
    Outcomes = {"share", "weak", "invalid", "noCycle", "cancelled", "inconclusive", "fatal"}
    Reorgs = TRUE
    MaxTemplates = 3
    MaxFaults = 2
INVARIANTS TypeOK SharesMatchTheirProof NoNonceSkipped StaleSolveIsCancelled OrphanedSolveIsCancelled
PROPERTIES SentOncePerSession KeepsContract
