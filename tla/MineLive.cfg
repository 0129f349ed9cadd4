SPECIFICATION FairSpec
CONSTANTS
    MaxGraphs = 0
    NonceStart = 0
    NonceMax = 0
    Saturate = TRUE
    Outcomes = {"share", "noCycle", "cancelled", "gpuError"}
    Reorgs = TRUE
    MaxTemplates = 3
    MaxFaults = 2
INVARIANTS ErrorsAreConsecutive
PROPERTIES CatchesUp Reconnects
