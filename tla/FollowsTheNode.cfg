SPECIFICATION Spec
CONSTANTS
    MaxGraphs = 0
    NonceStart = 0
    NonceMax = 2
    Saturate = FALSE
    Outcomes = {"share", "noCycle", "cancelled", "gpuError"}
    Reorgs = FALSE
    MaxTemplates = 2
    MaxFaults = 1
INVARIANTS FollowsTheNode
