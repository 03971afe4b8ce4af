\* A follow-up request after a finished run.
SPECIFICATION Spec
CONSTANTS
    Plans <- FewPlans
    InitialActions <- NoActions
    Excluded = {}
    MaxActions = 2
    MaxFailures = 2
    FinalResponse = TRUE
    LoopWindow = 2
    CompactEvery = 2
    KeepLast = 1
    HasFallback = TRUE
    MaxSteps = 2
    MaxCalls = 2
    MaxRestores = 0
INVARIANT
    FollowUpIsSeen
