\* Initial actions interrupted, then the run is called again.
SPECIFICATION Spec
CONSTANTS
    Plans <- FewPlans
    InitialActions <- WaitThenClick
    Excluded = {}
    MaxActions = 2
    MaxFailures = 2
    FinalResponse = TRUE
    LoopWindow = 2
    CompactEvery = 2
    KeepLast = 1
    HasFallback = TRUE
    MaxSteps = 2
    MaxCalls = 2
    MaxRestores = 0
INVARIANT
    InitialActionsRan
