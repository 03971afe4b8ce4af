\* One agent, two calls: every order of run, step, controls and interruptions.
SPECIFICATION Spec
CONSTANTS
    Plans <- MixedPlans
    InitialActions <- OpenPage
    Excluded = {}
    MaxActions = 2
    MaxFailures = 2
    FinalResponse = TRUE
    LoopWindow = 2
    CompactEvery = 2
    KeepLast = 1
    HasFallback = TRUE
    MaxSteps = 2
    MaxCalls = 2
    MaxRestores = 0
INVARIANTS
    SuccessIsAnswered
    DoneStandsAlone
    WorkIsRecorded
    BudgetEndsInError
    Inv
PROPERTIES
    ControlsHold
