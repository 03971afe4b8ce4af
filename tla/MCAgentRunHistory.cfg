\* Failure counts, step numbers and compaction, with checkpoints taken between
\* calls and restored at any moment.
SPECIFICATION Spec
CONSTANTS
    Plans <- TwoPlans
    InitialActions <- OpenPage
    Excluded = {"wait"}
    MaxActions = 1
    MaxFailures = 3
    FinalResponse = FALSE
    LoopWindow = 0
    CompactEvery = 1
    KeepLast = 2
    HasFallback = FALSE
    MaxSteps = 3
    MaxCalls = 2
    MaxRestores = 1
INVARIANTS
    FailuresAreConsecutive
    StepNumbersDistinct
    CompactionNotAhead
