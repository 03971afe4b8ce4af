\* The tasks of the program are fair; the browser may never answer.
SPECIFICATION FairSpec
CONSTANTS
    c1 = c1
    c2 = c2
    Callers <- TwoCallers
    Impatient <- SecondCaller
    RequestCapacity = 1
    MaxAttempts = 2
    MaxId = 2
    MaxGeneration = 1
PROPERTIES
    LossResolvesPending
    CallsReturn
    StopIsFinal
    ImplementsChannel
