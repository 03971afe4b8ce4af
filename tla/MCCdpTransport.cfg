\* Two callers share one connection, room for one queued command; the calls of
\* one may be dropped at any await, as a timeout does.
SPECIFICATION Spec
CONSTANTS
    c1 = c1
    c2 = c2
    Callers <- TwoCallers
    Impatient <- SecondCaller
    RequestCapacity = 1
    MaxAttempts = 2
    MaxId = 3
    MaxGeneration = 1
INVARIANTS
    WaitingIsHeld
    PendingIsCurrent
    StaleSendIsRaced
    EventsTellConnection
    AtMostOnce
    Inv
