\* No handle is left, the socket stays up.
SPECIFICATION AnsweringSpec
CONSTANTS
    c1 = c1
    c2 = c2
    Callers <- OneCaller
    Impatient <- Nobody
    RequestCapacity = 2
    MaxAttempts = 2
    MaxId = 2
    MaxGeneration = 1
PROPERTIES
    DropEndsActor
