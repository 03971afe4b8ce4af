SPECIFICATION RpSpec
CONSTANTS
    Looks <- MCRpLooks
    Originals <- MCRpOriginals
    Histories <- MCRpHistories
    MaxReplayChanges = 1
INVARIANT IdentityIsStable
CHECK_DEADLOCK FALSE
