SPECIFICATION BrowserSpec
CONSTANTS
    OctetBase = 4
    T1 = T1  T2 = T2
    Targets = {T1, T2}
    FirstTarget = T1
    Urls <- MCUrls
    UrlInfo <- MCUrlInfo
    BlankUrl = "blank"
    Policy <- MCPolicy
    EventCapacity = 2
    MaxReconnects = 1
    MaxMoves = 1
    MaxSessionCalls = 2
INVARIANTS
    BrowserTypeOK
    CachedElementsAreCurrent
    BlockedTabsAreWatched
    PageIsAttached
CHECK_DEADLOCK FALSE
PROPERTIES
    PendingIsReported
    OkMeansEnforced
