SPECIFICATION PartsSpec
CONSTANTS
    Requests = {r1, r2}
    HttpRequests = {r1}
    LwCapacity = 2
    LogCapacity = 1
    IdleFor = 1
    RequestTimeout = 2
    MaxTime = 3
    MaxLwEvents = 1
    Documents = {u1, u2}
    FileNameOf <- MCFileNameOf
    MaxDownloads = 3
    HarRequests = {"a", "b"}
    Hops = {1, 2}
    IsHttps <- MCIsHttps
    OriginOf <- MCOriginOf
    IsFavicon <- MCIsFavicon
    IsDocument <- MCIsDocument
    MaxVisits = 3
    MaxFrames = 3
    FramesAhead = 2
    Origins = {o1, o2}
    FirstOrigin = o1
    MaxVersion = 1
    MaxSaves = 2
    KeyTexts <- MCKeyTexts
    MaxKeyCalls = 3
    button = button  link = link  field = field  banner = banner
    Elements <- MCElements
    Page = "page"
    Frame = "frame"
    Pages <- MCPages
    ListenerOnly = {}
    AxSuppressed <- MCAxSuppressed
    DeepFrame = {}
    CaptureLimit = 3
    MaxPageChanges = 1
    MaxIndexed = 2
    Looks <- MCLooks
    Originals <- MCOriginals
    Histories <- MCHistories
    MaxReplayChanges = 1
    WriteNames = {"todo.md", "extracted_content_0.md"}
    TextNames = {"todo.md"}
    Texts = {"a", "b"}
    MaxPieces = 2
    MaxFileSteps = 4
    Daemon = "daemon"
    Commands = {"cli"}
    MaxBrowsers = 2
    MaxCommands = 3
    Writers = {w1, w2}
    LastTry = 1
    MaxArtifacts = 3
    PageUrls = {1, 2}
    ModelAnswers <- MCAnswers
    MaxAnswers = 2
    MaxPageMoves = 1
    Digest <- MCDigest
    MarkLength = 1
    NoShortening = NoShortening
    DefaultArgs <- MCDefaultArgs
    DockerArgs <- MCDockerArgs
    DisableSecurityArgs <- MCSecurityArgs
    DeterministicArgs <- MCDeterministicArgs
INVARIANTS
    PartsTypeOK
    CachedFileHoldsDocument
    WrittenAnswersAreOfTheirUrls
    VideoFollowsTheTabs
    KeysAreReleased
    ActsOnShownElement
    ActsOnOriginalElement
    ManagedFilesAgree
    RunningBrowsersAreRecorded
    ReportedFilesHold
    ActsOnSeenPage
PROPERTIES
    EarlyIdleIsTrue
    SavedStateWasHeld
CHECK_DEADLOCK FALSE
