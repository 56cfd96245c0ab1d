SPECIFICATION Spec
CONSTANTS
    CallKinds = {"stream", "complete"}
    MaxDeltas = 2
    ServerCount = 2
    Names = {"read", "x"}
    Builtins = {"read"}
    MaxRestarts = 1
    MaxTurns = 2
    MaxRecords = 2
    Threads = {h1, h2}
    Culprits = {"c"}
    Loggers = {"l"}
    Window = 2
    PruneAfter = 4
    MaxDelay = 2
    MaxClock = 5
    MaxEvents = 3
    Ids = {1, 2}
    MaxHistory = 7
    PlainBytes = {"a"}
    Segments <- SomeSegments
    MaxSegments = 3
    CallIndexes = {0, 1}
    CachedCounts = {3}
    MaxLines = 3
    Texts <- SomeTexts
    DetailTail = 2
    Truncate <- ShortTexts
    MaxContext = 4
    MaxFileLines = 3
    Limits = {1, 2, 7}
    UsizeMax = 7
    GrepLimit = 1
    MaxMedia = 1
    MaxSteps = 4
CHECK_DEADLOCK FALSE
INVARIANTS
    SplitIsBest
    ValueRoundTrips
    ResponseIsFaithful
    
    BuiltinsOK
    RetriesAreSound
    ToolsOK
    TracesOK
    ReportsAreLimited
PROPERTIES
    PartsSettle
