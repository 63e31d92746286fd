SPECIFICATION HostSpec
CONSTANTS
    Objectives = {a, b}
    MaxGoals = 3
    MaxIterations = 2
    MaxHostTurns = 1
    Mechanism = "model-tools"
    OneAtATime = FALSE
    MaxChanges = 2
    MaxUserReads = 2
    MaxTimeouts = 1
    MaxRows = 3
    FirstReadCrossed = FALSE
    PAGE_SIZE = 2
    MAX_PAGES = 2
    MaxMessages = 4
    MaxParts = 3
    MaxUndone = 1
    MaxReadings = 2
    QueuedPrompts = FALSE
    PartialText = FALSE
    EmptyReplies = FALSE
    Saved = {s, t, u}
    SESSION_PAGE_SIZE = 2
    MAX_SESSION_PAGES = 2
    INSPECTION_CONCURRENCY = 2
    MAX_INSPECTIONS = 3
    MaxEvents = 1
    Limits = {0, 1}
    FilesMove = FALSE
INVARIANTS VerdictsAreCurrent EndsInTime LoopAlive SnapshotsAreTrue HistoryIsKept DiscoveryIsSound
CHECK_DEADLOCK FALSE
