SPECIFICATION OneShotSpec
CONSTANTS
    Executors = {"claude", "codex", "cursor", "opencode", "pi", "process"}
    MaxPrinted = 2
    Batches <- MCBatches
    LateFailures = FALSE
    Rejections = TRUE
    MaxRuns = 2
    Parsers = {"claude", "codex", "codex-exec", "antigravity", "cursor", "pi", "opencode", "opencode-http", "acp"}
    MaxTools = 3
    MaxBlocks = 2
    MAX_TRACKED = 2
    MaxTasks = 1
    MaxLines = 4
    MaxTurns = 2
    Interleaves = FALSE
    Mixes = FALSE
INVARIANTS RunsEndClean ResultsAreTrue ToldTrue
PROPERTY StoppedRunsEnd
CHECK_DEADLOCK FALSE
