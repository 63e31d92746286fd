SPECIFICATION SharedSpec
CONSTANTS
    Keys = {k, l}
    Users = {a, b, c}
    MAX_FLOWS = 2
    MaxServers = 4
    LastTickRelease = FALSE
    ReadKeys = {k, l}
    Callers = {a, b, c}
    MaxFlights = 3
    MaxRecords = 2
    MaxInterruptions = 1
    PEEK_TAIL_BYTES = 4
    PerEvent = FALSE
    Threads = {"root", "child"}
    Args = {x, y}
    AskKinds = {"form"}
    MaxCalls = 2
    MaxAsks = 3
    IdenticalCalls = FALSE
    Letters <- MCLetters
    AccessConfigs <- MCAccessConfigs
    SignedRoutes = TRUE
    TokenIsSet = TRUE
    MaxLetters = 3
    MaxPatches = 2
    Channels = {"slack", "telegram"}
    Clients = {"slack"}
    Signals = {"SIGINT"}
    MaxStarts = 3
    MaxOpen = 1
    IdleIsWrong = FALSE
    TextLines <- MCTextLines
    MaxTextLines = 4
    MaxLengths = {5, 6, 8, 10}
SYMMETRY SharedSymmetry
INVARIANTS LivesWhileUsed FlightsFair TextsAreTrue RequestsAreTrue
CHECK_DEADLOCK FALSE
