SPECIFICATION SessionsSpec
CONSTANTS
    MaxAcpSends = 2
    MaxAcpAsks = 2
    AcpSlowAgent = FALSE
    AcpLateAsks = FALSE
    MaxPiSends = 2
    MaxPiLines = 2
    PiSlowHandlers = FALSE
    PiClosesBusy = FALSE
    MaxAgySends = 2
    MaxAgyProcs = 3
    MaxOcSends = 2
    OcRequests = {r}
    MaxOcFails = 1
    OcLatePolls = FALSE
    Objectives = {a}
    MaxGoals = 2
    MaxIterations = 2
    MaxHostTurns = 2
    Mechanism = "emulated"
    OneAtATime = TRUE
    LateEvents = FALSE
INVARIANTS EachTurnItsOwn ClosesQuietly
PROPERTIES SessionsKeepContract DrainReleases
CHECK_DEADLOCK FALSE
