SPECIFICATION MCSpec
CONSTANTS
    MaxSends = 2
    MaxTurns = 3
    MaxResults = 3
    Tasks = {t1}
    Subagents = {t1}
    Requests = {r1}
    Answered = {"can_use_tool"}
    Controls = {c1}
    ContentTypes = {"assistant"}
    QueuedRecords = FALSE
    MaxPipe = 2
    t1 = t1
    c1 = c1
    r1 = r1
INVARIANTS TrueOwner
PROPERTIES DrainKillsNothing EveryCallReturns
CHECK_DEADLOCK FALSE
