SPECIFICATION SessionMCSpec
CONSTANTS
    MaxSends = 2
    MaxTurns = 2
    MaxResults = 2
    Tasks = {t1}
    Subagents = {t1}
    Requests = {r1}
    Answered = {"can_use_tool", "elicitation"}
    Controls = {c1}
    ContentTypes = {"assistant", "tool_result"}
    QueuedRecords = FALSE
    MaxPipe = 1

INVARIANTS TurnsAgree NobodyStranded OwnResult HandlersSettledFirst
PROPERTIES OverIsOver
CHECK_DEADLOCK FALSE
