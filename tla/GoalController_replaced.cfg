SPECIFICATION GoalSpec
CONSTANTS
    Objectives = {a, b}
    MaxGoals = 2
    MaxIterations = 2
    MaxHostTurns = 0
    Mechanism = "emulated"
    OneAtATime = FALSE
INVARIANTS LoopKeepsWorking
CHECK_DEADLOCK FALSE
