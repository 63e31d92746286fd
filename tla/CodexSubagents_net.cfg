SPECIFICATION SubagentsSpec
CONSTANTS
    Children = {c}
    MaxTurns = 1
    MaxItems = 1
    MaxMissed = 1
    MaxLines = 3
PROPERTIES SafetyNet
CHECK_DEADLOCK FALSE
