SPECIFICATION LiveSpec
CONSTANTS
    N = 1
    Contents = {a, b}
    MaxHeight = 6
    MaxRound = 0
    Restartable = {0}
    MaxFailures = 0
    Crashed = {}
    NoBlock = NoBlock
PROPERTIES SoloAdvances
CHECK_DEADLOCK FALSE
