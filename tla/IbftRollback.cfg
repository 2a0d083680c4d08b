SPECIFICATION Spec
CONSTANTS
    N = 1
    Contents = {a, b}
    MaxHeight = 1
    MaxRound = 0
    Restartable = {0}
    MaxFailures = 1
    Crashed = {}
    NoBlock = NoBlock
PROPERTIES NeverRolledBack
CHECK_DEADLOCK FALSE
