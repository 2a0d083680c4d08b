SPECIFICATION Spec
CONSTANTS
    N = 4
    Contents = {a}
    MaxHeight = 1
    MaxRound = 1
    Restartable = {}
    MaxFailures = 0
    Crashed = {}
    NoBlock = NoBlock
INVARIANTS Agreement
CHECK_DEADLOCK FALSE
