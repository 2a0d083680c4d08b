SPECIFICATION CrashSpec
CONSTANTS
    N = 4
    Contents = {a}
    MaxHeight = 2
    MaxRound = 1
    Restartable = {}
    MaxFailures = 0
    Crashed = {2}
    NoBlock = NoBlock
PROPERTIES WaitingEnds
CHECK_DEADLOCK FALSE
