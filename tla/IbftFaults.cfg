SPECIFICATION Spec
CONSTANTS
    N = 3
    Contents = {a, b}
    MaxHeight = 1
    MaxRound = 1
    Restartable = {0}
    MaxFailures = 1
    Crashed = {}
    NoBlock = NoBlock
SYMMETRY ContentSymmetry
INVARIANTS TypeOK NoGap CommitAgreement CommitIsRemembered StoredIsCertified
PROPERTIES StoredIsFinal
CHECK_DEADLOCK FALSE
