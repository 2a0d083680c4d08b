SPECIFICATION Spec
CONSTANTS
    p1 = p1
    p2 = p2
    main = main
    side = side
    Peers = {p1, p2}
    Branches = {main}
    BranchOf <- OneBranch
    NoBlock = NoBlock
    MaxHeight = 2
    MayFail = FALSE
PROPERTIES LatestNeverFalls
CHECK_DEADLOCK FALSE
