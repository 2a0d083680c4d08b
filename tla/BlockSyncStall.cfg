SPECIFICATION LiveSpec
CONSTANTS
    p1 = p1
    p2 = p2
    main = main
    side = side
    Peers = {p1}
    Branches = {main}
    BranchOf <- OnePeer
    NoBlock = NoBlock
    MaxHeight = 2
    MayFail = FALSE
PROPERTIES SyncFinishes
CHECK_DEADLOCK FALSE
