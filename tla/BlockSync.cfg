SPECIFICATION Spec
CONSTANTS
    p1 = p1
    p2 = p2
    main = main
    side = side
    Peers = {p1, p2}
    Branches = {main, side}
    BranchOf <- TwoBranches
    NoBlock = NoBlock
    MaxHeight = 3
    MayFail = TRUE
INVARIANTS TypeOK ChainHasNoGap OneRequestAtATime
PROPERTIES SyncedBlocksLink
CHECK_DEADLOCK FALSE
