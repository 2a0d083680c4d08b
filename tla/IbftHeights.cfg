SPECIFICATION Spec
CONSTANTS
    N = 3
    Contents = {a}
    MaxHeight = 2
    MaxRound = 1
    Restartable = {}
    MaxFailures = 0
    Crashed = {}
    NoBlock = NoBlock
INVARIANTS VotesFollowProposal AgreementOfThree
CHECK_DEADLOCK FALSE
