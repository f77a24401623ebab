CONSTANTS
    NRules = 2
    NRewards = 2
    Reward <- MCSharedRewards
    Native <- MCNothing
    Reported <- MCHeard
    MaxMoves = 2
    MaxLosses = 0
    MaxEdits = 0
SPECIFICATION Spec
INVARIANTS NoFarming
CHECK_DEADLOCK FALSE
