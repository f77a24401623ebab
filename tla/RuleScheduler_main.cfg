CONSTANTS
    Main = main
    Loaders = {}
    loader = loader
    Actors <- MCActors
    Player <- MCPlayer
    Kinds <- MCKinds
    Inventory <- MCInventory
    LingeringEntry = TRUE
    MaxEvents = 2
    MaxLoads = 1
    MaxToken = 3
SPECIFICATION Spec
INVARIANTS TypeOK SinglePump PumpArmed
PROPERTIES NoEvaluationMidMenu
CHECK_DEADLOCK FALSE
