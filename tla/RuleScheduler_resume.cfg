CONSTANTS
    Main = main
    Loaders = {loader}
    loader = loader
    Actors <- MCActors
    Player <- MCPlayer
    Kinds <- MCKinds
    Inventory <- MCInventory
    LingeringEntry = FALSE
    MaxEvents = 1
    MaxLoads = 1
    MaxToken = 1
SPECIFICATION Spec
INVARIANTS ResumedIsArmed
CHECK_DEADLOCK FALSE
