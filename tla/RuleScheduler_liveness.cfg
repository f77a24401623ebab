CONSTANTS
    Main = main
    Loaders = {}
    loader = loader
    Actors <- MCActors
    Player <- MCPlayer
    Kinds <- MCKinds
    Inventory <- MCInventory
    LingeringEntry = FALSE
    MaxEvents = 2
    MaxLoads = 1
    MaxToken = 2
SPECIFICATION FairSpec
PROPERTIES EventuallyEvaluated InteractionEnds
CHECK_DEADLOCK FALSE
