CONSTANTS
    NItems = 6
    NGifts = 3
    Gear <- MCGear
    Race = "man"
    RaceEquips = {"staff"}
    Gifts <- MCGifts
    OwnItems = {1, 2}
    MaxWearPasses = 32
    MaxWearChanges = 5
SPECIFICATION EquipmentSpec
INVARIANTS DeferredIsDone
CHECK_DEADLOCK FALSE
