SPECIFICATION RulesSpec
CONSTANTS
    NRules = 1
    NRewards = 2
    Reward <- MCRewards
    Native <- MCNative
    Reported <- MCBoth
    MaxMoves = 3
    MaxLosses = 1
    MaxEdits = 2
    RuleIDs = {1, 2}
    Packages = {"local", "other"}
    Local = "local"
    Contents = {1, 2}
    MaxVersion = 2
    MaxActs = 6
    NTagRules = 3
    Tags = {"a", "b", "n"}
    NativeTags = {"n"}
    RuleSets <- MCRuleSets
    MaxPasses = 32
    MaxEvents = 4
    NItems = 6
    NGifts = 3
    Gear <- MCGear
    Race = "man"
    RaceEquips = {"staff"}
    Gifts <- MCGifts
    OwnItems = {1, 2}
    MaxWearPasses = 32
    MaxWearChanges = 4
INVARIANTS
    NoFarmingAlone VersionsKnown DeletedStayDeleted
    TagsHaveAReason SettledIsCurrent CascadeSettles
PROPERTIES
    TemporaryIsGone PersistentIsRestored LedgerKept PlanComesToRest BestIsWorn
CHECK_DEADLOCK FALSE
