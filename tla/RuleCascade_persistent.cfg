SPECIFICATION CascadeSpec
CONSTANTS
    NTagRules = 3
    Tags = {"a", "b", "n"}
    NativeTags = {"n"}
    RuleSets <- MCRuleSets
    MaxPasses = 32
    MaxEvents = 4
INVARIANTS PersistentStays
CHECK_DEADLOCK FALSE
