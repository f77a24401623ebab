CONSTANTS
    Main = main
    Loaders = {loader}
    loader = loader
    Actors <- MCActors
    Player <- MCPlayer
    Kinds <- MCKinds
    Inventory <- MCInventory
    LingeringEntry = FALSE
    MaxEvents = 2
    MaxLoads = 1
    MaxToken = 2
    Sleepers = {actor}
    Reporters = {r1, r2}
    NoReport = none
    MaxReports = 3
    MaxDialogues = 2
    MaxResets = 2
    Posters = {r1, r2}
    MaxTime = 4
    MaxPosts = 3
    NValueRules = 1
    Numeric <- MCNumeric
    Old <- MCOld
    MaxPasses_L = 3
    MaxChanges_L = 2
    CastRewards = {"flame", "ward"}
    LastingCasts = {"ward"}
    MaxAttempts = 2
    MaxActivations = 2
    MaxTurns = 3
    Laws <- MCLaws
    Subjects <- MCSubjects
    MaxAlterations = 2
SPECIFICATION ThreadsSpec
INVARIANTS NoChangeLost ReleaseArmed UpdatesArrive NoneOversleeps
    ValuesAreRight CastsAreAccounted
PROPERTIES ReportedIsFound
CHECK_DEADLOCK FALSE
