SPECIFICATION TitlesSpec
CONSTANTS
    Threads = {main, vm}
    Main = main
    NReqs = 2
    Rewards = {1, 2}
    Definitions <- MCDefinitions
    MaxValue = 1
    MaxEvents = 4
    MaxNames = 3
    MaxFetches = 3
    MaxGames = 2
    Givers = {main, vm}
    MaxAmount = 2
    MaxTaken = 4
    Titles = {1, 2}
    BatchLimit = 1
    MaxSyncs = 4
    Packages = {"local", "other"}
    Local = "local"
    PackageOrder <- MCPackageOrder
    TitleIDs = {1, 2}
    Globals = {"a", "A", "b"}
    Folded <- MCFolded
    Texts = {1}
    Disks <- MCDisks
    MaxActs = 7
INVARIANTS
    GivenOncePerThread RewardedMeansDelivered PublicOneIsEarned
    FlagHasAnOwner OneFetchAtATime RewardsEarnNothing
    GlobalsInOrder TitlesAreKept
PROPERTIES
    EarnedAsDefined FetchEnds
