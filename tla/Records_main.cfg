SPECIFICATION RecordsSpec
CONSTANTS
    Chars <- MCChars
    LegacyChars <- MCOneChar
    TornRestore = FALSE
    MaxNum = 2
    MaxRev = 0
    MaxChanges = 2
    MaxSaves = 3
    MaxRuns = 3
    Actors <- MCActors
    NRules = 3
    RuleTrigger <- MCRuleTrigger
    MaxEvents = 7
    MaxTasks = 2
    player = player
    friend = friend
    foe = foe
    pet = pet
    wisp = wisp
    stray = stray
    People = {player, friend, foe, pet, wisp, stray}
    PlayerRef = player
    Teammates = {friend}
    Commander <- MCCommander
    Victim = victim
    Nobody = nobody
    Carried = {"sword", "letter"}
    QuestItems = {"letter"}
    LootRules <- MCLootRules
    AllSettings <- MCSettings
    Steps = {1, 2, 3}
INVARIANTS
    LoadRestoresSave NoForeignData OncePerLife EveryClaimIsAnswered
    ReceiversAreAllowed LootIsWhereItBelongs
CHECK_DEADLOCK FALSE
