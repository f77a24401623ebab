CONSTANTS
    Chars <- MCOneChar
    LegacyChars <- MCOneChar
    TornRestore = FALSE
    MaxNum = 2
    MaxRev = 0
    MaxChanges = 1
    MaxSaves = 2
    MaxRuns = 2
SPECIFICATION Spec
INVARIANTS MigratedIsKept
CHECK_DEADLOCK FALSE
