SPECIFICATION Spec
CONSTANTS
    Names <- FolderNames
    Installs <- SixInstalls
    FlagLast = 3
    MaxStarts = 1
    KilledInSwap = FALSE
INVARIANTS
    OverridesKept
CHECK_DEADLOCK FALSE
