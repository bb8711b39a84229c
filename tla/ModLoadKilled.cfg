SPECIFICATION Spec
CONSTANTS
    Names <- FolderNames
    Installs <- ClaimInstalls
    FlagLast = 3
    MaxStarts = 3
    KilledInSwap = TRUE
INVARIANTS
    ClaimsStand
CHECK_DEADLOCK FALSE
