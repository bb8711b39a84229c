SPECIFICATION FairSpec
CONSTANTS
    Reasons = {menu}
    Speeds = {1}
    Gap = 2
    LastHost = 4
    MaxWorth = 24
    BackSteps = FALSE
INVARIANTS
    HoldIsNoTime
