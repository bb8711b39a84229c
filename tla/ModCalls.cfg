SPECIFICATION Spec
CONSTANTS
    Registered <- TwoMods
    Scenes = {2, 7}
    MaxDepth = 4
INVARIANTS
    CallsFromSafePointsOnly
