SPECIFICATION DisplaySpec
CONSTANTS
    Window = 3
    Count = 1
    Doublings = 1
    Hold = 2
    Rates = {0, 85, 144}
    Slices = 3
    Horizon = 2
    N = 2
    QueueCap = 2
    LowMod = 4
    MaxCommands = 4
    RingWorkers = 3
    RingFrames = 4
    RingMids = {1, 2}
    CountMod = 32
INVARIANTS
    OnGrid
    AsFifopair
PROPERTIES
    FullAgain
    AllFinish
    ImplementsBox
    LastIsShown
CHECK_DEADLOCK FALSE
