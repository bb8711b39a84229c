SPECIFICATION GuestSpec
CONSTANTS
    Mods = {m1, m2}
    TextSizes = {0, 1}
    Cmds = 2
    Text = 2
    ModCmds = 2
    ModText = 1
    Registered <- Hooks
    Scenes = {2, 7}
    MaxDepth = 3
    Reasons = {"focus", "menu"}
    Speeds = {1, 2}
    Gap = 1
    LastHost = 2
    MaxWorth = 2
    BackSteps = TRUE
    Shapes = {"a", "b"}
    Jobs = 2
    \* one slot fewer than the two states' shapes and interpreters need
    Keys = {"s", "t"}
    PipeSlots = 5
    CanFail = {"b", "interp"}
    MaxDraws = 4
    NSlots = 2
    HalfRoom = 2
    LandMax = 2
    Textures = {1}
    Spans <- Copies
    Early = TRUE
    MaxCommands = 5
    Requests <- Blocks
    Fetched = "f"
    Default = 2
    LenMod = 8
    MaxPosts = 7
INVARIANTS
    Accounted
    Attribution
    FactorsOnce
    DrawsSampleTheirs
    LandedIsThere
    ScreensWhole
    NoneStranded
    RequestsServed
    DrawnWithItsOwn
    EachPathItsFile
PROPERTIES
    ImplementsBox
