SPECIFICATION FairSpec
CONSTANTS
    c1 = c1
    c2 = c2
    Cells = {c1, c2}
    N = 2
    QueueCap = 2
    ArenaBlocks = 3
    Textures <- NestedTextures
    DrawSets <- NestedSamples
    CopyShapes <- FrameShapes
    MidModes <- MidBoth
    TokenWaits = {FALSE, TRUE}
    MaxCommands = 4
INVARIANTS
    RowsFinal
    ArenaDisjoint
    WholeFrames
    ImagesComplete
    ReadsSettled
    ImagesCurrent
PROPERTIES
    ImplementsRing
    EveryCommandFinishes
