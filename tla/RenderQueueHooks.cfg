SPECIFICATION Spec
CONSTANTS
    c1 = c1
    c2 = c2
    Cells = {c1, c2}
    N = 2
    QueueCap = 2
    ArenaBlocks = 2
    Textures <- ApartTextures
    DrawSets <- ApartSamples
    CopyShapes <- ApartShapes
    MidModes <- MidOff
    TokenWaits = {FALSE, TRUE}
    MaxCommands = 4
INVARIANTS
    ImagesCurrent
