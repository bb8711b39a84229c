SPECIFICATION Spec
CONSTANTS
    Bytes <- GrownBytes
    NMods = 1
    MaxVal = 2
    MaxSaves = 3
    GapRoom = 3
    TailRoom = 4
    AllRoom = 8
    Maps = {1}
    SavePoints = {1}
INVARIANTS
    ChunksCarried
