SPECIFICATION FilesSpec
CONSTANTS
    Bytes <- EvenBytes
    NMods = 2
    MaxVal = 1
    MaxSaves = 2
    GapRoom = 3
    TailRoom = 4
    AllRoom = 8
    Maps = {1, 2}
    SavePoints = {1}
    ModInstalls <- PassInstalls
    FlagLast = 3
    MaxStarts = 2
    NPages = 4
    Sector = 2
    Values = {"x"}
    MaxWrites = 3
    Libs <- FourLibs
    LibKind <- LibKinds
    LibInstalls <- FirstLibs
    Files <- DiscFiles
    Discs <- DiscFiles
    CopyName <- DiscNames
    OnPhone <- OnStorage
INVARIANTS
    ChunksCarried
    ReplayIsRecording
    NoStateLost
    LastWord
    RefusedWhole
    ClaimsStand
    ToldStays
    LineRises
    LibraryStays
    DiscStays
PROPERTIES
    Landing
    PickStays
CHECK_DEADLOCK FALSE
