SPECIFICATION Spec
CONSTANTS
    Libs <- ThreeLibs
    Kinds <- LibKinds
    Installed = {"good"}
    Untried = TRUE
INVARIANTS
    LibraryStays
CHECK_DEADLOCK FALSE
