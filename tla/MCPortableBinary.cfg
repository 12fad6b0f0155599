SPECIFICATION Spec
CONSTANTS
    Files <- MCFiles
    Names <- MCNames
    MaxFatArch = 45
INVARIANTS
    RunsOnDarwin
    Signed
    DataIntact
PROPERTIES
    Repaired
CHECK_DEADLOCK FALSE
