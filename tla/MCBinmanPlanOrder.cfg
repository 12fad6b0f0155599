SPECIFICATION PlanSpec
CONSTANTS
    Manifests <- MCManifests
    Args <- MCArgs
    LinkFlag = {".", "sub", ""}
    Valid = {"a", "b"}
    Clean <- MCClean
INVARIANTS
    CommandLineLast
CHECK_DEADLOCK FALSE
