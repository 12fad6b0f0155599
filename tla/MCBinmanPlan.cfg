SPECIFICATION PlanSpec
CONSTANTS
    Manifests <- MCManifests
    Args <- MCArgs
    LinkFlag = {".", "sub", ""}
    Valid = {"a", "b"}
    Clean <- MCClean
INVARIANTS
    Faithful
CHECK_DEADLOCK FALSE
