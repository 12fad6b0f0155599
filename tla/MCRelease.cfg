SPECIFICATION FairSpec
CONSTANTS
    None = None
    Package = {a}
    Version = {v1, v2}
    PushExcluded = {}
    Root <- MCRoot
    Requires <- MCRequires
    MaxRequests = 2
    MaxFaults = 1
INVARIANTS
    SegmentsIntact
    IndexServable
PROPERTIES
    PublishedIsCached
    SelectsExactly
    Converges
CHECK_DEADLOCK FALSE
