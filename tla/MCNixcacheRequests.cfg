SPECIFICATION FairLoadSpec
CONSTANTS
    N = 4
    Limit = 2
    Attempts = 3
INVARIANTS
    LoadTypeOK
PROPERTIES
    ImplementsListing
    Answers
CHECK_DEADLOCK FALSE
