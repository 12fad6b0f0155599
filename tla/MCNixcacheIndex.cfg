SPECIFICATION FairSpec
CONSTANTS
    Segment = {"s1", "s2", "s3", "s4"}
    Path = {"p", "q"}
    Blob = {"b1", "b2", "b3"}
    NoBlob = NoBlob
    Entries <- MCEntries
    Url <- MCUrl
    Age <- MCAge
    Invalid = {"s4"}
    Client = {c1}
    MaxFaults = 2
INVARIANTS IndexMatches IssuedServed
PROPERTIES IndexFollows
