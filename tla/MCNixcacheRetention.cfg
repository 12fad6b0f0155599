SPECIFICATION Spec
CONSTANTS
    Segment = {"s1", "s2", "s3", "s4", "s5", "s6", "s7"}
    System = {"linux", "darwin"}
    Snapshot = {"n1", "n2", "n3"}
    Package = {"a", "b"}
    NoPackage = "none"
    Path = {"p", "q", "r"}
    SystemOf <- MCSystemOf
    SnapshotOf <- MCSnapshotOf
    PackageOf <- MCPackageOf
    CreatedAt <- MCCreatedAt
    Entries <- MCEntries
    Age <- MCAge
    Roots <- MCRoots
    Keep = 2
    Window = 1
    PackageKeep = 2
INVARIANTS
    ClosureComplete
    RootsServed
    DeletedSuperseded
    VerdictStable
