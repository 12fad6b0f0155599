SPECIFICATION FairSpec
CONSTANTS
    Proc = {s1, s2}
    NoOne = NoOne
    Pkg = {"a", "b"}
    Digest = {1, 2}
    File <- MCFile
    DirSymlink = {"sbin"}
    Content <- MCContent
    Root <- MCRoot
    Loc <- MCLoc
    Dest <- MCDest
    Inner <- MCInner
    Above <- MCAbove
    Up <- MCUp
    Moved <- MCMoved
    Existing <- MCExisting
    Legacy <- MCLegacy
    Plan <- MCPlan
    MaxCommands = 2
    MaxAborts = 1
INVARIANTS TypeOK NoOrphanLinks Complete Reconciled
PROPERTIES OthersKept UserFilesKept CommandsEnd
CHECK_DEADLOCK FALSE
