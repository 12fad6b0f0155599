SPECIFICATION Spec
CONSTANTS
    Proc = {s1, s2}
    NoOne = NoOne
    Pkg = {"a", "b"}
    Digest = {1, 2}
    File <- MCFile
    DirSymlink = {"sbin"}
    Content <- MCContent
    Root <- MCRoot
    Loc <- MCLoc
    Dest <- MCDest
    Inner <- MCInner
    Above <- MCAbove
    Up <- MCUp
    Moved <- MCMoved
    Existing <- Empty
    Legacy <- MCLegacy
    Plan <- AstrayPlan
    MaxCommands = 2
    MaxAborts = 0
INVARIANTS InstalledIsLinked
CHECK_DEADLOCK FALSE
