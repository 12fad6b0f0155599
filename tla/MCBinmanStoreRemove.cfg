SPECIFICATION Spec
CONSTANTS
    Proc = {s1, s2}
    NoOne = NoOne
    Pkg = {"a", "b"}
    Digest = {1}
    File <- ClashFile
    DirSymlink = {}
    Content <- ClashContent
    Root <- ClashRoot
    Loc <- ClashLoc
    Dest <- ClashDest
    Inner <- ClashInner
    Above <- ClashAbove
    Up <- ClashUp
    Moved <- ClashMoved
    Existing <- ClashExisting
    Legacy = {}
    Plan <- ClashPlan
    MaxCommands = 3
    MaxAborts = 0
INVARIANTS RemoveUnobstructed
CHECK_DEADLOCK FALSE
