SPECIFICATION DSpec
CONSTANTS
    Name = {"..f-wrapped-wrapped", ".f-wrapped", ".meta", "X", "Y", "bash-completion", "d", "doc", "e", "f", "k", "l", "m", "man", "n", "nix-support", "other", "out", "pkg", "s.a", "share", "t"}
    Rank <- MCRank
    MaxWalk = 16
    Source = "X"
    Out = "out"
    Package = "pkg"
    MetaFile = ".meta"
    Static = {"s.a"}
    Public <- MCPublic
    Content <- MCContent
    Rewritten <- MCRewritten
    Refused = "refused"
    Trees <- MCTrees
    Archives <- MCArchives
INVARIANTS
    CopyBounded
    SelfContained
    NothingHidden
    Delivered
    NeverRefused
    AcceptedClosed
    Verbatim
CHECK_DEADLOCK FALSE
