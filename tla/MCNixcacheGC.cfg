SPECIFICATION Spec
CONSTANTS
    Tag = {t1, t2}
    Grace = 2
    MaxSkew = 1
    MaxVersion = 3
    MaxClock = 3
SYMMETRY Symmetry
INVARIANTS HistoryKept ReportedGone
PROPERTIES GraceHonoured WallGraceHonoured ImplementsGracePeriod
