CONSTANTS
    Launchers = {l1}
    Pids = {p1, p2, p3}
    NoPid = NoPid
    Breaks <- SomeBreak
    Killable = TRUE
SPECIFICATION Spec
SYMMETRY Interchangeable
INVARIANTS TypeOK FailClosed ConnectedMeansIsolated QuietMeansClear IdleMeansSessionGone CleanupMeansClearOfNames
PROPERTY StartSparesSession
