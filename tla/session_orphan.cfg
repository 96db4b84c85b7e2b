CONSTANTS
    Launchers = {l1}
    Pids = {p1, p2}
    NoPid = NoPid
    Breaks = {}
    Killable = FALSE
SPECIFICATION Spec
SYMMETRY Interchangeable
INVARIANT CleanupMeansClear
