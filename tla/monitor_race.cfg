CONSTANTS
    Launchers = {l1, l2, m1}
    Pids = {p1, p2}
    NoPid = NoPid
    Breaks = {}
    Killable = FALSE
    Starters = {l1}
    Stoppers = {}
    Recoverers = {l2}
    CleanupOnExit = TRUE
    Reused = FALSE
SPECIFICATION MonitorSpec
INVARIANT FailClosed
CHECK_DEADLOCK FALSE
