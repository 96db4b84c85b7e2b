CONSTANTS
    Launchers = {l1, m1}
    Pids = {p1, p2}
    NoPid = NoPid
    Breaks = {}
    Killable = TRUE
    Starters = {l1}
    Stoppers = {}
    Recoverers = {l1}
    CleanupOnExit = TRUE
    Reused = FALSE
SPECIFICATION MonitorSpec
INVARIANTS FailClosed LeftoversAreListed
CHECK_DEADLOCK FALSE
