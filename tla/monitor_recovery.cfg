CONSTANTS
    Launchers = {l1, m1}
    Pids = {p1, p2}
    NoPid = NoPid
    Breaks = {}
    Killable = FALSE
    Starters = {l1}
    Stoppers = {l1}
    Recoverers = {l1}
    CleanupOnExit = TRUE
    Reused = FALSE
SPECIFICATION MonitorSpec
PROPERTY RecoverySparesHealthy
