CONSTANTS
    Launchers = {l1, m1}
    Pids = {p1, p2}
    NoPid = NoPid
    Breaks = {"stop-isolated-app"}
    Killable = FALSE
    Starters = {l1}
    Stoppers = {l1}
    Recoverers = {}
    CleanupOnExit = TRUE
    Reused = FALSE
SPECIFICATION FairMonitorSpec
INVARIANTS ClosedAtRest NothingForgotten
PROPERTY ExitEndsSession
