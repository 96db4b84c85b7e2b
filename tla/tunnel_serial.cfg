SPECIFICATION Spec
CONSTANTS
    Launchers = {l1}
    Endpoints = {e1, e2}
    HostRoutes = {}
    AllowedIPs = {a1, a2}
    Pids = {p1, p2}
    NoPid = NoPid
    Killable = TRUE
SYMMETRY Interchangeable
INVARIANTS TypeOK NoLoop StatusIsTruthful ConnectedMeansUp QuietMeansClean IdleMeansRecordGone NeverStuck
PROPERTIES StopsOnlyItsOwn
