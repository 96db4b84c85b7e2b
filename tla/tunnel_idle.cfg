SPECIFICATION Spec
CONSTANTS
    Launchers = {l1}
    Endpoints = {e1}
    HostRoutes = {}
    AllowedIPs = {a1}
    Pids = {p1}
    NoPid = NoPid
    Killable = FALSE
INVARIANT IdleMeansClean
CONSTRAINT OnlyDisconnectsFail
