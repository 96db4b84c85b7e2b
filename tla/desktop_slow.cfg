SPECIFICATION DesktopSpec
CONSTANTS
    Launchers = {helper, own}
    Helper = helper
    Own = own
    Endpoints = {e1}
    HostRoutes = {}
    AllowedIPs = {a1}
    Pids = {p1, p2}
    NoPid = NoPid
    Killable = TRUE
    Tabs = {t1}
    Handlers = {h1, recovery}
    Clicked = h1
    Recovery = recovery
    Sessions = {}
    Operations = {"connect", "disconnect", "profile"}
    None = None
INVARIANT NoLoop
