---------------------------- MODULE SessionMonitor ----------------------------
(***************************************************************************)
(* The processes that look after an isolated session without being asked:  *)
(* the background monitor of linux-monitor-isolated-app, which records     *)
(* itself in the session's state.json, waits for the application to exit   *)
(* and runs the stop plan, and linux-recover-isolated-sessions -startup,   *)
(* which restarts a missing monitor or cleans a dirty session up.  They    *)
(* run beside the commands of IsolatedSession, with no lock between them.  *)
(***************************************************************************)
EXTENDS IsolatedSession

CONSTANTS
    Starters,   \* the launchers that may be told to start the session
    Stoppers,   \* the launchers that may be told to stop it
    Recoverers, \* the launchers that may run the recovery
    CleanupOnExit, \* the flag of linux-isolated-app
    Reused      \* whether a start may have the identifier of an earlier one

ASSUME MonitorAssumption ==
    /\ Starters \cup Stoppers \cup Recoverers \subseteq Launchers
    /\ CleanupOnExit \in BOOLEAN
    /\ Reused \in BOOLEAN

Idle(l) == mode[l] = "off" /\ watch[l] = "none"

-------------------------------------------------------------------------------
\* status.IsolatedSessions

\* PIDExists and PIDArgvMatches.  The record has the arguments of "ip netns
\* exec", which the application replaces by its own.
AppHealthy == store.app \in Pids /\ process[store.app] = "starting"
WSTunnelHealthy == store.wstunnel \in Pids /\ process[store.wstunnel] = "wstunnel"
MonitorHealthy == store.monitor \in Launchers /\ watch[store.monitor] # "none"

\* A runtime root without a record that loads, or with a process missing.
Dirty ==
    /\ root
    /\ \/ store.file # "whole"
       \/ ~AppHealthy
       \/ ~WSTunnelHealthy
       \/ store.monitor # NoPid /\ ~MonitorHealthy

\* isolatedSessionNeedsMonitor.
NeedsMonitor == store.file = "whole" /\ AppHealthy /\ WSTunnelHealthy /\ ~MonitorHealthy

-------------------------------------------------------------------------------
\* linux-isolated-app with -cleanup-on-exit, and the monitor

\* Without -session-id, a start draws an identifier nobody had.
StartWithId(l) ==
    /\ l \in Starters
    /\ Reused \/ \A k \in Launchers : plan[k] = {}
    /\ StartIsolatedApp(l)

\* startLinuxIsolatedMonitor: a process of its own.
Spawns == \E m \in Launchers : Idle(m) /\ watch' = [watch EXCEPT ![m] = "spawned"]

\* A start that returned Connected spawns the monitor; a monitor whose stop plan
\* ended exits.
ReturnAndWatch(l) ==
    /\ Finishes(l)
    /\ IF Engine!Verdict(l) = "Connected" /\ CleanupOnExit
       THEN Spawns ELSE watch' = [watch EXCEPT ![l] = "none"]

\* recordCurrentMonitorProcess loads the record: none is no error.
MonitorLoads(m) ==
    /\ watch[m] = "spawned"
    /\ watch' = [watch EXCEPT ![m] =
          CASE store.file = "whole" -> "loaded"
            [] store.file = "absent" -> "waiting"
            [] OTHER -> "none"]
    /\ seen' = [seen EXCEPT ![m] = store]
    /\ UNCHANGED <<engineVars, session, process, diskVars, handle, observationVars>>

\* ... and saves it with its own PID: the directory is made if it is gone, the
\* file is truncated, then written.
MonitorTruncates(m) ==
    /\ watch[m] = "loaded"
    /\ watch' = [watch EXCEPT ![m] = "saving"]
    /\ root' = TRUE
    /\ store' = Torn
    /\ UNCHANGED <<engineVars, session, process, handle, seen, observationVars>>

\* When the file was removed meanwhile, what is written goes with it, and the
\* change of its mode fails: the monitor exits.
MonitorWrites(m) ==
    /\ watch[m] = "saving"
    /\ IF store.file = "absent"
       THEN watch' = [watch EXCEPT ![m] = "none"] /\ UNCHANGED store
       ELSE /\ watch' = [watch EXCEPT ![m] = "waiting"]
            /\ store' = [seen[m] EXCEPT !.monitor = m]
    /\ UNCHANGED <<engineVars, session, process, root, handle, seen, observationVars>>

\* A wait that looks for the record only.
RecordIsGone == store.file = "absent"

\* waitForIsolatedAppExit returned: the record is gone, or the PID of the
\* application is.
AppIsGone == store.file = "absent" \/ (store.file = "whole" /\ process[store.app] = "free")

\* The monitor runs the stop plan.
MonitorStops(m) ==
    /\ watch[m] = "waiting"
    /\ AppIsGone
    /\ Engine!Begin(m, "disconnect", StopSteps)
    /\ watch' = [watch EXCEPT ![m] = "stopping"]
    /\ handle' = [handle EXCEPT ![m] = [wstunnel |-> NoPid, app |-> NoPid]]
    /\ seen' = [seen EXCEPT ![m] = Unread]
    /\ UNCHANGED <<session, process, diskVars, observationVars>>

\* A record that does not load ends the wait with an error, and the monitor.
MonitorGivesUp(m) ==
    /\ watch[m] = "waiting"
    /\ store.file = "torn"
    /\ watch' = [watch EXCEPT ![m] = "none"]
    /\ UNCHANGED <<engineVars, session, process, diskVars, handle, seen, observationVars>>

\* SIGKILL of a monitor that is not running its stop plan.
MonitorDies(m) ==
    /\ Killable
    /\ watch[m] # "none" /\ mode[m] = "off"
    /\ watch' = [watch EXCEPT ![m] = "none"]
    /\ disclosed' = TRUE
    /\ UNCHANGED <<engineVars, session, process, diskVars, handle, seen, abandoned>>

-------------------------------------------------------------------------------
\* linux-recover-isolated-sessions -startup

RecoveryRestartsMonitor(l) ==
    /\ l \in Recoverers /\ Idle(l)
    /\ NeedsMonitor
    /\ Spawns
    /\ UNCHANGED <<engineVars, session, process, diskVars, handle, seen, observationVars>>

RecoveryCleans(l) ==
    /\ l \in Recoverers
    /\ Dirty /\ ~NeedsMonitor
    /\ CleanupIsolatedApp(l)

-------------------------------------------------------------------------------

MonitorStep(m) ==
    \/ MonitorLoads(m)
    \/ MonitorTruncates(m)
    \/ MonitorWrites(m)
    \/ MonitorStops(m)
    \/ MonitorGivesUp(m)

RunStep(l) == Step(l) \/ SignalMonitor(l) \/ ReturnAndWatch(l)

MonitorNext ==
    \/ \E l \in Stoppers : StopIsolatedApp(l)
    \/ \E l \in Launchers :
          \/ StartWithId(l)
          \/ RunStep(l)
          \/ MonitorStep(l)
          \/ RecoveryRestartsMonitor(l)
          \/ RecoveryCleans(l)
          \/ Kill(l)
          \/ MonitorDies(l)
    \/ Environment

MonitorSpec == Init /\ [][MonitorNext]_vars

\* Processes that run go on running; the application need not exit, nobody need
\* ask for anything, and "ip netns exec" becomes the application or exits.
FairMonitorSpec ==
    /\ MonitorSpec
    /\ \A l \in Launchers : WF_vars(RunStep(l)) /\ WF_vars(MonitorStep(l))
    /\ \A p \in Pids : WF_vars(AppExecs(p))

-------------------------------------------------------------------------------
\* Properties

\* "selected applications must fail closed", at rest: when no launcher and no
\* monitor is at work on the session, nothing runs in a namespace, its name lost
\* or not, that has a way out and no kill switch; also after two stops that took
\* the session apart together, one of them signalled in the middle, and after one
\* that could not stop the application, took the kill switch away and went on.
ClosedAtRest ==
    /\ \A l \in Launchers : mode[l] = "off"
    /\ \E p \in Pids : process[p] \in {"app", "child", "stray"}
    /\ session.veth = "moved"
    => session.killSwitch

\* A session that was not ended is on record: when no launcher and no monitor
\* runs any more, the host is clear or a record says what is left, unless a run
\* died or said FailedDirty; a monitor that saves the record late included.
NothingForgotten == AllOff /\ ~disclosed => Clear \/ store.file = "whole"

\* "isolated-sessions lists every runtime session directory ... so the GUI and
\* CLI can surface recovery targets after a crash": what is left of a session
\* when nothing runs any more has its directory, or a step of the last run of
\* some process had failed.
LeftoversAreListed ==
    AllOff /\ session # NoSession => root \/ \E l \in Launchers : failed[l] # {}

\* "Normal app exit triggers monitor-driven cleanup": once the application of a
\* session with a recorded monitor has exited, the session goes, whoever else
\* stops it at the same time, or one of them says FailedDirty.
ExitEndsSession ==
    store.file = "whole" /\ MonitorHealthy /\ process[store.app] = "free"
        ~> session = NoSession \/ disclosed

\* What the documents say of the code, and the code does not do.

\* "restarts a missing cleanup monitor when the isolated app and WSTunnel are
\* still healthy; otherwise it cleans stale dirty sessions": a recovery cleans
\* up no session whose record names a running application and a running wstunnel.
RecoverySparesHealthy ==
    [][\A l \in Launchers :
          RecoveryCleans(l) /\ store.file = "whole" =>
              process[store.app] \notin {"starting", "app"} \/ process[store.wstunnel] # "wstunnel"]_vars
===============================================================================
