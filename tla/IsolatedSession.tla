---------------------------- MODULE IsolatedSession ----------------------------
(***************************************************************************)
(* One isolated session: launchers (CLI processes) that run the start,     *)
(* stop and cleanup plans of internal/planner/isolated.go for one session  *)
(* identifier through the engine, the executor of                          *)
(* internal/platform/linux/isolated_executor.go as the effect of each step *)
(* on the host, and the session's own runtime root and state.json.  The    *)
(* application may fork, exit and start late; a launcher may be killed at  *)
(* any point; commands may fail.  Sessions share nothing of this state:    *)
(* every name in it is derived from the identifier.                        *)
(***************************************************************************)
EXTENDS Naturals, Sequences, FiniteSets

CONSTANTS
    Launchers,  \* CLI processes
    Pids,       \* identifiers of other processes, a bound of the model
    NoPid,      \* no process
    Breaks,     \* the steps whose commands can fail by themselves
    Killable    \* whether a launcher can be killed

\* IsolatedAppTunnel, without the steps whose Apply does nothing.
StartPlan ==
    <<"validate-linux-prerequisites", "create-isolated-runtime-root", "create-netns",
      "create-veth-pair", "configure-host-veth", "configure-namespace-veth",
      "configure-namespace-dns", "start-wstunnel-control",
      "create-wireguard-interface-in-netns", "apply-wireguard-addresses-in-netns",
      "apply-wireguard-peer-in-netns", "apply-namespace-client-routes",
      "apply-namespace-kill-switch", "launch-app-in-netns", "store-isolated-runtime-state">>

\* IsolatedAppStop.
StopPlan ==
    <<"read-isolated-runtime-state", "stop-isolated-monitor", "stop-isolated-app",
      "remove-namespace-kill-switch", "remove-namespace-client-routes",
      "remove-wireguard-interface-in-netns", "stop-wstunnel-control",
      "remove-namespace-dns", "delete-netns", "clear-isolated-runtime-state">>

\* IsolatedAppCleanup.
CleanupPlan ==
    <<"cleanup-isolated-processes", "cleanup-namespace-kill-switch",
      "cleanup-wireguard-interface-in-netns", "cleanup-netns", "cleanup-namespace-dns",
      "cleanup-isolated-runtime-root">>

Members(list) == {list[i] : i \in DOMAIN list}

StartSteps == Members(StartPlan)
StopSteps == Members(StopPlan)
CleanupSteps == Members(CleanupPlan)
Steps == StartSteps \cup StopSteps \cup CleanupSteps

\* Plans share no step: a step has its place in one of them.
Place(s) ==
    CHOOSE i \in 1..Len(StartPlan) :
        \E list \in {StartPlan, StopPlan, CleanupPlan} : i \in DOMAIN list /\ list[i] = s

\* A start that launched the application before the kill switch.
RankLaunchFirst ==
    [s \in Steps |->
        CASE s = "launch-app-in-netns" -> Place("apply-namespace-kill-switch")
          [] s = "apply-namespace-kill-switch" -> Place("launch-app-in-netns")
          [] OTHER -> Place(s)]

\* A cleanup that removed the runtime root first.
RankRootFirst ==
    [s \in Steps |->
        CASE s = "cleanup-isolated-runtime-root" -> 0
          [] OTHER -> Place(s)]

\* The order of the plan's slice.
Rank == [s \in Steps |-> Place(s)]

Undoable == StartSteps \ {"validate-linux-prerequisites"}

ASSUME SessionAssumption ==
    /\ NoPid \notin Pids \cup Launchers
    /\ Breaks \subseteq Steps
    /\ Killable \in BOOLEAN

VARIABLES
    \* The engine, as in StepEngine.
    mode, plan, attempted, applied, failed, undone, stuck, outcome,
    \* The host.
    session,    \* what the session's names stand for: see Session
    process,    \* what runs under each PID: see Processes
    root,       \* whether the session's runtime root exists
    store,      \* state.json in it
    \* Memory of each launcher.
    handle,     \* the processes it started
    seen,       \* IsolatedExecutor.runtimeState and runtimeStateMissing
    watch,      \* what it is doing as a monitor: see Watching
    \* Observations.
    abandoned,  \* a launcher turned to ending the application since it was launched
    disclosed   \* a run died, said FailedDirty or was a best-effort cleanup since
                \* the host was last clear

engineVars == <<mode, plan, attempted, applied, failed, undone, stuck, outcome>>
diskVars == <<root, store>>
memoryVars == <<handle, seen, watch>>
observationVars == <<abandoned, disclosed>>
vars == <<engineVars, session, process, diskVars, memoryVars, observationVars>>

Engine == INSTANCE StepEngine WITH Deferred <- {}

-------------------------------------------------------------------------------
\* The host

\* The veth pair is absent, on the host with both ends, or has one end in the
\* namespace.  The interface, its client routes and the kill switch are those
\* of the namespace that has the session's name.
Session ==
    [netns : BOOLEAN, veth : {"none", "host", "moved"}, dns : BOOLEAN, wg : BOOLEAN,
     routes : {"none", "part", "all"}, killSwitch : BOOLEAN]

NoSession ==
    [netns |-> FALSE, veth |-> "none", dns |-> FALSE, wg |-> FALSE,
     routes |-> "none", killSwitch |-> FALSE]

\* "starting": the command "ip netns exec", not yet in the namespace, with the
\* recorded arguments.  "app" and "child" run in the namespace that has the
\* session's name, "stray" in one that lost it.
Processes == {"free", "wstunnel", "starting", "app", "child", "stray"}

\* "ip netns pids".
InNamespace == {p \in Pids : process[p] \in {"app", "child"}}

\* A veth end lives as long as its namespace, and that as long as its name or
\* a process in it.
VethAfter(veth, procs, netns) ==
    IF veth = "moved" /\ ~netns /\ \A p \in Pids : procs[p] # "stray" THEN "none" ELSE veth

\* "ip netns delete": the name goes at once, the namespace with its last process.
NetnsDeleted(veth) ==
    LET procs == [p \in Pids |-> IF p \in InNamespace THEN "stray" ELSE process[p]]
    IN  /\ session.netns
        /\ process' = procs
        /\ session' = [NoSession EXCEPT !.dns = session.dns, !.veth = VethAfter(veth, procs, FALSE)]

\* The ruleset in place of whatever the namespace had: nothing leaves but over
\* lo, the interface, and the veth pair to the control endpoint.
Filtered == [session EXCEPT !.killSwitch = TRUE]

\* "nft flush ruleset": everything leaves.
Flushed == [session EXCEPT !.killSwitch = FALSE]

\* A deletion after which the routes stay.
InterfaceDeletedOnly == [session EXCEPT !.wg = FALSE]

\* "ip link delete" in the namespace takes the routes of the interface along.
InterfaceDeleted == [session EXCEPT !.wg = FALSE, !.routes = "none"]

\* The processes in the namespace are stopped one by one from one listing: what
\* was forked after it survives.
NamespaceStopped(others) ==
    \E late \in SUBSET {p \in Pids : process[p] = "child"} :
        process' = [p \in Pids |-> IF p \in (InNamespace \cup others) \ late THEN "free" ELSE process[p]]

Stopped(pid, kinds) ==
    [p \in Pids |-> IF p = pid /\ process[p] \in kinds THEN "free" ELSE process[p]]

\* A process that is a monitor was spawned, has loaded the record, has truncated
\* state.json to save it, waits for the application, or runs the stop plan.
Watching == {"none", "spawned", "loaded", "saving", "waiting", "stopping"}

-------------------------------------------------------------------------------
\* state.json

StateFile ==
    [file : {"absent", "torn", "whole"}, wstunnel : Pids \cup {NoPid}, app : Pids \cup {NoPid},
     monitor : Launchers \cup {NoPid}]

Absent == [file |-> "absent", wstunnel |-> NoPid, app |-> NoPid, monitor |-> NoPid]
Torn == [Absent EXCEPT !.file = "torn"]
Unread == [Absent EXCEPT !.file = "unread"]

\* NewStateFromIsolatedAppPlan with the two processes the start launched.
RecordOf(l) ==
    [file |-> "whole", wstunnel |-> handle[l].wstunnel, app |-> handle[l].app, monitor |-> NoPid]

\* stateForStop: what was read at first, or else what a new Load finds.
Known(l) == IF seen[l].file = "unread" THEN store ELSE seen[l]

\* runtimeStateMissing: a dependent step returns at once.
Skipped(l) == seen[l].file = "absent"

-------------------------------------------------------------------------------
\* What a step needs

\* Whether the Apply of s can succeed; what is refused is what exists already
\* or is missing.
Works(l, s) ==
    CASE s = "create-isolated-runtime-root" -> store.file = "absent"
      [] s = "create-netns" -> ~session.netns
      [] s = "create-veth-pair" -> session.netns /\ session.veth = "none"
      [] s = "configure-host-veth" -> session.veth # "none"
      [] s = "configure-namespace-veth" -> session.netns /\ session.veth = "moved"
      [] s = "create-wireguard-interface-in-netns" -> session.netns /\ ~session.wg
      [] s \in {"apply-wireguard-addresses-in-netns", "apply-namespace-client-routes"} -> session.wg
      [] s = "apply-wireguard-peer-in-netns" -> session.wg /\ root
      [] s = "apply-namespace-kill-switch" -> session.netns /\ root
      [] s = "read-isolated-runtime-state" -> store.file # "torn"
      [] s \in StopSteps \ {"read-isolated-runtime-state", "clear-isolated-runtime-state"} ->
            \/ Skipped(l)
            \/ /\ Known(l).file = "whole"
               /\ s \in {"stop-isolated-app", "remove-namespace-kill-switch"} => session.netns
               /\ s = "remove-namespace-client-routes" => session.routes = "all"
               /\ s = "remove-wireguard-interface-in-netns" => session.wg
               /\ s = "delete-netns" => session.netns /\ session.veth # "none"
      [] OTHER -> TRUE

\* Whether the Apply of s runs a command that can fail for a reason of its own.
CanBreak(l, s) ==
    /\ s \in Breaks
    /\ s \in StopSteps \ {"read-isolated-runtime-state"} => ~Skipped(l)
    /\ s = "stop-wstunnel-control" =>
          Known(l).wstunnel \in Pids /\ process[Known(l).wstunnel] = "wstunnel"
    /\ s = "stop-isolated-monitor" =>
          Known(l).monitor \in Launchers \ {l} /\ watch[Known(l).monitor] # "none"
    /\ s \in CleanupSteps => s \in {"cleanup-namespace-dns", "cleanup-isolated-runtime-root"}

Done(l, s) == Engine!ApplyOk(l, s) /\ Works(l, s)

\* A step that changes nothing but what the session's names stand for.
Changes(l, s, new) ==
    /\ Done(l, s)
    /\ session' = new
    /\ UNCHANGED <<process, diskVars, memoryVars, observationVars>>

-------------------------------------------------------------------------------
\* The commands, up to engine.Run

Begins(l, kind, steps) ==
    /\ watch[l] = "none"
    /\ Engine!Begin(l, kind, steps)
    /\ handle' = [handle EXCEPT ![l] = [wstunnel |-> NoPid, app |-> NoPid]]
    /\ seen' = [seen EXCEPT ![l] = Unread]
    /\ UNCHANGED <<session, process, diskVars, watch, observationVars>>

StartIsolatedApp(l) == Begins(l, "connect", StartSteps)
StopIsolatedApp(l) == Begins(l, "disconnect", StopSteps)
CleanupIsolatedApp(l) == Begins(l, "disconnect", CleanupSteps)

-------------------------------------------------------------------------------
\* Steps of a start whose Apply returns nil

\* Prerequisites are looked for; addresses, peer and links are set up on what
\* exists and go with it.
OnlyConfigures(l) ==
    \E s \in {"validate-linux-prerequisites", "configure-host-veth", "configure-namespace-veth",
              "apply-wireguard-addresses-in-netns", "apply-wireguard-peer-in-netns"} :
        Changes(l, s, session)

\* A start that did not look for the record of an earlier one.
CreateRuntimeRootUnchecked(l) ==
    /\ Engine!ApplyOk(l, "create-isolated-runtime-root")
    /\ root' = TRUE
    /\ UNCHANGED <<session, process, store, memoryVars, observationVars>>

CreateRuntimeRoot(l) ==
    /\ Done(l, "create-isolated-runtime-root")
    /\ root' = TRUE
    /\ UNCHANGED <<session, process, store, memoryVars, observationVars>>

CreateNetns(l) == Changes(l, "create-netns", [session EXCEPT !.netns = TRUE])

CreateVethPair(l) == Changes(l, "create-veth-pair", [session EXCEPT !.veth = "moved"])

ConfigureNamespaceDNS(l) == Changes(l, "configure-namespace-dns", [session EXCEPT !.dns = TRUE])

StartWSTunnelControl(l, p) ==
    /\ Done(l, "start-wstunnel-control")
    /\ process[p] = "free"
    /\ process' = [process EXCEPT ![p] = "wstunnel"]
    /\ handle' = [handle EXCEPT ![l].wstunnel = p]
    /\ UNCHANGED <<session, diskVars, seen, watch, observationVars>>

CreateWireGuard(l) ==
    Changes(l, "create-wireguard-interface-in-netns", [session EXCEPT !.wg = TRUE])

ApplyClientRoutes(l) ==
    Changes(l, "apply-namespace-client-routes", [session EXCEPT !.routes = "all"])

ApplyKillSwitch(l) ==
    Changes(l, "apply-namespace-kill-switch", Filtered)

\* exec's Start returned: the application itself is still to come.
LaunchApp(l, p) ==
    /\ Done(l, "launch-app-in-netns")
    /\ process[p] = "free"
    /\ process' = [process EXCEPT ![p] = "starting"]
    /\ handle' = [handle EXCEPT ![l].app = p]
    /\ abandoned' = FALSE
    /\ UNCHANGED <<session, diskVars, seen, watch, disclosed>>

\* A record without what the launcher started.
StoreWithoutProcesses(l) ==
    /\ Done(l, "store-isolated-runtime-state")
    /\ store' = [RecordOf(l) EXCEPT !.wstunnel = NoPid]
    /\ root' = TRUE
    /\ UNCHANGED <<session, process, memoryVars, observationVars>>

StoreRuntimeState(l) ==
    /\ Done(l, "store-isolated-runtime-state")
    /\ store' = RecordOf(l)
    /\ root' = TRUE
    /\ UNCHANGED <<session, process, memoryVars, observationVars>>

-------------------------------------------------------------------------------
\* Steps of a stop whose Apply returns nil

ReadRuntimeState(l) ==
    /\ Done(l, "read-isolated-runtime-state")
    /\ seen' = [seen EXCEPT ![l] = store]
    /\ UNCHANGED <<session, process, diskVars, handle, watch, observationVars>>

\* stateForStop keeps what it could load.
Remember(l) == seen' = [seen EXCEPT ![l] = IF Known(l).file = "whole" THEN Known(l) ELSE @]

\* A dependent step, skipped or with a State to work from.
Dependent(l, s) ==
    /\ Done(l, s)
    /\ Remember(l)
    /\ UNCHANGED <<diskVars, handle, watch, disclosed>>

\* The recorded monitor, if it still runs and is another process.
OtherMonitor(l) ==
    {m \in Launchers \ {l} : Known(l).file = "whole" /\ Known(l).monitor = m /\ watch[m] # "none"}

StopMonitor(l) ==
    /\ Dependent(l, "stop-isolated-monitor")
    /\ Skipped(l) \/ OtherMonitor(l) = {}
    /\ UNCHANGED <<session, process, abandoned>>

\* The recorded PID if its arguments match, which they do until "ip netns exec"
\* gives way to the application; then every process in the namespace.
StopApp(l) ==
    /\ Dependent(l, "stop-isolated-app")
    /\ IF Skipped(l) THEN UNCHANGED process
       ELSE NamespaceStopped({p \in Pids : p = Known(l).app /\ process[p] = "starting"})
    /\ abandoned' = (abandoned \/ ~Skipped(l))
    /\ UNCHANGED session

\* A dependent step that changes nothing but the session's names.
Removes(l, s, new) ==
    /\ Dependent(l, s)
    /\ session' = IF Skipped(l) THEN session ELSE new
    /\ UNCHANGED <<process, abandoned>>

RemoveKillSwitch(l) ==
    Removes(l, "remove-namespace-kill-switch", Flushed)

RemoveClientRoutes(l) ==
    Removes(l, "remove-namespace-client-routes", [session EXCEPT !.routes = "none"])

RemoveWireGuard(l) == Removes(l, "remove-wireguard-interface-in-netns", InterfaceDeleted)

RemoveNamespaceDNS(l) == Removes(l, "remove-namespace-dns", [session EXCEPT !.dns = FALSE])

StopWSTunnelControl(l) ==
    /\ Dependent(l, "stop-wstunnel-control")
    /\ process' = IF Skipped(l) THEN process ELSE Stopped(Known(l).wstunnel, {"wstunnel"})
    /\ UNCHANGED <<session, abandoned>>

\* A stop that left the veth pair to the namespace.
DeleteNetnsOnly(l) ==
    /\ Dependent(l, "delete-netns")
    /\ IF Skipped(l) THEN UNCHANGED <<session, process>> ELSE NetnsDeleted(session.veth)
    /\ UNCHANGED abandoned

\* The host end of the veth pair, then the name of the namespace.
DeleteNetns(l) ==
    /\ Dependent(l, "delete-netns")
    /\ IF Skipped(l) THEN UNCHANGED <<session, process>> ELSE NetnsDeleted("none")
    /\ UNCHANGED abandoned

\* A clearing that removed state.json and left the runtime root.
ClearRecordOnly(l) ==
    /\ Done(l, "clear-isolated-runtime-state")
    /\ store' = IF Skipped(l) THEN store ELSE Absent
    /\ UNCHANGED <<session, process, root, memoryVars, observationVars>>

\* Depends on the record being there at the first read, not on the steps before.
ClearRuntimeState(l) ==
    /\ Done(l, "clear-isolated-runtime-state")
    /\ IF Skipped(l) THEN UNCHANGED diskVars ELSE root' = FALSE /\ store' = Absent
    /\ UNCHANGED <<session, process, memoryVars, observationVars>>

-------------------------------------------------------------------------------
\* Steps of a cleanup: the error of a command is noted and ignored, so such a
\* step does what it can, or nothing when its commands break

IgnoredOr(l, s, change) ==
    /\ Done(l, s)
    /\ change \/ (s \in Breaks /\ UNCHANGED <<session, process>>)
    /\ UNCHANGED <<diskVars, memoryVars, disclosed>>

CleanupProcesses(l) ==
    /\ IgnoredOr(l, "cleanup-isolated-processes", NamespaceStopped({}) /\ UNCHANGED session)
    /\ abandoned' = TRUE

CleanupKillSwitch(l) ==
    /\ IgnoredOr(l, "cleanup-namespace-kill-switch",
          session' = Flushed /\ UNCHANGED process)
    /\ UNCHANGED abandoned

CleanupWireGuard(l) ==
    /\ IgnoredOr(l, "cleanup-wireguard-interface-in-netns",
          session' = InterfaceDeleted /\ UNCHANGED process)
    /\ UNCHANGED abandoned

\* A cleanup that left the host end of the veth pair to the namespace.
CleanupNetnsOnly(l) ==
    /\ IgnoredOr(l, "cleanup-netns",
          \/ NetnsDeleted(session.veth)
          \/ ~session.netns /\ UNCHANGED <<session, process>>)
    /\ UNCHANGED abandoned

\* Two commands, each of them ignored when it fails.
CleanupNetns(l) ==
    /\ IgnoredOr(l, "cleanup-netns",
          \E veth \in {"none"} \cup (IF "cleanup-netns" \in Breaks THEN {session.veth} ELSE {}) :
              \/ NetnsDeleted(veth)
              \/ ~session.netns /\ session' = [session EXCEPT !.veth = veth] /\ UNCHANGED process)
    /\ UNCHANGED abandoned

CleanupDNS(l) == Changes(l, "cleanup-namespace-dns", [session EXCEPT !.dns = FALSE])

CleanupRuntimeRoot(l) ==
    /\ Done(l, "cleanup-isolated-runtime-root")
    /\ root' = FALSE
    /\ store' = Absent
    /\ UNCHANGED <<session, process, memoryVars, observationVars>>

-------------------------------------------------------------------------------
\* Steps that stop part-way

\* os.RemoveAll removes what is in the directory before the directory.
RootPartlyRemoved == store' \in {store, Absent} /\ UNCHANGED root

SomeRoutesLeft == IF session.routes = "none" THEN {"none"} ELSE {session.routes, "part"}

\* What an Apply of several commands or writes leaves when one of them fails,
\* or its process dies between them.
Interrupted(l, s) ==
    CASE s = "create-veth-pair" ->
            /\ session' \in {session} \cup
                  (IF session.veth = "none" THEN {[session EXCEPT !.veth = "host"]} ELSE {})
            /\ UNCHANGED <<process, diskVars>>
      [] s = "configure-namespace-dns" ->
            /\ session' \in {session, [session EXCEPT !.dns = TRUE]}
            /\ UNCHANGED <<process, diskVars>>
      [] s = "apply-namespace-client-routes" /\ session.wg ->
            /\ session' \in {session, [session EXCEPT !.routes = "part"]}
            /\ UNCHANGED <<process, diskVars>>
      [] s = "store-isolated-runtime-state" ->
            /\ store' \in {store, Torn, RecordOf(l)}
            /\ root' = TRUE
            /\ UNCHANGED <<session, process>>
      [] s = "stop-isolated-app" /\ Known(l).file = "whole" ->
            /\ \E some \in SUBSET (InNamespace \cup {p \in Pids : p = Known(l).app /\ process[p] = "starting"}) :
                  process' = [p \in Pids |-> IF p \in some THEN "free" ELSE process[p]]
            /\ UNCHANGED <<session, diskVars>>
      [] s = "remove-namespace-client-routes" /\ Known(l).file = "whole" ->
            /\ \E left \in SomeRoutesLeft \cup (IF session.routes = "part" THEN {"none"} ELSE {}) :
                  session' = [session EXCEPT !.routes = left]
            /\ UNCHANGED <<process, diskVars>>
      [] s = "delete-netns" /\ Known(l).file = "whole" ->
            /\ session' \in {session, [session EXCEPT !.veth = "none"]}
            /\ UNCHANGED <<process, diskVars>>
      [] s = "clear-isolated-runtime-state" /\ ~Skipped(l) ->
            /\ store' \in {store, Absent}
            /\ UNCHANGED <<session, process, root>>
      [] s = "cleanup-isolated-processes" ->
            /\ \E some \in SUBSET InNamespace :
                  process' = [p \in Pids |-> IF p \in some THEN "free" ELSE process[p]]
            /\ UNCHANGED <<session, diskVars>>
      [] s = "cleanup-netns" ->
            /\ session' \in {session, [session EXCEPT !.veth = "none"]}
            /\ UNCHANGED <<process, diskVars>>
      [] s = "cleanup-isolated-runtime-root" ->
            /\ RootPartlyRemoved
            /\ UNCHANGED <<session, process>>
      [] OTHER -> UNCHANGED <<session, process, diskVars>>

StepFails(l, s) ==
    /\ Engine!ApplyFail(l, s)
    /\ ~Works(l, s) \/ CanBreak(l, s)
    /\ Interrupted(l, s)
    /\ IF s \in StopSteps \ {"read-isolated-runtime-state", "clear-isolated-runtime-state"}
       THEN Remember(l) ELSE UNCHANGED seen
    /\ abandoned' = (abandoned \/ s = "stop-isolated-app")
    /\ UNCHANGED <<handle, watch, disclosed>>

-------------------------------------------------------------------------------
\* Rollback of a start.  Its last step is never among the applied ones.

\* A rollback that needs something to be there, and then changes the names.
Undoes(l, s, there, new) ==
    /\ \/ Engine!UndoOk(l, s) /\ there /\ session' = new
       \/ Engine!UndoFail(l, s) /\ (~there \/ s \in Breaks) /\ UNCHANGED session
    /\ UNCHANGED <<process, diskVars, memoryVars, observationVars>>

UndoNothing(l) ==
    /\ Engine!UndoOk(l, "configure-namespace-veth")
    /\ UNCHANGED <<session, process, diskVars, memoryVars, observationVars>>

\* A rollback that left the runtime root.
UndoRuntimeRootNoop(l) ==
    /\ Engine!UndoOk(l, "create-isolated-runtime-root")
    /\ UNCHANGED <<session, process, diskVars, memoryVars, observationVars>>

UndoRuntimeRoot(l) ==
    /\ \/ Engine!UndoOk(l, "create-isolated-runtime-root") /\ root' = FALSE /\ store' = Absent
       \/ /\ Engine!UndoFail(l, "create-isolated-runtime-root")
          /\ "create-isolated-runtime-root" \in Breaks
          /\ RootPartlyRemoved
    /\ UNCHANGED <<session, process, memoryVars, observationVars>>

UndoNetns(l) ==
    /\ \/ Engine!UndoOk(l, "create-netns") /\ NetnsDeleted(session.veth)
       \/ /\ Engine!UndoFail(l, "create-netns")
          /\ ~session.netns \/ "create-netns" \in Breaks
          /\ UNCHANGED <<session, process>>
    /\ UNCHANGED <<diskVars, memoryVars, observationVars>>

\* Two steps are each undone by deleting the host end: the second time fails.
UndoVeth(l, s) ==
    /\ s \in {"create-veth-pair", "configure-host-veth"}
    /\ Undoes(l, s, session.veth # "none", [session EXCEPT !.veth = "none"])

UndoDNS(l) == Undoes(l, "configure-namespace-dns", TRUE, [session EXCEPT !.dns = FALSE])

\* Three steps are each undone by deleting the interface.
UndoWireGuard(l, s) ==
    /\ s \in {"create-wireguard-interface-in-netns", "apply-wireguard-addresses-in-netns",
              "apply-wireguard-peer-in-netns"}
    /\ Undoes(l, s, session.wg, InterfaceDeleted)

UndoClientRoutes(l) ==
    /\ \/ /\ Engine!UndoOk(l, "apply-namespace-client-routes")
          /\ session.routes = "all"
          /\ session' = [session EXCEPT !.routes = "none"]
       \/ /\ Engine!UndoFail(l, "apply-namespace-client-routes")
          /\ session.routes # "all" \/ "apply-namespace-client-routes" \in Breaks
          /\ \E left \in SomeRoutesLeft : session' = [session EXCEPT !.routes = left]
    /\ UNCHANGED <<process, diskVars, memoryVars, observationVars>>

UndoKillSwitch(l) ==
    Undoes(l, "apply-namespace-kill-switch", session.netns, Flushed)

\* execProcess.Stop returns what Wait returned, also when the process is gone.
\* It ends one process: what the application forked is not stopped.
UndoProcess(l, s, pid, kinds) ==
    /\ Engine!UndoOk(l, s) \/ Engine!UndoFail(l, s)
    /\ process' = Stopped(pid, kinds)
    /\ UNCHANGED <<session, diskVars, memoryVars, disclosed>>

UndoWSTunnel(l) ==
    /\ UndoProcess(l, "start-wstunnel-control", handle[l].wstunnel, {"wstunnel"})
    /\ UNCHANGED abandoned

UndoLaunch(l) ==
    /\ UndoProcess(l, "launch-app-in-netns", handle[l].app, {"starting", "app"})
    /\ abandoned' = TRUE

-------------------------------------------------------------------------------
\* The end of a run, and what happens around it

\* What the session's names stand for is nothing, and its wstunnel is gone.
ClearOfNames == session = NoSession /\ ~root
NoWSTunnel == \A p \in Pids : process[p] # "wstunnel"
Clear == ClearOfNames /\ NoWSTunnel

\* A pair with both ends on the host: a create-veth-pair that stopped half-way.
ClearButHostVeth == session = [NoSession EXCEPT !.veth = "host"] /\ ~root /\ NoWSTunnel

\* Engine.Run returned; what the process does next is left open.
Finishes(l) ==
    /\ Engine!Return(l)
    /\ disclosed' = (~Clear /\ (disclosed \/ plan[l] = CleanupSteps \/ Engine!Verdict(l) = "FailedDirty"))
    /\ UNCHANGED <<session, process, diskVars, handle, seen, abandoned>>

Return(l) == Finishes(l) /\ UNCHANGED watch

\* A rollback of several commands or removals whose process dies between them.
UndoInterrupted(l) ==
    \/ /\ Engine!ReadyToUndo(l, "create-isolated-runtime-root")
       /\ RootPartlyRemoved
       /\ UNCHANGED <<session, process>>
    \/ /\ Engine!ReadyToUndo(l, "apply-namespace-client-routes")
       /\ \E left \in SomeRoutesLeft : session' = [session EXCEPT !.routes = left]
       /\ UNCHANGED <<process, diskVars>>

\* What a process leaves on the host that dies between two calls, or inside one.
DiesInside(l) ==
    \/ UNCHANGED <<session, process, diskVars>>
    \/ \E s \in plan[l] : Engine!Ready(l, s) /\ Interrupted(l, s)
    \/ UndoInterrupted(l)

\* The signal that the stop of l sends to the monitor on record takes effect,
\* between two calls of the monitor or inside one; StopPID returns after that.
SignalMonitor(l) ==
    /\ Engine!Ready(l, "stop-isolated-monitor")
    /\ ~Skipped(l)
    /\ \E m \in OtherMonitor(l) :
          /\ watch' = [watch EXCEPT ![m] = "none"]
          /\ IF mode[m] = "off"
             THEN UNCHANGED <<engineVars, session, process, diskVars>>
             ELSE Engine!Kill(m) /\ DiesInside(m)
    /\ UNCHANGED <<handle, seen, observationVars>>

\* SIGKILL.
Kill(l) ==
    /\ Killable
    /\ Engine!Kill(l)
    /\ DiesInside(l)
    /\ disclosed' = ~Clear'
    /\ abandoned' = (abandoned \/ Engine!Ready(l, "stop-isolated-app"))
    /\ handle' = [handle EXCEPT ![l] = [wstunnel |-> NoPid, app |-> NoPid]]
    /\ seen' = [seen EXCEPT ![l] = Unread]
    /\ watch' = [watch EXCEPT ![l] = "none"]

\* "ip netns exec" enters the namespace and becomes the application in place,
\* or finds no namespace and exits.
AppExecs(p) ==
    /\ process[p] = "starting"
    /\ process' = [process EXCEPT ![p] = IF session.netns THEN "app" ELSE "free"]
    /\ UNCHANGED <<engineVars, session, diskVars, memoryVars, observationVars>>

AppForks(p, q) ==
    /\ process[p] = "app"
    /\ process[q] = "free"
    /\ process' = [process EXCEPT ![q] = "child"]
    /\ UNCHANGED <<engineVars, session, diskVars, memoryVars, observationVars>>

Exits(p) ==
    /\ process[p] \in {"wstunnel", "app", "child", "stray"}
    /\ process' = [process EXCEPT ![p] = "free"]
    /\ session' = [session EXCEPT !.veth = VethAfter(@, process', session.netns)]
    /\ UNCHANGED <<engineVars, diskVars, memoryVars, observationVars>>

-------------------------------------------------------------------------------

Init ==
    /\ Engine!Init
    /\ session = NoSession
    /\ process = [p \in Pids |-> "free"]
    /\ root = FALSE
    /\ store = Absent
    /\ handle = [l \in Launchers |-> [wstunnel |-> NoPid, app |-> NoPid]]
    /\ seen = [l \in Launchers |-> Unread]
    /\ watch = [l \in Launchers |-> "none"]
    /\ abandoned = FALSE
    /\ disclosed = FALSE

StartStep(l) ==
    \/ OnlyConfigures(l)
    \/ CreateRuntimeRoot(l)
    \/ CreateNetns(l)
    \/ CreateVethPair(l)
    \/ ConfigureNamespaceDNS(l)
    \/ \E p \in Pids : StartWSTunnelControl(l, p) \/ LaunchApp(l, p)
    \/ CreateWireGuard(l)
    \/ ApplyClientRoutes(l)
    \/ ApplyKillSwitch(l)
    \/ StoreRuntimeState(l)

StopStep(l) ==
    \/ ReadRuntimeState(l)
    \/ StopMonitor(l)
    \/ StopApp(l)
    \/ RemoveKillSwitch(l)
    \/ RemoveClientRoutes(l)
    \/ RemoveWireGuard(l)
    \/ StopWSTunnelControl(l)
    \/ RemoveNamespaceDNS(l)
    \/ DeleteNetns(l)
    \/ ClearRuntimeState(l)

CleanupStep(l) ==
    \/ CleanupProcesses(l)
    \/ CleanupKillSwitch(l)
    \/ CleanupWireGuard(l)
    \/ CleanupNetns(l)
    \/ CleanupDNS(l)
    \/ CleanupRuntimeRoot(l)

UndoStep(l) ==
    \/ UndoNothing(l)
    \/ UndoRuntimeRoot(l)
    \/ UndoNetns(l)
    \/ \E s \in applied[l] : UndoVeth(l, s) \/ UndoWireGuard(l, s)
    \/ UndoDNS(l)
    \/ UndoClientRoutes(l)
    \/ UndoKillSwitch(l)
    \/ UndoWSTunnel(l)
    \/ UndoLaunch(l)

\* One turn of the engine of a launcher that is running a plan.
Step(l) ==
    \/ StartStep(l)
    \/ StopStep(l)
    \/ CleanupStep(l)
    \/ \E s \in plan[l] : StepFails(l, s)
    \/ UndoStep(l)

Environment ==
    \E p \in Pids : AppExecs(p) \/ Exits(p) \/ \E q \in Pids : AppForks(p, q)

Next ==
    \/ \E l \in Launchers :
          StartIsolatedApp(l) \/ StopIsolatedApp(l) \/ CleanupIsolatedApp(l)
          \/ Step(l) \/ Return(l) \/ Kill(l)
    \/ Environment

Spec == Init /\ [][Next]_vars

-------------------------------------------------------------------------------
\* Properties

TypeOK ==
    /\ Engine!TypeOK
    /\ session \in Session
    /\ process \in [Pids -> Processes]
    /\ root \in BOOLEAN
    /\ store \in StateFile
    /\ handle \in [Launchers -> [wstunnel : Pids \cup {NoPid}, app : Pids \cup {NoPid}]]
    /\ seen \in [Launchers -> StateFile \cup {Unread}]
    /\ watch \in [Launchers -> Watching]
    /\ abandoned \in BOOLEAN
    /\ disclosed \in BOOLEAN
    /\ session.routes # "none" => session.wg
    /\ session.wg \/ session.killSwitch \/ InNamespace # {} => session.netns
    /\ store.file # "absent" => root

AllOff == \A l \in Launchers : mode[l] = "off" /\ watch[l] = "none"

\* "selected applications must fail closed": while the application runs in a
\* namespace with a way out, the kill switch is up, unless a launcher turned to
\* ending it since it was launched; a failed start, a kill and a stop or cleanup
\* that comes later are included.
FailClosed == InNamespace # {} /\ session.veth = "moved" => session.killSwitch \/ abandoned

\* A start that returned Connected left the whole session up and recorded, with
\* the processes it started, whatever earlier runs left behind.
ConnectedMeansIsolated ==
    AllOff => \A l \in Launchers :
        outcome[l] = "Connected" =>
            /\ store.file = "whole" /\ root
            /\ store.wstunnel = handle[l].wstunnel /\ store.wstunnel # NoPid
            /\ session = [netns |-> TRUE, veth |-> "moved", dns |-> TRUE, wg |-> TRUE,
                          routes |-> "all", killSwitch |-> TRUE]

\* A start that failed and claims to be recoverable left a session that is on
\* record, or nothing, or else the one thing no rollback is kept for: the veth
\* pair of a create-veth-pair that failed after "ip link add".  A stop that
\* claims to be idle left nothing.  Both unless more was disclosed.
QuietMeansClear ==
    AllOff /\ ~disclosed => \A l \in Launchers :
        /\ outcome[l] = "FailedRecoverable" =>
              store.file = "whole" \/ Clear \/ ClearButHostVeth
        /\ outcome[l] = "Idle" /\ plan[l] = StopSteps /\ seen[l].file = "whole" => Clear

\* A stop that read the record and returned Idle left no name, no record, no
\* recorded process and no way out for what may still run, also after an
\* earlier stop died half-way.
IdleMeansSessionGone ==
    AllOff => \A l \in Launchers :
        outcome[l] = "Idle" /\ plan[l] = StopSteps /\ seen[l].file = "whole" =>
            /\ ClearOfNames
            /\ store.file = "absent"
            /\ seen[l].wstunnel \in Pids => process[seen[l].wstunnel] # "wstunnel"

\* A start of a session that is on record is refused before it changes anything,
\* and its rollback does not touch what the earlier start built.
StartSparesSession ==
    [][\A l \in Launchers :
          mode[l] \in {"connect", "rollback"} /\ engineVars' # engineVars
            /\ store.file = "whole" /\ "store-isolated-runtime-state" \notin attempted'[l]
            => UNCHANGED <<session, process, store>>]_vars

\* A cleanup that returned Idle removed every name and the record of whatever
\* starts, stops and kills left behind, with no record to go by.
CleanupMeansClearOfNames ==
    AllOff => \A l \in Launchers : outcome[l] = "Idle" /\ plan[l] = CleanupSteps => ClearOfNames

\* What the documents say of the code, and the code does not do.

\* "Do not leave orphaned ... processes ... after disconnect, app exit or
\* crash": a cleanup that returned Idle left no wstunnel running.
CleanupMeansClear ==
    AllOff => \A l \in Launchers : outcome[l] = "Idle" /\ plan[l] = CleanupSteps => Clear
===============================================================================
