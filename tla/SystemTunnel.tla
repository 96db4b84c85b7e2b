----------------------------- MODULE SystemTunnel -----------------------------
(***************************************************************************)
(* The system tunnel of linux-connect and linux-disconnect: launchers (CLI *)
(* processes) that run a plan of internal/planner/planner.go through the   *)
(* engine, the executors of internal/platform/linux and                    *)
(* internal/supervisor as the effects of each step on the host, and        *)
(* state.json.  A launcher may be killed at any point, a command may fail, *)
(* wstunnel may exit by itself and its PID may be taken by another program.*)
(***************************************************************************)
EXTENDS Naturals, FiniteSets

CONSTANTS
    Launchers,   \* CLI processes
    Endpoints,   \* IP addresses the WSTunnel host can resolve to
    HostRoutes,  \* the endpoints the host had a host route to beforehand
    AllowedIPs,  \* the profile's client routes
    Pids,        \* process identifiers, a bound of the model
    NoPid,       \* no process
    Killable     \* whether a launcher can be killed

\* The steps between "add-route-exclusion-<ip>" and "store-runtime-state"; an
\* endpoint stands for its own snapshot and exclusion steps.
ConnectSteps ==
    {"validate-linux-prerequisites", "start-wstunnel", "create-wireguard-interface",
     "apply-wireguard-addresses", "apply-wireguard-peer", "apply-client-routes",
     "apply-dns", "store-runtime-state"}

DisconnectSteps ==
    {"read-runtime-state", "restore-dns", "remove-client-routes",
     "remove-wireguard-interface", "stop-wstunnel",
     "remove-endpoint-route-exclusions", "clear-runtime-state"}

ASSUME TunnelAssumption ==
    /\ Endpoints \cap (ConnectSteps \cup DisconnectSteps) = {}
    /\ HostRoutes \subseteq Endpoints
    /\ AllowedIPs # {}
    /\ NoPid \notin Pids
    /\ Killable \in BOOLEAN

Steps == Endpoints \cup ConnectSteps \cup DisconnectSteps

\* A disconnect that gave up the exclusions before the interface.
RankExclusionsFirst ==
    [s \in Steps |->
        CASE s \in {"validate-linux-prerequisites", "read-runtime-state"} -> 0
          [] s \in Endpoints \cup {"remove-endpoint-route-exclusions"} -> 1
          [] s \in {"start-wstunnel", "restore-dns"} -> 2
          [] s \in {"create-wireguard-interface", "remove-client-routes"} -> 3
          [] s \in {"apply-wireguard-addresses", "remove-wireguard-interface"} -> 4
          [] s \in {"apply-wireguard-peer", "stop-wstunnel"} -> 5
          [] s \in {"apply-client-routes", "clear-runtime-state"} -> 6
          [] s = "apply-dns" -> 7
          [] OTHER -> 8]

\* The order of both plans' slices.
Rank ==
    [s \in Steps |->
        CASE s \in {"validate-linux-prerequisites", "read-runtime-state"} -> 0
          [] s \in Endpoints \cup {"restore-dns"} -> 1
          [] s \in {"start-wstunnel", "remove-client-routes"} -> 2
          [] s \in {"create-wireguard-interface", "remove-wireguard-interface"} -> 3
          [] s \in {"apply-wireguard-addresses", "stop-wstunnel"} -> 4
          [] s \in {"apply-wireguard-peer", "remove-endpoint-route-exclusions"} -> 5
          [] s \in {"apply-client-routes", "clear-runtime-state"} -> 6
          [] s = "apply-dns" -> 7
          [] OTHER -> 8]

Undoable == Endpoints \cup (ConnectSteps \ {"validate-linux-prerequisites"})

VARIABLES
    \* The engine, as in StepEngine.
    mode, plan, attempted, applied, failed, undone, stuck, outcome,
    \* The host.
    route,         \* the host route of each endpoint: see Routes
    process,       \* what runs under each PID
    link,          \* whether the WireGuard interface exists
    clientRoutes,  \* the client routes on it
    dns,           \* whether its resolved settings are the launcher's
    store,         \* state.json
    \* Memory of each launcher.
    handle,        \* WSTunnelExecutor.process
    seen,          \* RouteExecutor.runtimeState and runtimeStateMissing
    \* Observation: a run died or reported FailedDirty since the host was last clean.
    disclosed

engineVars == <<mode, plan, attempted, applied, failed, undone, stuck, outcome>>
hostVars == <<route, process, link, clientRoutes, dns, store>>
memoryVars == <<handle, seen>>
vars == <<engineVars, hostVars, memoryVars, disclosed>>

Engine == INSTANCE StepEngine WITH Deferred <- {}

\* A route is absent, the host's own, the launcher's past the tunnel, or the
\* launcher's through the WireGuard interface.
Routes == {"none", "host", "own", "tunnel"}

-------------------------------------------------------------------------------
\* state.json

\* The fields of State that steer a later run; Absent is also Go's zero State.
StateFile ==
    [file : {"absent", "torn", "whole"}, endpoints : SUBSET Endpoints,
     pid : Pids \cup {NoPid}, dns : BOOLEAN]

Absent == [file |-> "absent", endpoints |-> {}, pid |-> NoPid, dns |-> FALSE]
Torn == [Absent EXCEPT !.file = "torn"]
Unread == [Absent EXCEPT !.file = "unread"]

\* stateFromPlan, with the process that start-wstunnel left.
RecordOf(l) ==
    [file |-> "whole", endpoints |-> plan[l] \cap Endpoints, pid |-> handle[l],
     dns |-> "apply-dns" \in plan[l]]

\* stateForDisconnect: what was read at first, or else what a new Load finds.
Known(l) == IF seen[l].file = "unread" THEN store ELSE seen[l]

WSTunnelRuns(p) == p \in Pids /\ process[p] = "wstunnel"

\* A status that did not look for the recorded process.
StatusOfFile ==
    CASE store.file = "absent" -> "Idle"
      [] store.file = "torn" -> "Dirty"
      [] OTHER -> "Connected"

\* status.FromStore with markMissingProcesses.
Status ==
    CASE store.file = "absent" -> "Idle"
      [] store.file = "torn" -> "Dirty"
      [] OTHER -> IF store.pid # NoPid /\ ~WSTunnelRuns(store.pid) THEN "Dirty" ELSE "Connected"

-------------------------------------------------------------------------------
\* The commands that change the host: what each needs and what it does

\* "ip link add" refuses an interface that exists.
LinkAdded == ~link /\ link' = TRUE

\* "ip link delete": routes and resolved settings of the interface go with it.
LinkDeleted ==
    /\ link
    /\ link' = FALSE
    /\ route' = [e \in Endpoints |-> IF route[e] = "tunnel" THEN "none" ELSE route[e]]
    /\ clientRoutes' = {}
    /\ dns' = FALSE

\* "wg setconf", "ip address add", MTU and "up": what they set goes with the link.
LinkConfigured == link /\ UNCHANGED hostVars

\* "ip route replace" of every client route.
ClientRoutesReplaced == link /\ clientRoutes' = AllowedIPs

\* "ip route delete" fails on a route that is not there, here and below.
ClientRoutesDeleted(ips) ==
    /\ ips \subseteq clientRoutes
    /\ clientRoutes' = clientRoutes \ ips

DeleteRoutes(ips) ==
    /\ \A e \in ips : route[e] # "none"
    /\ route' = [e \in Endpoints |-> IF e \in ips THEN "none" ELSE route[e]]

\* "resolvectl dns", "domain" and "default-route"; "resolvectl revert".
DNSSet == link /\ dns' = TRUE
DNSReverted == link /\ dns' = FALSE

-------------------------------------------------------------------------------
\* linux-connect and linux-disconnect, up to engine.Run

\* handleExistingLinuxConnection let the command through: in every other
\* status it returns without a change.  The host name resolved to ips.
StartConnect(l, ips, withDNS) ==
    /\ Status = "Idle"
    /\ ips # {}
    /\ Engine!Begin(l, "connect", ips \cup (ConnectSteps \ (IF withDNS THEN {} ELSE {"apply-dns"})))
    /\ handle' = [handle EXCEPT ![l] = NoPid]
    /\ seen' = [seen EXCEPT ![l] = Unread]
    /\ UNCHANGED <<hostVars, disclosed>>

StartDisconnect(l) ==
    /\ Engine!Begin(l, "disconnect", DisconnectSteps)
    /\ handle' = [handle EXCEPT ![l] = NoPid]
    /\ seen' = [seen EXCEPT ![l] = Unread]
    /\ UNCHANGED <<hostVars, disclosed>>

-------------------------------------------------------------------------------
\* Steps of a connect whose Apply returns nil

\* validatePrerequisites: only looks.
ValidatePrerequisites(l) ==
    /\ Engine!ApplyOk(l, "validate-linux-prerequisites")
    /\ UNCHANGED <<hostVars, memoryVars, disclosed>>

\* Where "ip route get" says e is: the host route of e if there is one, or else
\* through a client route that covers e, if one is up.
Found(e) ==
    CASE route[e] = "tunnel" -> {"tunnel"}
      [] route[e] = "none" /\ clientRoutes # {} -> {"own", "tunnel"}
      [] OTHER -> {"own"}

\* The snapshot, then "ip route replace" through what it found.
AddRouteExclusion(l, e) ==
    /\ Engine!ApplyOk(l, e)
    /\ \E found \in Found(e) : route' = [route EXCEPT ![e] = found]
    /\ UNCHANGED <<process, link, clientRoutes, dns, store, memoryVars, disclosed>>

\* exec's Start returned a process: nothing waits for it to listen.
StartWSTunnel(l, p) ==
    /\ Engine!ApplyOk(l, "start-wstunnel")
    /\ process[p] = "free"
    /\ process' = [process EXCEPT ![p] = "wstunnel"]
    /\ handle' = [handle EXCEPT ![l] = p]
    /\ UNCHANGED <<route, link, clientRoutes, dns, store, seen, disclosed>>

CreateInterface(l) ==
    /\ Engine!ApplyOk(l, "create-wireguard-interface")
    /\ LinkAdded
    /\ UNCHANGED <<route, process, clientRoutes, dns, store, memoryVars, disclosed>>

ConfigureInterface(l) ==
    /\ \E s \in {"apply-wireguard-addresses", "apply-wireguard-peer"} : Engine!ApplyOk(l, s)
    /\ LinkConfigured
    /\ UNCHANGED <<memoryVars, disclosed>>

ApplyClientRoutes(l) ==
    /\ Engine!ApplyOk(l, "apply-client-routes")
    /\ ClientRoutesReplaced
    /\ UNCHANGED <<route, process, link, dns, store, memoryVars, disclosed>>

ApplyDNS(l) ==
    /\ Engine!ApplyOk(l, "apply-dns")
    /\ DNSSet
    /\ UNCHANGED <<route, process, link, clientRoutes, store, memoryVars, disclosed>>

\* A record without what the launcher started.
StoreRuntimeStateWithoutProcess(l) ==
    /\ Engine!ApplyOk(l, "store-runtime-state")
    /\ store' = [RecordOf(l) EXCEPT !.pid = NoPid]
    /\ UNCHANGED <<route, process, link, clientRoutes, dns, memoryVars, disclosed>>

StoreRuntimeState(l) ==
    /\ Engine!ApplyOk(l, "store-runtime-state")
    /\ store' = RecordOf(l)
    /\ UNCHANGED <<route, process, link, clientRoutes, dns, memoryVars, disclosed>>

-------------------------------------------------------------------------------
\* Steps of a disconnect whose Apply returns nil

\* Load succeeded, or found no file: then every dependent step is skipped.
ReadRuntimeState(l) ==
    /\ Engine!ApplyOk(l, "read-runtime-state")
    /\ store.file # "torn"
    /\ seen' = [seen EXCEPT ![l] = store]
    /\ UNCHANGED <<hostVars, handle, disclosed>>

\* stateForDisconnect keeps what it could load.
Remember(l) ==
    seen' = [seen EXCEPT ![l] = IF Known(l).file = "torn" THEN Unread ELSE Known(l)]

\* A dependent step that has a State to work from, or no runtime state at all.
Dependent(l, s) ==
    /\ Engine!ApplyOk(l, s)
    /\ Known(l).file # "torn"
    /\ Remember(l)
    /\ UNCHANGED <<store, handle, disclosed>>

RestoreDNS(l) ==
    /\ Dependent(l, "restore-dns")
    /\ IF Known(l).dns THEN DNSReverted ELSE UNCHANGED dns
    /\ UNCHANGED <<route, process, link, clientRoutes>>

RemoveClientRoutes(l) ==
    /\ Dependent(l, "remove-client-routes")
    /\ IF Known(l).file = "whole"
       THEN ClientRoutesDeleted(AllowedIPs)
       ELSE UNCHANGED clientRoutes
    /\ UNCHANGED <<route, process, link, dns>>

RemoveInterface(l) ==
    /\ Dependent(l, "remove-wireguard-interface")
    /\ IF seen[l].file = "absent" THEN UNCHANGED <<route, link, clientRoutes, dns>> ELSE LinkDeleted
    /\ UNCHANGED process

\* A stop that trusted the PID alone.
StopRecordedByPid(l) ==
    process' = [p \in Pids |-> IF p = Known(l).pid THEN "free" ELSE process[p]]

\* PIDArgvMatches, then StopPID; a PID that is gone counts as stopped.
StopRecorded(l) ==
    process' = [p \in Pids |->
        IF p = Known(l).pid /\ process[p] = "wstunnel" THEN "free" ELSE process[p]]

StopWSTunnel(l) ==
    /\ Dependent(l, "stop-wstunnel")
    /\ StopRecorded(l)
    /\ UNCHANGED <<route, link, clientRoutes, dns>>

\* A removal that used what this process discovered, which is nothing.
RemoveDiscoveredExclusions(l) ==
    /\ Dependent(l, "remove-endpoint-route-exclusions")
    /\ UNCHANGED <<route, process, link, clientRoutes, dns>>

RemoveRouteExclusions(l) ==
    /\ Dependent(l, "remove-endpoint-route-exclusions")
    /\ DeleteRoutes(Known(l).endpoints)
    /\ UNCHANGED <<process, link, clientRoutes, dns>>

\* The one step that runs whatever was read, and whatever failed before it.
ClearRuntimeState(l) ==
    /\ Engine!ApplyOk(l, "clear-runtime-state")
    /\ store' = Absent
    /\ UNCHANGED <<route, process, link, clientRoutes, dns, memoryVars, disclosed>>

-------------------------------------------------------------------------------
\* Steps that stop part-way

\* Whether the Apply of s can return an error now.
MayFail(l, s) ==
    LET known == Known(l) IN
    CASE s = "read-runtime-state" -> store.file = "torn"
      [] s \in {"restore-dns", "remove-client-routes", "remove-wireguard-interface",
                "stop-wstunnel", "remove-endpoint-route-exclusions"} ->
            \/ known.file = "torn"
            \/ /\ known.file = "whole"
               /\ s = "restore-dns" => known.dns
               /\ s = "stop-wstunnel" => WSTunnelRuns(known.pid)
               /\ s = "remove-endpoint-route-exclusions" => known.endpoints # {}
            \/ s = "remove-wireguard-interface" /\ seen[l].file = "unread"
      [] OTHER -> TRUE

\* A proper part of a list of commands, each of which must have succeeded.
ClientRoutesPartlyDeleted ==
    /\ \E some \in SUBSET clientRoutes : some # AllowedIPs /\ ClientRoutesDeleted(some)
    /\ UNCHANGED <<route, process, link, dns, store>>

\* What an Apply leaves on the host when it returns an error or its process
\* dies inside it: the commands of one step run one by one, and state.json is
\* truncated before it is written.
ApplyInterrupted(l, s) ==
    CASE s = "store-runtime-state" ->
            /\ store' \in {store, Torn, RecordOf(l)}
            /\ UNCHANGED <<route, process, link, clientRoutes, dns>>
      [] s = "apply-client-routes" ->
            /\ \E some \in SUBSET AllowedIPs :
                  /\ some # AllowedIPs /\ (some # {} => link)
                  /\ clientRoutes' = clientRoutes \cup some
            /\ UNCHANGED <<route, process, link, dns, store>>
      [] s = "apply-dns" ->
            /\ dns' \in {FALSE, link}
            /\ UNCHANGED <<route, process, link, clientRoutes, store>>
      [] s = "remove-client-routes" /\ Known(l).file = "whole" -> ClientRoutesPartlyDeleted
      [] s = "remove-endpoint-route-exclusions" /\ Known(l).file = "whole" ->
            /\ \E some \in SUBSET Known(l).endpoints :
                  some # Known(l).endpoints /\ DeleteRoutes(some)
            /\ UNCHANGED <<process, link, clientRoutes, dns, store>>
      [] OTHER -> UNCHANGED hostVars

\* Any step of either plan: a command failed, or a file could not be used.
StepFails(l, s) ==
    /\ Engine!ApplyFail(l, s)
    /\ MayFail(l, s)
    /\ ApplyInterrupted(l, s)
    /\ IF s \in DisconnectSteps \ {"read-runtime-state", "clear-runtime-state"}
       THEN Remember(l) ELSE UNCHANGED seen
    /\ UNCHANGED <<handle, disclosed>>

-------------------------------------------------------------------------------
\* Rollback of a connect.  "store-runtime-state" is its last step: it is never
\* among the applied steps of a run that rolls back.

\* A rollback that leaves the route it added.
UndoRouteExclusionNoop(l, e) ==
    /\ Engine!UndoOk(l, e)
    /\ UNCHANGED <<hostVars, memoryVars, disclosed>>

UndoRouteExclusion(l, e) ==
    /\ e \in Endpoints
    /\ \/ Engine!UndoOk(l, e) /\ DeleteRoutes({e})
       \/ Engine!UndoFail(l, e) /\ UNCHANGED route
    /\ UNCHANGED <<process, link, clientRoutes, dns, store, memoryVars, disclosed>>

\* execProcess.Stop returns what Wait returned: an error when wstunnel died of
\* the signal, although it is gone.
UndoWSTunnel(l) ==
    /\ \/ Engine!UndoOk(l, "start-wstunnel") /\ handle' = [handle EXCEPT ![l] = NoPid]
       \/ Engine!UndoFail(l, "start-wstunnel") /\ UNCHANGED handle
    /\ process' = [p \in Pids |->
          IF p = handle[l] /\ process[p] = "wstunnel" THEN "free" ELSE process[p]]
    /\ UNCHANGED <<route, link, clientRoutes, dns, store, seen, disclosed>>

\* Creation, addresses and peer are each undone by "ip link delete".
UndoInterface(l, s) ==
    /\ s \in {"create-wireguard-interface", "apply-wireguard-addresses", "apply-wireguard-peer"}
    /\ \/ Engine!UndoOk(l, s) /\ LinkDeleted
       \/ Engine!UndoFail(l, s) /\ UNCHANGED <<route, link, clientRoutes, dns>>
    /\ UNCHANGED <<process, store, memoryVars, disclosed>>

UndoClientRoutes(l) ==
    /\ \/ /\ Engine!UndoOk(l, "apply-client-routes")
          /\ ClientRoutesDeleted(AllowedIPs)
          /\ UNCHANGED <<route, process, link, dns, store>>
       \/ Engine!UndoFail(l, "apply-client-routes") /\ ClientRoutesPartlyDeleted
    /\ UNCHANGED <<memoryVars, disclosed>>

UndoDNS(l) ==
    /\ \/ Engine!UndoOk(l, "apply-dns") /\ DNSReverted
       \/ Engine!UndoFail(l, "apply-dns") /\ UNCHANGED dns
    /\ UNCHANGED <<route, process, link, clientRoutes, store, memoryVars, disclosed>>

-------------------------------------------------------------------------------
\* The end of a run, and what happens around it

\* Nothing of the launcher's is left on the host; state.json is not counted.
Clean ==
    /\ \A e \in Endpoints : route[e] \in {"none", "host"}
    /\ \A p \in Pids : process[p] # "wstunnel"
    /\ ~link /\ clientRoutes = {} /\ ~dns

Return(l) ==
    /\ Engine!Return(l)
    /\ disclosed' = ((disclosed \/ Engine!Verdict(l) = "FailedDirty") /\ ~Clean)
    /\ UNCHANGED <<hostVars, memoryVars>>

\* A process that dies between two calls, inside an Apply, or inside the one
\* Rollback that runs several commands.
DiesInside(l) ==
    \/ UNCHANGED hostVars
    \/ \E s \in plan[l] : Engine!Ready(l, s) /\ ApplyInterrupted(l, s)
    \/ Engine!ReadyToUndo(l, "apply-client-routes") /\ ClientRoutesPartlyDeleted

\* SIGKILL.
Kill(l) ==
    /\ Killable
    /\ Engine!Kill(l)
    /\ DiesInside(l)
    /\ disclosed' = ~Clean'
    /\ handle' = [handle EXCEPT ![l] = NoPid]
    /\ seen' = [seen EXCEPT ![l] = Unread]

\* wstunnel exits, its PID goes to another program, which exits.
ProcessChanges(p) ==
    /\ \E next \in {"free", "other"} :
          /\ <<process[p], next>> \in {<<"wstunnel", "free">>, <<"free", "other">>, <<"other", "free">>}
          /\ process' = [process EXCEPT ![p] = next]
    /\ UNCHANGED <<engineVars, route, link, clientRoutes, dns, store, memoryVars, disclosed>>

-------------------------------------------------------------------------------

Init ==
    /\ Engine!Init
    /\ route = [e \in Endpoints |-> IF e \in HostRoutes THEN "host" ELSE "none"]
    /\ process = [p \in Pids |-> "free"]
    /\ link = FALSE
    /\ clientRoutes = {}
    /\ dns = FALSE
    /\ store = Absent
    /\ handle = [l \in Launchers |-> NoPid]
    /\ seen = [l \in Launchers |-> Unread]
    /\ disclosed = FALSE

\* One turn of the engine of a launcher that is running a plan.
Step(l) ==
    \/ ValidatePrerequisites(l)
    \/ \E e \in Endpoints : AddRouteExclusion(l, e)
    \/ \E p \in Pids : StartWSTunnel(l, p)
    \/ CreateInterface(l)
    \/ ConfigureInterface(l)
    \/ ApplyClientRoutes(l)
    \/ ApplyDNS(l)
    \/ StoreRuntimeState(l)
    \/ ReadRuntimeState(l)
    \/ RestoreDNS(l)
    \/ RemoveClientRoutes(l)
    \/ RemoveInterface(l)
    \/ StopWSTunnel(l)
    \/ RemoveRouteExclusions(l)
    \/ ClearRuntimeState(l)
    \/ \E s \in plan[l] : StepFails(l, s)
    \/ \E e \in Endpoints : UndoRouteExclusion(l, e)
    \/ UndoWSTunnel(l)
    \/ \E s \in applied[l] : UndoInterface(l, s)
    \/ UndoClientRoutes(l)
    \/ UndoDNS(l)
    \/ Return(l)

Next ==
    \/ \E l \in Launchers :
          \/ \E ips \in SUBSET Endpoints, withDNS \in BOOLEAN : StartConnect(l, ips, withDNS)
          \/ StartDisconnect(l)
          \/ Step(l)
          \/ Kill(l)
    \/ \E p \in Pids : ProcessChanges(p)

Spec == Init /\ [][Next]_vars

-------------------------------------------------------------------------------
\* Properties

TypeOK ==
    /\ Engine!TypeOK
    /\ route \in [Endpoints -> Routes]
    /\ process \in [Pids -> {"free", "wstunnel", "other"}]
    /\ link \in BOOLEAN
    /\ clientRoutes \subseteq AllowedIPs
    /\ dns \in BOOLEAN
    /\ store \in StateFile
    /\ handle \in [Launchers -> Pids \cup {NoPid}]
    /\ seen \in [Launchers -> StateFile \cup {Unread}]
    /\ disclosed \in BOOLEAN
    /\ ~link => clientRoutes = {} /\ ~dns /\ \A e \in Endpoints : route[e] # "tunnel"

AllOff == \A l \in Launchers : mode[l] = "off"

\* Everything a connect with this record built, wstunnel apart (it may exit).
Up ==
    /\ link
    /\ clientRoutes = AllowedIPs
    /\ dns = store.dns
    /\ \A e \in store.endpoints : route[e] = "own"

\* The addresses through which the tunnel of a run or of the record is reached.
TunnelEndpoints ==
    store.endpoints \cup
    UNION {(plan[l] \cap Endpoints) \cup seen[l].endpoints : l \in {k \in Launchers : mode[k] # "off"}}

\* "never route the WSTunnel endpoint through WireGuard": while client routes
\* are up, every endpoint of the tunnel has its exclusion, in the middle of a
\* connect, a rollback and a disconnect too, unless the interface could not be
\* deleted or that was disclosed earlier.
NoLoop ==
    clientRoutes # {} =>
        \/ \A e \in TunnelEndpoints : route[e] = "own"
        \/ disclosed
        \/ \E l \in Launchers :
              "remove-wireguard-interface" \in failed[l] \/ "create-wireguard-interface" \in stuck[l]

\* What status and the next connect read from state.json agrees with the host:
\* Idle means nothing is left, Connected means everything is up, unless a run
\* died or said FailedDirty since the host was last clean.
StatusIsTruthful ==
    AllOff /\ ~disclosed =>
        /\ Status = "Idle" => Clean
        /\ Status = "Connected" => Up

\* A connect that returned Connected left the whole tunnel up and recorded,
\* whatever earlier runs left behind.
ConnectedMeansUp ==
    AllOff => \A l \in Launchers :
        outcome[l] = "Connected" =>
            /\ store.file = "whole" /\ Up
            /\ store.pid = handle[l] /\ handle[l] # NoPid

\* A failed connect that claims to be recoverable, and a disconnect that claims
\* to be idle, leave nothing undisclosed behind.
QuietMeansClean ==
    AllOff /\ ~disclosed => \A l \in Launchers :
        outcome[l] \in {"FailedRecoverable", "Idle"} => Clean

\* A disconnect that read a record and returned Idle removed all it lists, also
\* after an earlier disconnect died half-way.
IdleMeansRecordGone ==
    AllOff => \A l \in Launchers :
        outcome[l] = "Idle" /\ seen[l].file = "whole" =>
            /\ store.file = "absent"
            /\ ~link
            /\ \A e \in seen[l].endpoints : route[e] = "none"
            /\ seen[l].pid \in Pids => process[seen[l].pid] # "wstunnel"

\* A launcher stops wstunnel processes only, and only the one it started or
\* read from the record: a program that got the PID since is left alone.
StopsOnlyItsOwn ==
    [][\A p \in Pids : process'[p] # process[p] /\ engineVars' # engineVars =>
          \/ process[p] = "free" /\ process'[p] = "wstunnel"
          \/ /\ process[p] = "wstunnel" /\ process'[p] = "free"
             /\ \E l \in Launchers : p = handle[l] \/ p = Known(l).pid]_vars

\* No executor leaves the engine without an answer: a launcher that runs a plan
\* has a step it can take, in whatever state the host, the record and its own
\* memory are.  With the engine's EveryRunEnds: every run on the host returns.
NeverStuck == \A l \in Launchers : mode[l] # "off" => ENABLED Step(l)

\* What the documents say of the code, and the code does not do.

\* "Never leave WSTunnel or WireGuard processes running after disconnect": a
\* disconnect that returned Idle left a clean host.
IdleMeansClean ==
    AllOff => \A l \in Launchers : outcome[l] = "Idle" => Clean
===============================================================================
