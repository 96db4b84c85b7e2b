------------------------- MODULE SessionOutcomeProofs -------------------------
(***************************************************************************)
(* What the outcome of a run says of an isolated session, when launchers   *)
(* run one at a time: Connected means all of it is there, the Idle of a    *)
(* stop or a cleanup that none of it is, FailedRecoverable that it is on   *)
(* record or gone, and a start that finds the session on record leaves it  *)
(* alone.                                                                  *)
(***************************************************************************)
EXTENDS IsolatedSessionProofs

\* What a step of a start has achieved.
Effect(l, s) ==
    /\ s = "create-netns" => session.netns
    /\ s = "create-veth-pair" => session.netns /\ session.veth = "moved"
    /\ s = "configure-namespace-dns" => session.dns
    /\ s = "start-wstunnel-control" => handle[l].wstunnel \in Pids
    /\ s = "create-wireguard-interface-in-netns" => session.wg
    /\ s = "apply-namespace-client-routes" => session.routes = "all"
    /\ s = "apply-namespace-kill-switch" => session.killSwitch
    /\ s = "store-isolated-runtime-state" =>
          root /\ store.file = "whole" /\ store.wstunnel = handle[l].wstunnel

NothingButDNS ==
    /\ ~session.netns /\ session.veth = "none" /\ ~session.wg
    /\ session.routes = "none" /\ ~session.killSwitch

\* What a step of a stop has removed,
Gone(l, s) ==
    /\ s = "stop-wstunnel-control" /\ seen[l].wstunnel \in Pids =>
          process[seen[l].wstunnel] # "wstunnel"
    /\ s = "remove-namespace-dns" => ~session.dns
    /\ s = "delete-netns" => NothingButDNS
    /\ s = "clear-isolated-runtime-state" => ~root /\ store.file = "absent"

\* and a step of a cleanup.
Cleared(s) ==
    /\ s = "cleanup-netns" => NothingButDNS
    /\ s = "cleanup-namespace-dns" => ~session.dns
    /\ s = "cleanup-isolated-runtime-root" => ~root

\* A run of the kind that has met no error, and after it until the next.
Going(l, kind, verdict) == mode[l] = kind \/ (mode[l] = "off" /\ outcome[l] = verdict)

Connecting(l) ==
    Going(l, "connect", "Connected") =>
        plan[l] = StartSteps /\ \A s \in applied[l] : Effect(l, s)

Ending(l) ==
    Going(l, "disconnect", "Idle") /\ failed[l] = {} =>
        /\ plan[l] = StopSteps =>
              /\ "read-isolated-runtime-state" \in applied[l] => seen[l].file \in {"absent", "whole"}
              /\ seen[l].file = "whole" => \A s \in applied[l] : Gone(l, s)
        /\ plan[l] = CleanupSteps /\ Breaks \cap CleanupSteps = {} =>
              \A s \in applied[l] : Cleared(s)

\* A start that goes beyond its second step found no record, and makes one in
\* its last.
Fresh(l) ==
    mode[l] \in {"connect", "rollback"} =>
        /\ \/ attempted[l] \subseteq {"validate-linux-prerequisites", "create-isolated-runtime-root"}
           \/ "create-isolated-runtime-root" \in applied[l]
        /\ "create-isolated-runtime-root" \in applied[l]
              /\ "store-isolated-runtime-state" \notin attempted[l] => store.file = "absent"

OutcomeInv(l) == Connecting(l) /\ Ending(l) /\ Fresh(l)

-------------------------------------------------------------------------------
\* The steps

\* An apply of a start that succeeded.
LEMMA AppliedKeepsOutcome ==
    ASSUME EngineInv, SafeInv, NEW only, Launchers = {only}, OutcomeInv(only),
           NEW s \in StartSteps, Engine!ApplyOk(only, s),
           \A t \in applied[only] : Effect(only, t) => Effect(only, t)',
           Effect(only, s)',
           s = "create-isolated-runtime-root" => store.file = "absent",
           s # "store-isolated-runtime-state" => store' = store
    PROVE  OutcomeInv(only)'
<1>1. mode[only] = "connect" /\ plan[only] = StartSteps
    BY PlanOfStep DEF Engine!ApplyOk
<1>2. attempted[only] = applied[only]
    BY <1>1, AttemptedIsApplied
<1>3. /\ mode' = mode /\ plan' = plan
      /\ attempted'[only] = attempted[only] \cup {s} /\ applied'[only] = applied[only] \cup {s}
    BY DEF Engine!ApplyOk, EngineInv, Engine!TypeOK
<1>4. Connecting(only)'
    BY <1>1, <1>3 DEF OutcomeInv, Connecting, Going
<1>5. Ending(only)'
    BY <1>1, <1>3 DEF Ending, Going
<1>6. \/ attempted'[only] \subseteq {"validate-linux-prerequisites", "create-isolated-runtime-root"}
      \/ "create-isolated-runtime-root" \in applied'[only]
  <2>1. CASE s \in {"validate-linux-prerequisites", "create-isolated-runtime-root"}
      BY <1>1, <1>3, <2>1 DEF OutcomeInv, Fresh
  <2>2. CASE s \notin {"validate-linux-prerequisites", "create-isolated-runtime-root"}
      BY <1>1, <1>2, <1>3, <2>2, EarlierAttempted, RecordRanks, StartPlanMembers DEF Engine!ApplyOk
  <2> QED BY <2>1, <2>2
<1>7. "create-isolated-runtime-root" \in applied'[only]
         /\ "store-isolated-runtime-state" \notin attempted'[only] => store'.file = "absent"
    BY <1>1, <1>3 DEF OutcomeInv, Fresh
<1> QED BY <1>4, <1>5, <1>6, <1>7 DEF OutcomeInv, Fresh

LEMMA StartStepKeepsOutcome ==
    ASSUME EngineInv, HostOK, MemoryOK, SafeInv, NEW only, Launchers = {only}, OutcomeInv(only),
           StartStep(only)
    PROVE  OutcomeInv(only)'
<1>1. ASSUME NEW s \in StartSteps, NEW new \in Session, Changes(only, s, new),
             session.netns => new.netns, session.veth = "moved" => new.veth = "moved",
             session.dns => new.dns, session.wg => new.wg,
             session.routes = "all" => new.routes = "all", session.killSwitch => new.killSwitch,
             s \notin {"create-isolated-runtime-root", "start-wstunnel-control", "store-isolated-runtime-state"},
             s = "create-netns" => new.netns,
             s = "create-veth-pair" => new.netns /\ new.veth = "moved",
             s = "configure-namespace-dns" => new.dns,
             s = "create-wireguard-interface-in-netns" => new.wg,
             s = "apply-namespace-client-routes" => new.routes = "all",
             s = "apply-namespace-kill-switch" => new.killSwitch
      PROVE  OutcomeInv(only)'
  <2>1. session' = new /\ UNCHANGED <<handle, root, store>> /\ Engine!ApplyOk(only, s)
      BY <1>1 DEF Changes, Done, diskVars, memoryVars
  <2>2. \A t : Effect(only, t) => Effect(only, t)'
      BY <1>1, <2>1 DEF Effect
  <2>3. Effect(only, s)'
      BY <1>1, <2>1 DEF Effect
  <2> QED BY <1>1, <2>1, <2>2, <2>3, AppliedKeepsOutcome
<1>2. ASSUME OnlyConfigures(only) PROVE OutcomeInv(only)'
    BY <1>1, <1>2, StartPlanMembers DEF OnlyConfigures, HostOK
<1>3. ASSUME CreateRuntimeRoot(only) PROVE OutcomeInv(only)'
  <2>1. store.file = "absent"
      BY <1>3, StopPlanMembers DEF CreateRuntimeRoot, Done, Works
  <2>2. UNCHANGED <<session, handle, store>> /\ root' = TRUE
        /\ Engine!ApplyOk(only, "create-isolated-runtime-root")
      BY <1>3 DEF CreateRuntimeRoot, Done, memoryVars
  <2>3. \A t : Effect(only, t) => Effect(only, t)'
      BY <2>2 DEF Effect
  <2>4. Effect(only, "create-isolated-runtime-root")'
      BY DEF Effect
  <2> QED BY <2>1, <2>2, <2>3, <2>4, AppliedKeepsOutcome, StartPlanMembers
<1>4. ASSUME CreateNetns(only) PROVE OutcomeInv(only)'
    BY <1>1, <1>4, StartPlanMembers DEF CreateNetns, HostOK, Session
<1>5. ASSUME CreateVethPair(only) PROVE OutcomeInv(only)'
  <2>1. session.netns
      BY <1>5, StopPlanMembers DEF CreateVethPair, Changes, Done, Works
  <2> QED BY <1>1, <1>5, <2>1, StartPlanMembers DEF CreateVethPair, HostOK, Session
<1>6. ASSUME ConfigureNamespaceDNS(only) PROVE OutcomeInv(only)'
    BY <1>1, <1>6, StartPlanMembers DEF ConfigureNamespaceDNS, HostOK, Session
<1>7. ASSUME NEW p \in Pids, StartWSTunnelControl(only, p) PROVE OutcomeInv(only)'
  <2>1. UNCHANGED <<session, root, store>> /\ Engine!ApplyOk(only, "start-wstunnel-control")
        /\ handle'[only].wstunnel = p
      BY <1>7 DEF StartWSTunnelControl, Done, diskVars, MemoryOK
  <2>2. "store-isolated-runtime-state" \notin applied[only]
    <3>1. mode[only] = "connect" /\ plan[only] = StartSteps
        BY <2>1, PlanOfStep, StartPlanMembers DEF Engine!ApplyOk
    <3>2. "start-wstunnel-control" \notin attempted[only]
        BY <2>1 DEF Engine!ApplyOk, Engine!Ready
    <3> QED BY <3>1, <3>2, AttemptedIsApplied, RecordRanks, StartPlanMembers
               DEF EngineInv, Engine!InPlanOrder
  <2>3. \A t \in applied[only] : Effect(only, t) => Effect(only, t)'
      BY <2>1, <2>2 DEF Effect
  <2>4. Effect(only, "start-wstunnel-control")'
      BY <2>1 DEF Effect
  <2> QED BY <2>1, <2>3, <2>4, AppliedKeepsOutcome, StartPlanMembers
<1>8. ASSUME CreateWireGuard(only) PROVE OutcomeInv(only)'
    BY <1>1, <1>8, StartPlanMembers DEF CreateWireGuard, HostOK, Session
<1>9. ASSUME ApplyClientRoutes(only) PROVE OutcomeInv(only)'
    BY <1>1, <1>9, StartPlanMembers DEF ApplyClientRoutes, HostOK, Session
<1>10. ASSUME ApplyKillSwitch(only) PROVE OutcomeInv(only)'
    BY <1>1, <1>10, StartPlanMembers DEF ApplyKillSwitch, Filtered, HostOK, Session
<1>11. ASSUME NEW p \in Pids, LaunchApp(only, p) PROVE OutcomeInv(only)'
  <2>1. UNCHANGED <<session, root, store>> /\ Engine!ApplyOk(only, "launch-app-in-netns")
        /\ handle'[only].wstunnel = handle[only].wstunnel
      BY <1>11 DEF LaunchApp, Done, diskVars, MemoryOK
  <2>2. \A t : Effect(only, t) => Effect(only, t)'
      BY <2>1 DEF Effect
  <2>3. Effect(only, "launch-app-in-netns")'
      BY DEF Effect
  <2> QED BY <2>1, <2>2, <2>3, AppliedKeepsOutcome, StartPlanMembers
<1>12. ASSUME StoreRuntimeState(only) PROVE OutcomeInv(only)'
  <2>1. UNCHANGED <<session, handle>> /\ root' = TRUE
        /\ store'.file = "whole" /\ store'.wstunnel = handle[only].wstunnel
        /\ Engine!ApplyOk(only, "store-isolated-runtime-state")
      BY <1>12 DEF StoreRuntimeState, Done, RecordOf, memoryVars
  <2>2. \A t : Effect(only, t) => Effect(only, t)'
      BY <2>1 DEF Effect
  <2>3. Effect(only, "store-isolated-runtime-state")'
      BY <2>1 DEF Effect
  <2> QED BY <2>1, <2>2, <2>3, AppliedKeepsOutcome, StartPlanMembers
<1> QED BY <1>2, <1>3, <1>4, <1>5, <1>6, <1>7, <1>8, <1>9, <1>10, <1>11, <1>12 DEF StartStep

\* An apply of a stop or a cleanup leaves the run in its mode.
LEMMA StoppedStaysStopping ==
    ASSUME EngineInv, SafeInv, NEW only, Launchers = {only}, NEW s \in StopSteps \cup CleanupSteps,
           Engine!ApplyOk(only, s)
    PROVE  /\ mode[only] = "disconnect" /\ mode' = mode /\ plan' = plan /\ failed' = failed
           /\ applied'[only] = applied[only] \cup {s}
           /\ Connecting(only)' /\ Fresh(only)'
<1>1. /\ mode[only] = "disconnect" /\ mode' = mode /\ plan' = plan /\ failed' = failed
      /\ applied'[only] = applied[only] \cup {s}
    BY PlanOfStep DEF Engine!ApplyOk, EngineInv, Engine!TypeOK
<1> QED BY <1>1 DEF Connecting, Going, Fresh

\* Once the record was read without an error, what a stop works from is that.
LEMMA SeenIsKept ==
    ASSUME EngineInv, MemoryOK, SafeInv, NEW only, Launchers = {only}, OutcomeInv(only),
           NEW s \in StopSteps \ {"read-isolated-runtime-state"},
           Engine!ApplyOk(only, s), failed[only] = {}
    PROVE  /\ seen[only].file \in {"absent", "whole"} /\ Known(only) = seen[only]
           /\ Remember(only) => seen' = seen
<1>1. mode[only] = "disconnect" /\ plan[only] = StopSteps
    BY PlanOfStep, StopPlanMembers DEF Engine!ApplyOk
<1>2. "read-isolated-runtime-state" \in attempted[only]
    BY <1>1, EarlierAttempted, RecordRanks, StopPlanMembers DEF Engine!ApplyOk
<1>3. "read-isolated-runtime-state" \in applied[only]
    BY <1>2 DEF EngineInv, Engine!Bookkeeping
<1>4. seen[only].file \in {"absent", "whole"}
    BY <1>1, <1>3 DEF OutcomeInv, Ending, Going
<1>5. Known(only) = seen[only]
    BY <1>4 DEF Known
<1>6. Remember(only) => seen' = seen
    BY <1>4, <1>5 DEF Remember, MemoryOK
<1> QED BY <1>4, <1>5, <1>6

\* A dependent step of a stop.
LEMMA DependentKeepsOutcome ==
    ASSUME EngineInv, MemoryOK, SafeInv, NEW only, Launchers = {only}, OutcomeInv(only),
           NEW s \in StopSteps \ {"read-isolated-runtime-state", "clear-isolated-runtime-state"},
           Dependent(only, s),
           NothingButDNS => NothingButDNS',
           ~session.dns => ~session'.dns,
           \A p \in Pids : process[p] # "wstunnel" => process'[p] # "wstunnel",
           seen[only].file = "whole" /\ Known(only) = seen[only] /\ seen' = seen => Gone(only, s)'
    PROVE  OutcomeInv(only)'
<1>1. /\ mode[only] = "disconnect" /\ mode' = mode /\ plan' = plan /\ failed' = failed
      /\ applied'[only] = applied[only] \cup {s}
      /\ Connecting(only)' /\ Fresh(only)'
    BY StoppedStaysStopping DEF Dependent, Done
<1>2. plan[only] = StopSteps
    BY PlanOfStep DEF Dependent, Done, Engine!ApplyOk
<1>3. CASE failed[only] # {}
    BY <1>1, <1>3 DEF OutcomeInv, Ending
<1>4. CASE failed[only] = {}
  <2>1. seen' = seen /\ Known(only) = seen[only] /\ seen[only].file \in {"absent", "whole"}
      BY <1>4, SeenIsKept DEF Dependent, Done
  <2>2. \A t : Gone(only, t) => Gone(only, t)'
      BY <2>1 DEF Gone, Dependent, diskVars
  <2>3. seen'[only].file = "whole" => \A t \in applied'[only] : Gone(only, t)'
      BY <1>1, <1>2, <1>4, <2>1, <2>2 DEF OutcomeInv, Ending, Going
  <2>4. plan[only] # CleanupSteps
      BY <1>2, StopPlanMembers, CleanupPlanMembers
  <2> QED BY <1>1, <1>2, <2>1, <2>3, <2>4 DEF OutcomeInv, Ending
<1> QED BY <1>3, <1>4

LEMMA StopStepKeepsOutcome ==
    ASSUME EngineInv, HostOK, DiskOK, MemoryOK, SafeInv, NEW only, Launchers = {only},
           OutcomeInv(only), StopStep(only)
    PROVE  OutcomeInv(only)'
<1>1. ASSUME ReadRuntimeState(only) PROVE OutcomeInv(only)'
  <2>1. Engine!ApplyOk(only, "read-isolated-runtime-state")
      BY <1>1 DEF ReadRuntimeState, Done
  <2>2. /\ mode[only] = "disconnect" /\ mode' = mode /\ plan' = plan
        /\ applied'[only] = applied[only] \cup {"read-isolated-runtime-state"}
        /\ Connecting(only)' /\ Fresh(only)'
      BY <2>1, StoppedStaysStopping, StopPlanMembers
  <2>3. plan[only] = StopSteps
      BY <2>1, PlanOfStep, StopPlanMembers DEF Engine!ApplyOk
  <2>4. seen'[only] = store /\ store.file # "torn"
      BY <1>1, StopPlanMembers DEF ReadRuntimeState, Done, Works, MemoryOK
  <2>5. seen'[only].file \in {"absent", "whole"}
      BY <2>4 DEF DiskOK, StateFile
  <2>6. applied[only] = {}
    <3> SUFFICES ASSUME NEW t \in applied[only] PROVE FALSE
        OBVIOUS
    <3>1. t \in attempted[only] /\ t \in StopSteps
        BY <2>3 DEF EngineInv, Engine!Bookkeeping
    <3>2. t # "read-isolated-runtime-state" /\ "read-isolated-runtime-state" \notin attempted[only]
        BY <2>1, <3>1 DEF Engine!ApplyOk, Engine!Ready
    <3> QED BY <2>3, <3>1, <3>2, RecordRanks, StopPlanMembers DEF EngineInv, Engine!InPlanOrder
  <2>7. Gone(only, "read-isolated-runtime-state")'
      BY DEF Gone
  <2>8. plan[only] # CleanupSteps
      BY <2>3, StopPlanMembers, CleanupPlanMembers
  <2> QED BY <2>2, <2>5, <2>6, <2>7, <2>8 DEF OutcomeInv, Ending
<1>2. ASSUME StopMonitor(only) PROVE OutcomeInv(only)'
  <2>1. UNCHANGED <<session, process>>
      BY <1>2 DEF StopMonitor
  <2>2. Gone(only, "stop-isolated-monitor")'
      BY DEF Gone
  <2> QED BY <1>2, <2>1, <2>2, DependentKeepsOutcome, StopPlanMembers DEF StopMonitor, NothingButDNS
<1>3. ASSUME StopApp(only) PROVE OutcomeInv(only)'
  <2>1. UNCHANGED session
      BY <1>3 DEF StopApp
  <2>2. \A p \in Pids : process[p] # "wstunnel" => process'[p] # "wstunnel"
    <3>1. CASE UNCHANGED process
        BY <3>1
    <3>2. CASE \E others : NamespaceStopped(others)
        BY <3>2 DEF NamespaceStopped
    <3> QED BY <1>3, <3>1, <3>2 DEF StopApp
  <2>3. Gone(only, "stop-isolated-app")'
      BY DEF Gone
  <2> QED BY <1>3, <2>1, <2>2, <2>3, DependentKeepsOutcome, StopPlanMembers DEF StopApp, NothingButDNS
<1>4. ASSUME NEW s \in StopSteps \ {"read-isolated-runtime-state", "clear-isolated-runtime-state"},
             NEW new \in Session, Removes(only, s, new),
             NothingButDNS => ~new.netns /\ new.veth = "none" /\ ~new.wg /\ new.routes = "none" /\ ~new.killSwitch,
             ~session.dns => ~new.dns,
             s = "remove-namespace-dns" => ~new.dns,
             s \notin {"delete-netns", "stop-wstunnel-control"}
      PROVE  OutcomeInv(only)'
  <2>1. UNCHANGED process /\ session' = IF Skipped(only) THEN session ELSE new
      BY <1>4 DEF Removes
  <2>2. NothingButDNS => NothingButDNS'
      BY <1>4, <2>1 DEF NothingButDNS
  <2>3. seen[only].file = "whole" => Gone(only, s)'
      BY <1>4, <2>1 DEF Gone, Skipped
  <2> QED BY <1>4, <2>1, <2>2, <2>3, DependentKeepsOutcome DEF Removes
<1>5. ASSUME RemoveKillSwitch(only) PROVE OutcomeInv(only)'
  <2> DEFINE new == Flushed
  <2>1. new \in Session /\ (~session.dns => ~new.dns)
      BY DEF Flushed, HostOK, Session
  <2>2. NothingButDNS => ~new.netns /\ new.veth = "none" /\ ~new.wg /\ new.routes = "none" /\ ~new.killSwitch
      BY DEF Flushed, NothingButDNS, HostOK, Session
  <2>3. Removes(only, "remove-namespace-kill-switch", new)
      BY <1>5 DEF RemoveKillSwitch
  <2> HIDE DEF new
  <2> QED BY <1>4, <2>1, <2>2, <2>3, StopPlanMembers
<1>6. ASSUME RemoveClientRoutes(only) PROVE OutcomeInv(only)'
  <2> DEFINE new == [session EXCEPT !.routes = "none"]
  <2>1. new \in Session /\ (~session.dns => ~new.dns)
      BY DEF HostOK, Session
  <2>2. NothingButDNS => ~new.netns /\ new.veth = "none" /\ ~new.wg /\ new.routes = "none" /\ ~new.killSwitch
      BY DEF NothingButDNS, HostOK, Session
  <2>3. Removes(only, "remove-namespace-client-routes", new)
      BY <1>6 DEF RemoveClientRoutes
  <2> HIDE DEF new
  <2> QED BY <1>4, <2>1, <2>2, <2>3, StopPlanMembers
<1>7. ASSUME RemoveWireGuard(only) PROVE OutcomeInv(only)'
  <2> DEFINE new == InterfaceDeleted
  <2>1. new \in Session /\ (~session.dns => ~new.dns)
      BY DEF InterfaceDeleted, HostOK, Session
  <2>2. NothingButDNS => ~new.netns /\ new.veth = "none" /\ ~new.wg /\ new.routes = "none" /\ ~new.killSwitch
      BY DEF InterfaceDeleted, NothingButDNS, HostOK, Session
  <2>3. Removes(only, "remove-wireguard-interface-in-netns", new)
      BY <1>7 DEF RemoveWireGuard
  <2> HIDE DEF new
  <2> QED BY <1>4, <2>1, <2>2, <2>3, StopPlanMembers
<1>8. ASSUME RemoveNamespaceDNS(only) PROVE OutcomeInv(only)'
  <2> DEFINE new == [session EXCEPT !.dns = FALSE]
  <2>1. new \in Session /\ (~session.dns => ~new.dns) /\ ~new.dns
      BY DEF HostOK, Session
  <2>2. NothingButDNS => ~new.netns /\ new.veth = "none" /\ ~new.wg /\ new.routes = "none" /\ ~new.killSwitch
      BY DEF NothingButDNS, HostOK, Session
  <2>3. Removes(only, "remove-namespace-dns", new)
      BY <1>8 DEF RemoveNamespaceDNS
  <2> HIDE DEF new
  <2> QED BY <1>4, <2>1, <2>2, <2>3, StopPlanMembers
<1>9. ASSUME StopWSTunnelControl(only) PROVE OutcomeInv(only)'
  <2>1. UNCHANGED session
        /\ process' = IF Skipped(only) THEN process ELSE Stopped(Known(only).wstunnel, {"wstunnel"})
      BY <1>9 DEF StopWSTunnelControl
  <2>2. \A p \in Pids : process[p] # "wstunnel" => process'[p] # "wstunnel"
      BY <2>1 DEF Stopped
  <2>3. seen[only].file = "whole" /\ Known(only) = seen[only] /\ seen' = seen
           => Gone(only, "stop-wstunnel-control")'
      BY <2>1 DEF Gone, Skipped, Stopped
  <2> QED BY <1>9, <2>1, <2>2, <2>3, DependentKeepsOutcome, StopPlanMembers
             DEF StopWSTunnelControl, NothingButDNS
<1>10. ASSUME DeleteNetns(only) PROVE OutcomeInv(only)'
  <2>1. CASE Skipped(only)
    <3>1. UNCHANGED <<session, process>>
        BY <1>10, <2>1 DEF DeleteNetns
    <3> QED BY <1>10, <2>1, <3>1, DependentKeepsOutcome, StopPlanMembers
               DEF DeleteNetns, NothingButDNS, Skipped
  <2>2. CASE ~Skipped(only)
    <3>1. NetnsDeleted("none")
        BY <1>10, <2>2 DEF DeleteNetns
    <3>2. NothingButDNS' /\ session'.dns = session.dns
        BY <3>1 DEF NetnsDeleted, VethAfter, NothingButDNS, NoSession
    <3>3. \A p \in Pids : process[p] # "wstunnel" => process'[p] # "wstunnel"
        BY <3>1 DEF NetnsDeleted
    <3>4. Gone(only, "delete-netns")'
        BY <3>2 DEF Gone
    <3> QED BY <1>10, <3>2, <3>3, <3>4, DependentKeepsOutcome, StopPlanMembers DEF DeleteNetns
  <2> QED BY <2>1, <2>2
<1>11. ASSUME ClearRuntimeState(only) PROVE OutcomeInv(only)'
  <2>1. Engine!ApplyOk(only, "clear-isolated-runtime-state")
      BY <1>11 DEF ClearRuntimeState, Done
  <2>2. /\ mode[only] = "disconnect" /\ mode' = mode /\ plan' = plan /\ failed' = failed
        /\ applied'[only] = applied[only] \cup {"clear-isolated-runtime-state"}
        /\ Connecting(only)' /\ Fresh(only)'
      BY <2>1, StoppedStaysStopping, StopPlanMembers
  <2>3. plan[only] = StopSteps
      BY <2>1, PlanOfStep, StopPlanMembers DEF Engine!ApplyOk
  <2>4. UNCHANGED <<session, process, seen>>
      BY <1>11 DEF ClearRuntimeState, memoryVars
  <2>5. seen[only].file = "whole" => ~root' /\ store'.file = "absent"
      BY <1>11 DEF ClearRuntimeState, Skipped, Absent
  <2>6. seen[only].file = "whole" => \A t : Gone(only, t) => Gone(only, t)'
      BY <2>4, <2>5 DEF Gone, NothingButDNS
  <2>7. seen[only].file = "whole" => Gone(only, "clear-isolated-runtime-state")'
      BY <2>5 DEF Gone
  <2>8. plan[only] # CleanupSteps
      BY <2>3, StopPlanMembers, CleanupPlanMembers
  <2> QED BY <2>2, <2>3, <2>4, <2>6, <2>7, <2>8 DEF OutcomeInv, Ending, Going
<1> QED BY <1>1, <1>2, <1>3, <1>5, <1>6, <1>7, <1>8, <1>9, <1>10, <1>11 DEF StopStep

\* A step of a stop or a cleanup is applied.
LEMMA StopStepApplies ==
    ASSUME NEW l, StopStep(l)
    PROVE  \E s \in StopSteps : Engine!ApplyOk(l, s)
BY StopPlanMembers
   DEF StopStep, ReadRuntimeState, StopMonitor, StopApp, RemoveKillSwitch, RemoveClientRoutes,
       RemoveWireGuard, StopWSTunnelControl, RemoveNamespaceDNS, DeleteNetns, ClearRuntimeState,
       Removes, Dependent, Done

LEMMA CleanupStepApplies ==
    ASSUME NEW l, CleanupStep(l)
    PROVE  \E s \in CleanupSteps : Engine!ApplyOk(l, s)
BY CleanupPlanMembers
   DEF CleanupStep, CleanupProcesses, CleanupKillSwitch, CleanupWireGuard, CleanupNetns,
       CleanupDNS, CleanupRuntimeRoot, IgnoredOr, Changes, Done

\* A cleanup whose commands do not fail by themselves: what an earlier step has
\* removed stays away.
LEMMA WorkingCleanupKeepsOutcome ==
    ASSUME EngineInv, HostOK, SafeInv, NEW only, Launchers = {only}, OutcomeInv(only),
           Breaks \cap CleanupSteps = {}, CleanupStep(only)
    PROVE  OutcomeInv(only)'
<1>1. ASSUME NEW s \in CleanupSteps, Engine!ApplyOk(only, s),
             NothingButDNS => NothingButDNS', ~session.dns => ~session'.dns, ~root => ~root',
             Cleared(s)'
      PROVE  OutcomeInv(only)'
  <2>1. /\ mode[only] = "disconnect" /\ mode' = mode /\ plan' = plan /\ failed' = failed
        /\ applied'[only] = applied[only] \cup {s}
        /\ Connecting(only)' /\ Fresh(only)'
      BY <1>1, StoppedStaysStopping
  <2>2. plan[only] = CleanupSteps
      BY <1>1, PlanOfStep DEF Engine!ApplyOk
  <2>3. \A t : Cleared(t) => Cleared(t)'
      BY <1>1 DEF Cleared
  <2>4. plan[only] # StopSteps
      BY <2>2, StopPlanMembers, CleanupPlanMembers
  <2> QED BY <1>1, <2>1, <2>2, <2>3, <2>4 DEF OutcomeInv, Ending, Going
<1>2. ASSUME NEW s \in CleanupSteps, NEW change, IgnoredOr(only, s, change)
      PROVE  change /\ Engine!ApplyOk(only, s) /\ UNCHANGED root
    BY <1>2 DEF IgnoredOr, Done, diskVars
<1>3. ASSUME CleanupProcesses(only) PROVE OutcomeInv(only)'
  <2>1. UNCHANGED <<session, root>> /\ Engine!ApplyOk(only, "cleanup-isolated-processes")
      BY <1>2, <1>3, CleanupPlanMembers DEF CleanupProcesses
  <2> QED BY <1>1, <2>1, CleanupPlanMembers DEF NothingButDNS, Cleared
<1>4. ASSUME CleanupKillSwitch(only) PROVE OutcomeInv(only)'
  <2>1. session' = Flushed /\ UNCHANGED root /\ Engine!ApplyOk(only, "cleanup-namespace-kill-switch")
      BY <1>2, <1>4, CleanupPlanMembers DEF CleanupKillSwitch
  <2>2. (NothingButDNS => NothingButDNS') /\ session'.dns = session.dns
      BY <2>1 DEF Flushed, NothingButDNS, HostOK, Session
  <2> QED BY <1>1, <2>1, <2>2, CleanupPlanMembers DEF Cleared
<1>5. ASSUME CleanupWireGuard(only) PROVE OutcomeInv(only)'
  <2>1. session' = InterfaceDeleted /\ UNCHANGED root
        /\ Engine!ApplyOk(only, "cleanup-wireguard-interface-in-netns")
      BY <1>2, <1>5, CleanupPlanMembers DEF CleanupWireGuard
  <2>2. (NothingButDNS => NothingButDNS') /\ session'.dns = session.dns
      BY <2>1 DEF InterfaceDeleted, NothingButDNS, HostOK, Session
  <2> QED BY <1>1, <2>1, <2>2, CleanupPlanMembers DEF Cleared
<1>6. ASSUME CleanupNetns(only) PROVE OutcomeInv(only)'
  <2>1. "cleanup-netns" \notin Breaks
      BY CleanupPlanMembers
  <2>2. /\ UNCHANGED root /\ Engine!ApplyOk(only, "cleanup-netns")
        /\ \/ NetnsDeleted("none")
           \/ ~session.netns /\ session' = [session EXCEPT !.veth = "none"]
      BY <1>2, <1>6, <2>1, CleanupPlanMembers DEF CleanupNetns
  <2>3. NothingButDNS' /\ session'.dns = session.dns
    <3>1. CASE NetnsDeleted("none")
        BY <3>1 DEF NetnsDeleted, VethAfter, NothingButDNS, NoSession
    <3>2. CASE ~session.netns /\ session' = [session EXCEPT !.veth = "none"]
      <4>1. ~session.wg /\ ~session.killSwitch /\ session.routes = "none"
          BY <3>2 DEF HostOK
      <4> QED BY <3>2, <4>1 DEF NothingButDNS, HostOK, Session
    <3> QED BY <2>2, <3>1, <3>2
  <2> QED BY <1>1, <2>2, <2>3, CleanupPlanMembers DEF Cleared
<1>7. ASSUME CleanupDNS(only) PROVE OutcomeInv(only)'
  <2>1. session' = [session EXCEPT !.dns = FALSE] /\ UNCHANGED root
        /\ Engine!ApplyOk(only, "cleanup-namespace-dns")
      BY <1>7 DEF CleanupDNS, Changes, Done, diskVars
  <2>2. (NothingButDNS => NothingButDNS') /\ ~session'.dns
      BY <2>1 DEF NothingButDNS, HostOK, Session
  <2> QED BY <1>1, <2>1, <2>2, CleanupPlanMembers DEF Cleared
<1>8. ASSUME CleanupRuntimeRoot(only) PROVE OutcomeInv(only)'
  <2>1. UNCHANGED session /\ ~root' /\ Engine!ApplyOk(only, "cleanup-isolated-runtime-root")
      BY <1>8 DEF CleanupRuntimeRoot, Done
  <2> QED BY <1>1, <2>1, CleanupPlanMembers DEF NothingButDNS, Cleared
<1> QED BY <1>3, <1>4, <1>5, <1>6, <1>7, <1>8 DEF CleanupStep

LEMMA CleanupStepKeepsOutcome ==
    ASSUME EngineInv, HostOK, SafeInv, NEW only, Launchers = {only}, OutcomeInv(only), CleanupStep(only)
    PROVE  OutcomeInv(only)'
<1>1. CASE Breaks \cap CleanupSteps = {}
    BY <1>1, WorkingCleanupKeepsOutcome
<1>2. CASE Breaks \cap CleanupSteps # {}
  <2>1. PICK s \in CleanupSteps : Engine!ApplyOk(only, s)
      BY CleanupStepApplies
  <2>2. plan[only] # StopSteps /\ plan' = plan /\ Connecting(only)' /\ Fresh(only)'
      BY <2>1, PlanOfStep, StoppedStaysStopping, StopPlanMembers, CleanupPlanMembers DEF Engine!ApplyOk
  <2> QED BY <1>2, <2>2 DEF OutcomeInv, Ending
<1> QED BY <1>1, <1>2

\* A step that fails ends what its run could claim.
LEMMA FailureKeepsOutcome ==
    ASSUME EngineInv, SafeInv, NEW only, Launchers = {only}, OutcomeInv(only),
           NEW s \in plan[only], StepFails(only, s)
    PROVE  OutcomeInv(only)'
<1>1. Engine!Ready(only, s)
    BY DEF StepFails, Engine!ApplyFail
<1>2. /\ attempted'[only] = attempted[only] \cup {s} /\ failed'[only] # {}
      /\ plan' = plan /\ applied' = applied
      /\ mode'[only] = IF mode[only] = "connect" THEN "rollback" ELSE mode[only]
    BY DEF StepFails, Engine!ApplyFail, Engine!ModeAfterError, EngineInv, Engine!TypeOK
<1>3. mode[only] \in {"connect", "disconnect"} /\ mode'[only] \in {"rollback", "disconnect"}
    BY <1>1, <1>2 DEF Engine!Ready
<1>4. Connecting(only)' /\ Ending(only)'
    BY <1>2, <1>3 DEF Connecting, Ending, Going
<1>5. Fresh(only)'
  <2> SUFFICES ASSUME mode[only] = "connect" PROVE Fresh(only)'
      BY <1>2, <1>3 DEF Fresh
  <2>1. plan[only] = StartSteps /\ attempted[only] = applied[only]
      BY AttemptedIsApplied DEF SafeInv, StartInv
  <2>2. \/ attempted'[only] \subseteq {"validate-linux-prerequisites", "create-isolated-runtime-root"}
        \/ "create-isolated-runtime-root" \in applied'[only]
    <3>1. CASE s \in {"validate-linux-prerequisites", "create-isolated-runtime-root"}
        BY <1>2, <3>1 DEF OutcomeInv, Fresh
    <3>2. CASE s \notin {"validate-linux-prerequisites", "create-isolated-runtime-root"}
        BY <1>1, <1>2, <2>1, <3>2, EarlierAttempted, RecordRanks, StartPlanMembers
    <3> QED BY <3>1, <3>2
  <2>3. s # "store-isolated-runtime-state" => store' = store
    <3>1. s \in StartSteps
        BY <2>1
    <3>2. s \notin {"stop-isolated-app", "remove-namespace-client-routes", "delete-netns",
                    "clear-isolated-runtime-state", "cleanup-isolated-processes", "cleanup-netns",
                    "cleanup-isolated-runtime-root"}
        BY <3>1, StartPlanMembers
    <3> QED BY <3>2 DEF StepFails, Interrupted, diskVars
  <2>4. "create-isolated-runtime-root" \in applied'[only]
           /\ "store-isolated-runtime-state" \notin attempted'[only] => store'.file = "absent"
      BY <1>2, <2>3 DEF OutcomeInv, Fresh
  <2> QED BY <2>2, <2>4 DEF Fresh
<1> QED BY <1>4, <1>5 DEF OutcomeInv

LEMMA UndoKeepsOutcome ==
    ASSUME EngineInv, NEW only, Launchers = {only}, OutcomeInv(only), UndoStep(only)
    PROVE  OutcomeInv(only)'
<1>1. ASSUME NEW s, Engine!UndoOk(only, s) \/ Engine!UndoFail(only, s), store' \in {store, Absent}
      PROVE  OutcomeInv(only)'
  <2>1. mode[only] = "rollback" /\ UNCHANGED <<mode, attempted, applied>>
      BY <1>1 DEF Engine!UndoOk, Engine!UndoFail, Engine!ReadyToUndo
  <2> QED BY <1>1, <2>1 DEF OutcomeInv, Connecting, Ending, Going, Fresh, Absent
<1>2. \E s : (Engine!UndoOk(only, s) \/ Engine!UndoFail(only, s)) /\ store' \in {store, Absent}
  <2>1. CASE UndoNothing(only)
      BY <2>1 DEF UndoNothing, diskVars
  <2>2. CASE UndoRuntimeRoot(only)
      BY <2>2 DEF UndoRuntimeRoot, RootPartlyRemoved
  <2>3. CASE UndoNetns(only)
      BY <2>3 DEF UndoNetns, diskVars
  <2>4. ASSUME NEW s \in applied[only], UndoVeth(only, s) \/ UndoWireGuard(only, s)
        PROVE  (Engine!UndoOk(only, s) \/ Engine!UndoFail(only, s)) /\ store' \in {store, Absent}
      BY <2>4 DEF UndoVeth, UndoWireGuard, Undoes, diskVars
  <2>5. CASE UndoDNS(only)
      BY <2>5 DEF UndoDNS, Undoes, diskVars
  <2>6. CASE UndoClientRoutes(only)
      BY <2>6 DEF UndoClientRoutes, diskVars
  <2>7. CASE UndoKillSwitch(only)
      BY <2>7 DEF UndoKillSwitch, Undoes, diskVars
  <2>8. CASE UndoWSTunnel(only)
      BY <2>8 DEF UndoWSTunnel, UndoProcess, diskVars
  <2>9. CASE UndoLaunch(only)
      BY <2>9 DEF UndoLaunch, UndoProcess, diskVars
  <2> QED BY <2>1, <2>2, <2>3, <2>4, <2>5, <2>6, <2>7, <2>8, <2>9 DEF UndoStep
<1> QED BY <1>1, <1>2

\* What happens beside the runs brings nothing back, and takes nothing that a
\* namespace with its name holds.
LEMMA EnvironmentKeepsOutcome ==
    ASSUME HostOK, MemoryOK, NEW only, Launchers = {only}, OutcomeInv(only), Environment
    PROVE  OutcomeInv(only)'
<1>1. /\ UNCHANGED <<engineVars, diskVars, memoryVars>>
      /\ session'.dns = session.dns /\ session'.netns = session.netns /\ session'.wg = session.wg
      /\ session'.routes = session.routes /\ session'.killSwitch = session.killSwitch
      /\ session.netns => session'.veth = session.veth
      /\ session' \in Session
      /\ session.veth = "none" => session'.veth = "none"
    BY DEF Environment, AppExecs, AppForks, Exits, VethAfter, HostOK, Session
<1>2. \A p \in Pids : process[p] # "wstunnel" => process'[p] # "wstunnel"
    BY DEF Environment, AppExecs, AppForks, Exits, HostOK
<1>3. NothingButDNS => NothingButDNS'
    BY <1>1 DEF NothingButDNS
<1>4. \A s : Effect(only, s) => Effect(only, s)'
    BY <1>1 DEF Effect, diskVars, memoryVars
<1>5. \A s : Gone(only, s) => Gone(only, s)'
    BY <1>1, <1>2, <1>3 DEF Gone, diskVars, memoryVars
<1>6. \A s : Cleared(s) => Cleared(s)'
    BY <1>1, <1>3 DEF Cleared, diskVars
<1> QED BY <1>1, <1>4, <1>5, <1>6
           DEF OutcomeInv, Connecting, Ending, Going, Fresh, engineVars, diskVars, memoryVars

LEMMA OutcomeStep ==
    ASSUME EngineInv, HostOK, DiskOK, MemoryOK, SafeInv, NEW only, Launchers = {only},
           OutcomeInv(only), [Next]_vars
    PROVE  OutcomeInv(only)'
<1>1. ASSUME NEW kind, NEW steps, Begins(only, kind, steps), kind = "connect" => steps = StartSteps
      PROVE  OutcomeInv(only)'
  <2>1. /\ mode'[only] = kind /\ kind \in {"connect", "disconnect"} /\ plan'[only] = steps
        /\ attempted'[only] = {} /\ applied'[only] = {}
      BY <1>1 DEF Begins, Engine!Begin, EngineInv, Engine!TypeOK
  <2> QED BY <1>1, <2>1 DEF OutcomeInv, Connecting, Ending, Going, Fresh
<1>2. ASSUME StartIsolatedApp(only) \/ StopIsolatedApp(only) \/ CleanupIsolatedApp(only)
      PROVE  OutcomeInv(only)'
    BY <1>1, <1>2 DEF StartIsolatedApp, StopIsolatedApp, CleanupIsolatedApp
<1>3. ASSUME Return(only) PROVE OutcomeInv(only)'
  <2>1. /\ mode'[only] = "off" /\ outcome'[only] = Engine!Verdict(only)
        /\ UNCHANGED <<plan, attempted, applied, failed, session, process, diskVars, handle, seen>>
        /\ mode[only] \in {"connect", "rollback", "disconnect"}
      BY <1>3 DEF Return, Finishes, Engine!Return, Engine!Exhausted, EngineInv, Engine!TypeOK
  <2>2. /\ outcome'[only] = "Connected" => mode[only] = "connect"
        /\ outcome'[only] = "Idle" => mode[only] = "disconnect" /\ failed[only] = {}
      BY <2>1 DEF Engine!Verdict
  <2>3. \A t : Effect(only, t)' = Effect(only, t)
      BY <2>1 DEF Effect, diskVars
  <2>4. \A t : Gone(only, t)' = Gone(only, t)
      BY <2>1 DEF Gone, NothingButDNS, diskVars
  <2>5. \A t : Cleared(t)' = Cleared(t)
      BY <2>1 DEF Cleared, NothingButDNS, diskVars
  <2> QED BY <2>1, <2>2, <2>3, <2>4, <2>5 DEF OutcomeInv, Connecting, Ending, Going, Fresh
<1>4. ASSUME Kill(only) PROVE OutcomeInv(only)'
  <2>1. mode'[only] = "off" /\ outcome'[only] = "Killed"
      BY <1>4 DEF Kill, Engine!Kill, EngineInv, Engine!TypeOK
  <2> QED BY <2>1 DEF OutcomeInv, Connecting, Ending, Going, Fresh
<1>5. CASE UNCHANGED vars
    BY <1>5 DEF vars, engineVars, diskVars, memoryVars, OutcomeInv, Connecting, Ending, Going, Fresh,
                Effect, Gone, Cleared, NothingButDNS
<1> QED
    BY <1>2, <1>3, <1>4, <1>5, StartStepKeepsOutcome, StopStepKeepsOutcome, CleanupStepKeepsOutcome,
       FailureKeepsOutcome, UndoKeepsOutcome, EnvironmentKeepsOutcome DEF Next, Step

LEMMA OutcomeInvHolds ==
    ASSUME NEW only, Launchers = {only}
    PROVE  Spec => []OutcomeInv(only)
<1>1. Init => OutcomeInv(only)
    BY DEF Init, Engine!Init, OutcomeInv, Connecting, Ending, Going, Fresh
<1>2. EngineInv /\ TypeOK /\ SafeInv /\ OutcomeInv(only) /\ [Next]_vars => OutcomeInv(only)'
    BY OutcomeStep, TypeOKParts
<1> QED BY <1>1, <1>2, EngineInvHolds, TypeCorrect, SafeInvHolds, PTL DEF Spec

-------------------------------------------------------------------------------
\* What follows from it

\* A start that returned Connected left the whole session up and recorded, for
\* any number of processes and whatever failed or was killed before it.
THEOREM ConnectedMeansIsolatedHolds ==
    ASSUME NEW only, Launchers = {only}
    PROVE  Spec => []ConnectedMeansIsolated
<1>1. ASSUME EngineInv, TypeOK, OutcomeInv(only), mode[only] = "off", outcome[only] = "Connected"
      PROVE  /\ store.file = "whole" /\ root
             /\ store.wstunnel = handle[only].wstunnel /\ store.wstunnel # NoPid
             /\ session = [netns |-> TRUE, veth |-> "moved", dns |-> TRUE, wg |-> TRUE,
                           routes |-> "all", killSwitch |-> TRUE]
  <2>1. plan[only] = StartSteps /\ applied[only] = StartSteps
      BY <1>1 DEF OutcomeInv, Connecting, Going, EngineInv, Engine!VerdictIsHonest
  <2>2. \A s \in StartSteps : Effect(only, s)
      BY <1>1, <2>1 DEF OutcomeInv, Connecting, Going
  <2>3. /\ store.file = "whole" /\ root /\ store.wstunnel = handle[only].wstunnel
        /\ handle[only].wstunnel \in Pids
      BY <2>2, StartPlanMembers DEF Effect
  <2>4. /\ session.netns /\ session.veth = "moved" /\ session.dns /\ session.wg
        /\ session.routes = "all" /\ session.killSwitch
      BY <2>2, StartPlanMembers DEF Effect
  <2>5. session = [netns |-> TRUE, veth |-> "moved", dns |-> TRUE, wg |-> TRUE,
                   routes |-> "all", killSwitch |-> TRUE]
      BY <1>1, <2>4 DEF TypeOK, Session
  <2> QED BY <2>3, <2>5, SessionAssumption
<1>2. EngineInv /\ TypeOK /\ OutcomeInv(only) => ConnectedMeansIsolated
    BY <1>1 DEF ConnectedMeansIsolated, AllOff
<1> QED BY <1>2, EngineInvHolds, TypeCorrect, OutcomeInvHolds, PTL

\* A stop that read the record and returned Idle left no name, no record and not
\* the recorded wstunnel, for any number of processes and whatever was before it.
THEOREM IdleMeansSessionGoneHolds ==
    ASSUME NEW only, Launchers = {only}
    PROVE  Spec => []IdleMeansSessionGone
<1>1. ASSUME EngineInv, TypeOK, OutcomeInv(only), mode[only] = "off", outcome[only] = "Idle",
             plan[only] = StopSteps, seen[only].file = "whole"
      PROVE  /\ ClearOfNames
             /\ store.file = "absent"
             /\ seen[only].wstunnel \in Pids => process[seen[only].wstunnel] # "wstunnel"
  <2>1. failed[only] = {} /\ applied[only] = StopSteps
      BY <1>1 DEF EngineInv, Engine!VerdictIsHonest
  <2>2. \A s \in StopSteps : Gone(only, s)
      BY <1>1, <2>1 DEF OutcomeInv, Ending, Going
  <2>3. /\ ~session.dns /\ NothingButDNS /\ ~root /\ store.file = "absent"
        /\ seen[only].wstunnel \in Pids => process[seen[only].wstunnel] # "wstunnel"
      BY <2>2, StopPlanMembers DEF Gone
  <2>4. session = NoSession
      BY <1>1, <2>3 DEF NothingButDNS, NoSession, TypeOK, Session
  <2> QED BY <2>3, <2>4 DEF ClearOfNames
<1>2. EngineInv /\ TypeOK /\ OutcomeInv(only) => IdleMeansSessionGone
    BY <1>1 DEF IdleMeansSessionGone, AllOff
<1> QED BY <1>2, EngineInvHolds, TypeCorrect, OutcomeInvHolds, PTL

\* A cleanup whose commands do not fail by themselves, and that returned Idle,
\* removed every name and the runtime root, with no record to go by.
THEOREM CleanupMeansClearOfNamesHolds ==
    ASSUME NEW only, Launchers = {only}, Breaks \cap CleanupSteps = {}
    PROVE  Spec => []CleanupMeansClearOfNames
<1>1. ASSUME EngineInv, TypeOK, OutcomeInv(only), mode[only] = "off", outcome[only] = "Idle",
             plan[only] = CleanupSteps
      PROVE  ClearOfNames
  <2>1. failed[only] = {} /\ applied[only] = CleanupSteps
      BY <1>1 DEF EngineInv, Engine!VerdictIsHonest
  <2>2. \A s \in CleanupSteps : Cleared(s)
      BY <1>1, <2>1 DEF OutcomeInv, Ending, Going
  <2>3. ~session.dns /\ NothingButDNS /\ ~root
      BY <2>2, CleanupPlanMembers DEF Cleared
  <2>4. session = NoSession
      BY <1>1, <2>3 DEF NothingButDNS, NoSession, TypeOK, Session
  <2> QED BY <2>3, <2>4 DEF ClearOfNames
<1>2. EngineInv /\ TypeOK /\ OutcomeInv(only) => CleanupMeansClearOfNames
    BY <1>1 DEF CleanupMeansClearOfNames, AllOff
<1> QED BY <1>2, EngineInvHolds, TypeCorrect, OutcomeInvHolds, PTL

\* A start that finds a record gets no further than its second step.
LEMMA RecordStopsStart ==
    ASSUME EngineInv, NEW only, OutcomeInv(only), mode[only] \in {"connect", "rollback"},
           only \in Launchers, SafeInv, store.file = "whole",
           "store-isolated-runtime-state" \notin attempted[only]
    PROVE  /\ plan[only] = StartSteps /\ "create-isolated-runtime-root" \notin applied[only]
           /\ attempted[only] \subseteq {"validate-linux-prerequisites", "create-isolated-runtime-root"}
           /\ applied[only] \subseteq {"validate-linux-prerequisites"}
           /\ \A s : Engine!Ready(only, s) =>
                 s \in {"validate-linux-prerequisites", "create-isolated-runtime-root"}
           /\ \A s : ~Engine!ReadyToUndo(only, s)
<1>1. plan[only] = StartSteps
    BY DEF SafeInv, StartInv
<1>2. /\ "create-isolated-runtime-root" \notin applied[only]
      /\ attempted[only] \subseteq {"validate-linux-prerequisites", "create-isolated-runtime-root"}
    BY DEF OutcomeInv, Fresh
<1>3. applied[only] \subseteq {"validate-linux-prerequisites"}
    BY <1>2 DEF EngineInv, Engine!Bookkeeping
<1>4. ASSUME NEW s, Engine!Ready(only, s),
             s \notin {"validate-linux-prerequisites", "create-isolated-runtime-root"}
      PROVE  FALSE
  <2>1. mode[only] = "connect" /\ s \in StartSteps
      BY <1>1, <1>4 DEF Engine!Ready
  <2>2. "create-isolated-runtime-root" \in attempted[only]
      BY <1>1, <1>4, <2>1, EarlierAttempted, RecordRanks, StartPlanMembers
  <2> QED BY <1>2, <2>1, <2>2, AttemptedIsApplied
<1>5. \A s : ~Engine!ReadyToUndo(only, s)
    BY <1>3 DEF Engine!ReadyToUndo, Engine!ToUndo, Undoable
<1> QED BY <1>1, <1>2, <1>3, <1>4, <1>5

\* One step of it, whatever it is.
LEMMA SparingStep ==
    ASSUME EngineInv, SafeInv, NEW only, Launchers = {only}, OutcomeInv(only), [Next]_vars,
           mode[only] \in {"connect", "rollback"}, engineVars' # engineVars, store.file = "whole",
           "store-isolated-runtime-state" \notin attempted'[only]
    PROVE  UNCHANGED <<session, process, store>>
<1> DEFINE first == {"validate-linux-prerequisites", "create-isolated-runtime-root"}
<1>1. attempted[only] \subseteq attempted'[only]
  <2>1. [Engine!Next]_engineVars
      BY StepOfEngine DEF EngineInv
  <2> QED BY <2>1 DEF Engine!Next, Engine!Begin, Engine!Skip, Engine!ApplyOk, Engine!ApplyFail,
             Engine!UndoOk, Engine!UndoFail, Engine!Return, Engine!Kill, engineVars, EngineInv, Engine!TypeOK
<1>2. /\ plan[only] = StartSteps
      /\ \A s : Engine!Ready(only, s) => s \in first
      /\ \A s : ~Engine!ReadyToUndo(only, s)
    BY <1>1, RecordStopsStart
<1>3. ASSUME NEW s, Engine!ApplyOk(only, s) PROVE s \in first
    BY <1>2, <1>3 DEF Engine!ApplyOk
<1>4. CASE StartStep(only)
  <2>1. CASE OnlyConfigures(only)
      BY <2>1 DEF OnlyConfigures, Changes, diskVars
  <2>2. CASE CreateRuntimeRoot(only)
      BY <2>2 DEF CreateRuntimeRoot
  <2>3. ASSUME NEW s, NEW new, Changes(only, s, new), s \notin first PROVE FALSE
      BY <1>3, <2>3 DEF Changes, Done
  <2>4. ASSUME NEW p \in Pids, StartWSTunnelControl(only, p) \/ LaunchApp(only, p) PROVE FALSE
      BY <1>3, <2>4 DEF StartWSTunnelControl, LaunchApp, Done
  <2>5. CASE StoreRuntimeState(only)
      BY <1>3, <2>5 DEF StoreRuntimeState, Done
  <2> HIDE DEF first
  <2>6. ~(CreateNetns(only) \/ CreateVethPair(only) \/ ConfigureNamespaceDNS(only)
            \/ CreateWireGuard(only) \/ ApplyClientRoutes(only) \/ ApplyKillSwitch(only))
      BY <2>3 DEF first, CreateNetns, CreateVethPair, ConfigureNamespaceDNS, CreateWireGuard,
                  ApplyClientRoutes, ApplyKillSwitch
  <2> QED BY <1>4, <2>1, <2>2, <2>4, <2>5, <2>6 DEF StartStep
<1>5. ASSUME StopStep(only) PROVE FALSE
    BY <1>3, <1>5, StopStepApplies, StopPlanMembers
<1>6. ASSUME CleanupStep(only) PROVE FALSE
    BY <1>3, <1>6, CleanupStepApplies, CleanupPlanMembers
<1>7. ASSUME UndoStep(only) PROVE FALSE
  <2>1. \E s : Engine!UndoOk(only, s) \/ Engine!UndoFail(only, s)
      BY <1>7 DEF UndoStep, UndoNothing, UndoRuntimeRoot, UndoNetns, UndoVeth, UndoWireGuard, UndoDNS,
                  UndoClientRoutes, UndoKillSwitch, UndoWSTunnel, UndoLaunch, Undoes, UndoProcess
  <2> QED BY <1>2, <2>1 DEF Engine!UndoOk, Engine!UndoFail
<1>8. ASSUME NEW s \in first, Interrupted(only, s) PROVE UNCHANGED <<session, process, store>>
    BY <1>8 DEF Interrupted, diskVars
<1>9. ASSUME NEW s \in plan[only], StepFails(only, s) PROVE UNCHANGED <<session, process, store>>
    BY <1>2, <1>8, <1>9 DEF StepFails, Engine!ApplyFail
<1>10. ASSUME Return(only) PROVE UNCHANGED <<session, process, store>>
    BY <1>10 DEF Return, Finishes, diskVars
<1>11. ASSUME Kill(only) PROVE UNCHANGED <<session, process, store>>
    BY <1>2, <1>8, <1>11 DEF Kill, DiesInside, UndoInterrupted, Engine!ReadyToUndo, diskVars
<1>12. ASSUME StartIsolatedApp(only) \/ StopIsolatedApp(only) \/ CleanupIsolatedApp(only) PROVE FALSE
    BY <1>12 DEF StartIsolatedApp, StopIsolatedApp, CleanupIsolatedApp, Begins, Engine!Begin
<1>13. ASSUME Environment PROVE FALSE
    BY <1>13 DEF Environment, AppExecs, AppForks, Exits
<1> QED BY <1>4, <1>5, <1>6, <1>7, <1>9, <1>10, <1>11, <1>12, <1>13 DEF Next, Step, vars

\* A start of a session that is on record is refused before it changes anything,
\* and its rollback does not touch what the earlier start built.
THEOREM StartSparesSessionHolds ==
    ASSUME NEW only, Launchers = {only}
    PROVE  Spec => StartSparesSession
<1>1. EngineInv /\ SafeInv /\ OutcomeInv(only) /\ [Next]_vars =>
        [\A l \in Launchers :
            mode[l] \in {"connect", "rollback"} /\ engineVars' # engineVars
              /\ store.file = "whole" /\ "store-isolated-runtime-state" \notin attempted'[l]
              => UNCHANGED <<session, process, store>>]_vars
    BY SparingStep
<1> QED BY <1>1, EngineInvHolds, SafeInvHolds, OutcomeInvHolds, PTL DEF Spec, StartSparesSession

-------------------------------------------------------------------------------
\* What a run of nothing undisclosed leaves

NoWSTunnelBut(p) == \A q \in Pids : process[q] = "wstunnel" => q = p

\* What is there while no run goes on is on record, or is nothing, or is the
\* host end of a veth pair.
Recorded == store.file = "whole" /\ NoWSTunnelBut(store.wstunnel)
Settled == Recorded \/ Clear \/ ClearButHostVeth

\* What a start may have made before it configures the host end of the veth
\* pair, and not undone.
Bare(l) ==
    /\ applied[l] \subseteq {"validate-linux-prerequisites", "create-isolated-runtime-root",
                            "create-netns", "create-veth-pair"}
    /\ ~session.dns /\ ~session.wg /\ session.routes = "none" /\ ~session.killSwitch
    /\ NoWSTunnel
    /\ session.netns => "create-netns" \in applied[l] \ undone[l]
    /\ session.veth = "moved" => "create-veth-pair" \in applied[l] \ undone[l]
    /\ root => "create-isolated-runtime-root" \in applied[l] \ undone[l]

\* The host end of the veth pair is deleted twice by a rollback that has
\* configured it, and the second time fails: such a rollback is never clean.
StartAccounted(l) ==
    IF "create-isolated-runtime-root" \notin applied[l] THEN Settled
    ELSE /\ "configure-host-veth" \notin applied[l] => Bare(l)
         /\ "configure-host-veth" \in applied[l] => "create-veth-pair" \in applied[l]
         /\ "configure-host-veth" \in undone[l] =>
               session.veth = "none" /\ "create-veth-pair" \notin undone[l]
         /\ mode[l] = "connect" =>
               /\ NoWSTunnelBut(handle[l].wstunnel)
               /\ "start-wstunnel-control" \notin applied[l] => NoWSTunnel

StopAccounted(l) ==
    IF "read-isolated-runtime-state" \notin applied[l] \/ seen[l].file = "absent" THEN Settled
    ELSE NoWSTunnelBut(seen[l].wstunnel)

\* Nothing is there that the run in progress, or else the record, does not
\* account for, unless it was disclosed.
Accounted(l) ==
    ~disclosed =>
        /\ mode[l] = "off" => Settled
        /\ mode[l] = "connect" \/ (mode[l] = "rollback" /\ stuck[l] = {}) => StartAccounted(l)
        /\ mode[l] = "disconnect" /\ plan[l] = StopSteps /\ failed[l] = {} => StopAccounted(l)

-------------------------------------------------------------------------------
\* The order of the steps a start makes names with

\* What comes after the host end of the veth pair finds it configured.
LEMMA HostEndFirst ==
    ASSUME EngineInv, SafeInv, NEW l \in Launchers, NEW s \in StartSteps, Engine!Ready(l, s),
           s \notin {"validate-linux-prerequisites", "create-isolated-runtime-root",
                     "create-netns", "create-veth-pair", "configure-host-veth"}
    PROVE  "configure-host-veth" \in applied[l]
<1>1. mode[l] = "connect" /\ plan[l] = StartSteps
    BY PlanOfStep
<1> QED BY <1>1, AccountRanks, EarlierAttempted, AttemptedIsApplied, StartPlanMembers

\* So does the host end find the pair.
LEMMA PairFirst ==
    ASSUME EngineInv, SafeInv, NEW l \in Launchers, Engine!Ready(l, "configure-host-veth")
    PROVE  "create-veth-pair" \in applied[l] /\ "create-isolated-runtime-root" \in applied[l]
<1>1. mode[l] = "connect" /\ plan[l] = StartSteps
    BY PlanOfStep, StartPlanMembers
<1> QED BY <1>1, AccountRanks, RecordRanks, EarlierAttempted, AttemptedIsApplied, StartPlanMembers

\* Beyond the root, the root was made.
LEMMA RootFirst ==
    ASSUME EngineInv, SafeInv, NEW l \in Launchers, NEW s \in StartSteps, Engine!Ready(l, s),
           s \notin {"validate-linux-prerequisites", "create-isolated-runtime-root"}
    PROVE  "create-isolated-runtime-root" \in applied[l]
<1>1. mode[l] = "connect" /\ plan[l] = StartSteps
    BY PlanOfStep
<1> QED BY <1>1, RecordRanks, EarlierAttempted, AttemptedIsApplied, StartPlanMembers

-------------------------------------------------------------------------------
\* The steps of a start

\* Without a record, what is settled is nothing, or the host end of a pair.
LEMMA SettledWithoutRecord ==
    ASSUME HostOK, Settled, store.file = "absent"
    PROVE  /\ ~session.netns /\ session.veth # "moved" /\ ~session.dns /\ ~session.wg
           /\ session.routes = "none" /\ ~session.killSwitch /\ NoWSTunnel
BY DEF HostOK, Session, Settled, Recorded, Clear, ClearOfNames, ClearButHostVeth, NoSession

LEMMA AppliedIsAccounted ==
    ASSUME EngineInv, HostOK, SafeInv, NEW only, Launchers = {only}, Accounted(only),
           NEW s \in StartSteps, Engine!ApplyOk(only, s), disclosed' = disclosed,
           s = "validate-linux-prerequisites" => UNCHANGED <<session, process, root, store>>,
           s = "create-isolated-runtime-root" =>
               store.file = "absent" /\ UNCHANGED <<session, process>>,
           s = "create-netns" =>
               session' = [session EXCEPT !.netns = TRUE] /\ UNCHANGED <<process, root>>,
           s = "create-veth-pair" =>
               session' = [session EXCEPT !.veth = "moved"] /\ UNCHANGED <<process, root>>,
           s # "start-wstunnel-control" =>
               /\ handle'[only].wstunnel = handle[only].wstunnel
               /\ \A p \in Pids : process'[p] = "wstunnel" => process[p] = "wstunnel",
           s = "start-wstunnel-control" =>
               \A p \in Pids : process'[p] = "wstunnel" =>
                   process[p] = "wstunnel" \/ p = handle'[only].wstunnel
    PROVE  Accounted(only)'
<1> SUFFICES ASSUME ~disclosed PROVE Accounted(only)'
    BY DEF Accounted
<1>1. Engine!Ready(only, s)
    BY DEF Engine!ApplyOk
<1>2. mode[only] = "connect" /\ plan[only] = StartSteps
    BY <1>1, PlanOfStep
<1>3. attempted[only] = applied[only] /\ undone[only] = {}
    BY <1>2, AttemptedIsApplied
<1>4. /\ mode'[only] = "connect" /\ plan' = plan /\ undone'[only] = {}
      /\ applied'[only] = applied[only] \cup {s} /\ s \notin applied[only]
    BY <1>1, <1>2, <1>3 DEF Engine!ApplyOk, Engine!Ready, EngineInv, Engine!TypeOK
<1>5. StartAccounted(only)
    BY <1>2 DEF Accounted
<1> SUFFICES StartAccounted(only)'
    BY <1>4 DEF Accounted
<1>6. CASE "create-isolated-runtime-root" \notin applied'[only]
  <2>1. s = "validate-linux-prerequisites" /\ Settled
      BY <1>1, <1>4, <1>5, <1>6, RootFirst DEF StartAccounted
  <2>2. Settled'
      BY <2>1 DEF Settled, Recorded, NoWSTunnelBut, Clear, ClearOfNames, ClearButHostVeth, NoWSTunnel
  <2> QED BY <1>6, <2>2 DEF StartAccounted
<1>7. CASE s = "create-isolated-runtime-root"
  <2>1. Settled
      BY <1>4, <1>5, <1>7 DEF StartAccounted
  <2>2. applied'[only] \subseteq {"validate-linux-prerequisites", "create-isolated-runtime-root"}
    <3>1. s \notin attempted[only] /\ s \in plan[only] /\ attempted[only] \subseteq plan[only]
        BY <1>1 DEF Engine!Ready, EngineInv, Engine!Bookkeeping
    <3> QED BY <1>2, <1>3, <1>4, <1>7, <3>1, RecordRanks DEF EngineInv, Engine!InPlanOrder
  <2>3. Bare(only)'
      BY <1>4, <1>7, <2>1, <2>2, SettledWithoutRecord DEF Bare, NoWSTunnel
  <2>4. NoWSTunnel' /\ NoWSTunnelBut(handle[only].wstunnel)'
      BY <2>3 DEF Bare, NoWSTunnel, NoWSTunnelBut
  <2> QED BY <1>4, <1>7, <2>2, <2>3, <2>4 DEF StartAccounted
<1>8. CASE "create-isolated-runtime-root" \in applied'[only] /\ s # "create-isolated-runtime-root"
  <2>1. "create-isolated-runtime-root" \in applied[only]
      BY <1>4, <1>8
  <2>2. /\ NoWSTunnelBut(handle[only].wstunnel)
        /\ "start-wstunnel-control" \notin applied[only] => NoWSTunnel
      BY <1>2, <1>5, <2>1 DEF StartAccounted
  <2>3. NoWSTunnelBut(handle[only].wstunnel)'
    <3>1. CASE s = "start-wstunnel-control"
        BY <1>4, <2>2, <3>1 DEF NoWSTunnel, NoWSTunnelBut
    <3>2. CASE s # "start-wstunnel-control"
        BY <2>2, <3>2 DEF NoWSTunnelBut
    <3> QED BY <3>1, <3>2
  <2>4. "start-wstunnel-control" \notin applied'[only] => NoWSTunnel'
      BY <1>4, <2>2 DEF NoWSTunnel
  <2>5. "configure-host-veth" \in applied'[only] => "create-veth-pair" \in applied'[only]
    <3>1. CASE s = "configure-host-veth"
        BY <1>1, <1>4, <3>1, PairFirst
    <3>2. CASE s # "configure-host-veth"
        BY <1>4, <1>5, <2>1, <3>2 DEF StartAccounted
    <3> QED BY <3>1, <3>2
  <2>6. "configure-host-veth" \notin applied'[only] => Bare(only)'
    <3> SUFFICES ASSUME "configure-host-veth" \notin applied'[only] PROVE Bare(only)'
        OBVIOUS
    <3>1. s \in {"validate-linux-prerequisites", "create-netns", "create-veth-pair"}
        BY <1>1, <1>4, <1>8, HostEndFirst, StartPlanMembers
    <3>2. Bare(only)
        BY <1>4, <1>5, <2>1 DEF StartAccounted
    <3>3. NoWSTunnel'
        BY <3>1, <3>2 DEF Bare, NoWSTunnel
    <3>4. CASE s = "create-netns"
        BY <1>3, <1>4, <3>2, <3>3, <3>4 DEF Bare, HostOK, Session
    <3>5. CASE s = "create-veth-pair"
        BY <1>3, <1>4, <3>2, <3>3, <3>5 DEF Bare, HostOK, Session
    <3>6. CASE s = "validate-linux-prerequisites"
        BY <1>3, <1>4, <3>2, <3>3, <3>6 DEF Bare
    <3> QED BY <3>1, <3>4, <3>5, <3>6
  <2> QED BY <1>4, <2>1, <2>3, <2>4, <2>5, <2>6 DEF StartAccounted
<1> QED BY <1>6, <1>7, <1>8

LEMMA StartStepIsAccounted ==
    ASSUME EngineInv, HostOK, MemoryOK, SafeInv, NEW only, Launchers = {only}, Accounted(only),
           StartStep(only)
    PROVE  Accounted(only)'
<1>1. ASSUME NEW s \in StartSteps, NEW new \in Session, Changes(only, s, new),
             s \in {"validate-linux-prerequisites"} => new = session,
             s \notin {"create-isolated-runtime-root", "start-wstunnel-control"},
             s = "create-netns" => new = [session EXCEPT !.netns = TRUE],
             s = "create-veth-pair" => new = [session EXCEPT !.veth = "moved"]
      PROVE  Accounted(only)'
    BY <1>1, AppliedIsAccounted DEF Changes, Done, diskVars, memoryVars, observationVars
<1>2. ASSUME OnlyConfigures(only) PROVE Accounted(only)'
    BY <1>1, <1>2, StartPlanMembers DEF OnlyConfigures, HostOK
<1>3. ASSUME CreateRuntimeRoot(only) PROVE Accounted(only)'
  <2>1. store.file = "absent"
      BY <1>3, StopPlanMembers DEF CreateRuntimeRoot, Done, Works
  <2>2. UNCHANGED <<session, process, handle, disclosed>>
        /\ Engine!ApplyOk(only, "create-isolated-runtime-root")
      BY <1>3 DEF CreateRuntimeRoot, Done, memoryVars, observationVars
  <2> QED BY <2>1, <2>2, AppliedIsAccounted, StartPlanMembers
<1>4. ASSUME CreateNetns(only) PROVE Accounted(only)'
    BY <1>1, <1>4, StartPlanMembers DEF CreateNetns, HostOK, Session
<1>5. ASSUME CreateVethPair(only) PROVE Accounted(only)'
    BY <1>1, <1>5, StartPlanMembers DEF CreateVethPair, HostOK, Session
<1>6. ASSUME ConfigureNamespaceDNS(only) PROVE Accounted(only)'
    BY <1>1, <1>6, StartPlanMembers DEF ConfigureNamespaceDNS, HostOK, Session
<1>7. ASSUME NEW p \in Pids, StartWSTunnelControl(only, p) PROVE Accounted(only)'
  <2>1. Engine!ApplyOk(only, "start-wstunnel-control") /\ disclosed' = disclosed
        /\ handle'[only].wstunnel = p /\ process' = [process EXCEPT ![p] = "wstunnel"]
      BY <1>7 DEF StartWSTunnelControl, Done, observationVars, MemoryOK
  <2>2. \A q \in Pids : process'[q] = "wstunnel" => process[q] = "wstunnel" \/ q = handle'[only].wstunnel
      BY <2>1 DEF HostOK
  <2> QED BY <2>1, <2>2, AppliedIsAccounted, StartPlanMembers
<1>8. ASSUME CreateWireGuard(only) PROVE Accounted(only)'
    BY <1>1, <1>8, StartPlanMembers DEF CreateWireGuard, HostOK, Session
<1>9. ASSUME ApplyClientRoutes(only) PROVE Accounted(only)'
    BY <1>1, <1>9, StartPlanMembers DEF ApplyClientRoutes, HostOK, Session
<1>10. ASSUME ApplyKillSwitch(only) PROVE Accounted(only)'
    BY <1>1, <1>10, StartPlanMembers DEF ApplyKillSwitch, Filtered, HostOK, Session
<1>11. ASSUME NEW p \in Pids, LaunchApp(only, p) PROVE Accounted(only)'
  <2>1. Engine!ApplyOk(only, "launch-app-in-netns") /\ disclosed' = disclosed
        /\ handle'[only].wstunnel = handle[only].wstunnel
        /\ process' = [process EXCEPT ![p] = "starting"]
      BY <1>11 DEF LaunchApp, Done, MemoryOK
  <2>2. \A q \in Pids : process'[q] = "wstunnel" => process[q] = "wstunnel"
      BY <2>1 DEF HostOK
  <2> QED BY <2>1, <2>2, AppliedIsAccounted, StartPlanMembers
<1>12. ASSUME StoreRuntimeState(only) PROVE Accounted(only)'
  <2>1. Engine!ApplyOk(only, "store-isolated-runtime-state")
        /\ UNCHANGED <<session, process, handle, disclosed>>
      BY <1>12 DEF StoreRuntimeState, Done, memoryVars, observationVars
  <2> QED BY <2>1, AppliedIsAccounted, StartPlanMembers
<1> QED BY <1>2, <1>3, <1>4, <1>5, <1>6, <1>7, <1>8, <1>9, <1>10, <1>11, <1>12 DEF StartStep

\* A step of a start that fails makes no more than the host end of a veth pair
\* before one is configured.
LEMMA FailureIsAccounted ==
    ASSUME EngineInv, HostOK, SafeInv, NEW only, Launchers = {only}, OutcomeInv(only),
           Accounted(only), NEW s \in plan[only], StepFails(only, s)
    PROVE  Accounted(only)'
<1> SUFFICES ASSUME ~disclosed PROVE Accounted(only)'
    BY DEF StepFails, Accounted
<1>1. Engine!Ready(only, s)
    BY DEF StepFails, Engine!ApplyFail
<1>2. /\ failed'[only] # {} /\ plan' = plan /\ applied' = applied /\ undone' = undone
      /\ mode'[only] = IF mode[only] = "connect" THEN "rollback" ELSE mode[only]
    BY DEF StepFails, Engine!ApplyFail, Engine!ModeAfterError, EngineInv, Engine!TypeOK
<1>3. CASE mode[only] = "disconnect"
    BY <1>2, <1>3 DEF Accounted
<1>4. CASE mode[only] = "connect"
  <2>1. plan[only] = StartSteps /\ s \in StartSteps /\ undone[only] = {}
      BY <1>4, AttemptedIsApplied DEF SafeInv, StartInv
  <2>2. StartAccounted(only)
      BY <1>4 DEF Accounted
  <2>3. ASSUME s \in {"validate-linux-prerequisites", "create-isolated-runtime-root",
                      "create-netns", "configure-host-veth"}
        PROVE  UNCHANGED <<session, process, root, store>>
      BY <2>3 DEF StepFails, Interrupted, diskVars
  <2>4. CASE "create-isolated-runtime-root" \notin applied[only]
    <3>1. s \in {"validate-linux-prerequisites", "create-isolated-runtime-root"}
        BY <1>1, <2>1, <2>4, RootFirst
    <3>2. Settled'
        BY <2>2, <2>3, <2>4, <3>1 DEF StartAccounted, Settled, Recorded, NoWSTunnelBut, Clear, ClearOfNames,
                                      ClearButHostVeth, NoWSTunnel
    <3> QED BY <1>2, <1>4, <2>4, <3>2 DEF Accounted, StartAccounted
  <2>5. CASE "create-isolated-runtime-root" \in applied[only]
    <3>1. ASSUME "configure-host-veth" \notin applied[only] PROVE Bare(only)'
      <4>1. s \in {"validate-linux-prerequisites", "create-isolated-runtime-root",
                   "create-netns", "create-veth-pair", "configure-host-veth"}
          BY <1>1, <2>1, <3>1, HostEndFirst
      <4>2. Bare(only)
          BY <2>2, <2>5, <3>1 DEF StartAccounted
      <4>3. CASE s = "create-veth-pair"
        <5>1. session' \in {session, [session EXCEPT !.veth = "host"]} /\ UNCHANGED <<process, root, store>>
            BY <4>3 DEF StepFails, Interrupted, diskVars
        <5> QED BY <1>2, <4>2, <5>1 DEF Bare, NoWSTunnel, HostOK, Session
      <4>4. CASE s # "create-veth-pair"
          BY <1>2, <2>3, <4>1, <4>2, <4>4 DEF Bare, NoWSTunnel
      <4> QED BY <4>3, <4>4
    <3>2. "configure-host-veth" \in applied[only] => "create-veth-pair" \in applied[only]
        BY <2>2, <2>5 DEF StartAccounted
    <3> QED BY <1>2, <1>4, <2>1, <2>5, <3>1, <3>2 DEF Accounted, StartAccounted
  <2> QED BY <2>4, <2>5
<1> QED BY <1>1, <1>3, <1>4 DEF Engine!Ready

-------------------------------------------------------------------------------
\* The steps of a stop and a cleanup

\* What a stop of a record leaves running is nothing but what it was.
LEMMA StoppedIsAccounted ==
    ASSUME EngineInv, MemoryOK, SafeInv, NEW only, Launchers = {only}, OutcomeInv(only),
           Accounted(only), NEW s \in StopSteps \ {"read-isolated-runtime-state"},
           Engine!ApplyOk(only, s), disclosed' = disclosed, Remember(only) \/ seen' = seen,
           Skipped(only) => UNCHANGED <<session, process, root, store>>,
           \A p \in Pids : process'[p] = "wstunnel" => process[p] = "wstunnel"
    PROVE  Accounted(only)'
<1>1. Engine!Ready(only, s)
    BY DEF Engine!ApplyOk
<1>2. mode[only] = "disconnect" /\ plan[only] = StopSteps
    BY <1>1, PlanOfStep
<1>3. /\ mode' = mode /\ plan' = plan /\ failed' = failed
      /\ applied'[only] = applied[only] \cup {s}
    BY DEF Engine!ApplyOk, EngineInv, Engine!TypeOK
<1> SUFFICES ASSUME ~disclosed, failed[only] = {} PROVE StopAccounted(only)'
    BY <1>2, <1>3 DEF Accounted
<1>4. seen[only].file \in {"absent", "whole"} /\ seen' = seen
    BY SeenIsKept
<1>5. "read-isolated-runtime-state" \in applied[only]
  <2>1. "read-isolated-runtime-state" \in attempted[only]
      BY <1>1, <1>2, EarlierAttempted, RecordRanks, StopPlanMembers
  <2> QED BY <2>1 DEF EngineInv, Engine!Bookkeeping
<1>6. StopAccounted(only)
    BY <1>2 DEF Accounted
<1>7. CASE seen[only].file = "absent"
  <2>1. Settled /\ UNCHANGED <<session, process, root, store>>
      BY <1>6, <1>7 DEF StopAccounted, Skipped
  <2>2. Settled'
      BY <2>1 DEF Settled, Recorded, NoWSTunnelBut, Clear, ClearOfNames, ClearButHostVeth, NoWSTunnel
  <2> QED BY <1>4, <1>7, <2>2 DEF StopAccounted
<1>8. CASE seen[only].file = "whole"
  <2>1. NoWSTunnelBut(seen[only].wstunnel)
      BY <1>5, <1>6, <1>8 DEF StopAccounted
  <2>2. NoWSTunnelBut(seen[only].wstunnel)'
      BY <1>4, <2>1 DEF NoWSTunnelBut
  <2> QED BY <1>3, <1>4, <1>5, <1>8, <2>2 DEF StopAccounted
<1> QED BY <1>4, <1>7, <1>8

LEMMA StopStepIsAccounted ==
    ASSUME EngineInv, HostOK, DiskOK, MemoryOK, SafeInv, NEW only, Launchers = {only},
           OutcomeInv(only), Accounted(only), StopStep(only)
    PROVE  Accounted(only)'
<1>1. ASSUME ReadRuntimeState(only) PROVE Accounted(only)'
  <2>1. Engine!ApplyOk(only, "read-isolated-runtime-state")
      BY <1>1 DEF ReadRuntimeState, Done
  <2>2. mode[only] = "disconnect" /\ plan[only] = StopSteps
      BY <2>1, PlanOfStep, StopPlanMembers DEF Engine!ApplyOk
  <2>3. /\ mode' = mode /\ plan' = plan /\ failed' = failed
        /\ "read-isolated-runtime-state" \notin applied[only]
      BY <2>1 DEF Engine!ApplyOk, Engine!Ready, EngineInv, Engine!Bookkeeping, Engine!TypeOK
  <2>4. /\ UNCHANGED <<session, process, root, store, disclosed>>
        /\ seen'[only] = store /\ store.file # "torn"
      BY <1>1, StopPlanMembers
         DEF ReadRuntimeState, Done, Works, MemoryOK, diskVars, observationVars
  <2> SUFFICES ASSUME ~disclosed, failed[only] = {} PROVE StopAccounted(only)'
      BY <2>2, <2>3, <2>4 DEF Accounted
  <2>5. Settled
      BY <2>2, <2>3 DEF Accounted, StopAccounted
  <2>6. CASE store.file = "absent"
    <3>1. Settled'
        BY <2>4, <2>5 DEF Settled, Recorded, NoWSTunnelBut, Clear, ClearOfNames, ClearButHostVeth, NoWSTunnel
    <3> QED BY <2>4, <2>6, <3>1 DEF StopAccounted
  <2>7. CASE store.file # "absent"
    <3>1. Recorded
        BY <2>5, <2>7 DEF Settled, Clear, ClearOfNames, ClearButHostVeth, DiskOK
    <3>2. NoWSTunnelBut(seen[only].wstunnel)'
        BY <2>4, <3>1 DEF Recorded, NoWSTunnelBut
    <3>3. "read-isolated-runtime-state" \in applied'[only] /\ seen'[only].file # "absent"
        BY <2>1, <2>4, <2>7 DEF Engine!ApplyOk, EngineInv, Engine!TypeOK
    <3> QED BY <3>2, <3>3 DEF StopAccounted
  <2> QED BY <2>6, <2>7
<1>2. ASSUME NEW s \in StopSteps \ {"read-isolated-runtime-state"}, Dependent(only, s),
             Skipped(only) => UNCHANGED <<session, process>>,
             \A p \in Pids : process'[p] = "wstunnel" => process[p] = "wstunnel"
      PROVE  Accounted(only)'
    BY <1>2, StoppedIsAccounted DEF Dependent, Done, diskVars
<1>3. ASSUME StopMonitor(only) PROVE Accounted(only)'
    BY <1>2, <1>3, StopPlanMembers DEF StopMonitor
<1>4. ASSUME StopApp(only) PROVE Accounted(only)'
  <2>1. Skipped(only) => UNCHANGED <<session, process>>
      BY <1>4 DEF StopApp, Skipped
  <2>2. \A p \in Pids : process'[p] = "wstunnel" => process[p] = "wstunnel"
    <3>1. CASE UNCHANGED process
        BY <3>1
    <3>2. CASE \E others : NamespaceStopped(others)
        BY <3>2 DEF NamespaceStopped
    <3> QED BY <1>4, <3>1, <3>2 DEF StopApp
  <2> QED BY <1>2, <1>4, <2>1, <2>2, StopPlanMembers DEF StopApp
<1>5. ASSUME NEW s \in StopSteps \ {"read-isolated-runtime-state"}, NEW new, Removes(only, s, new)
      PROVE  Accounted(only)'
    BY <1>2, <1>5 DEF Removes
<1>6. ASSUME RemoveKillSwitch(only) \/ RemoveClientRoutes(only) \/ RemoveWireGuard(only)
             \/ RemoveNamespaceDNS(only)
      PROVE  Accounted(only)'
    BY <1>5, <1>6, StopPlanMembers
       DEF RemoveKillSwitch, RemoveClientRoutes, RemoveWireGuard, RemoveNamespaceDNS
<1>7. ASSUME StopWSTunnelControl(only) PROVE Accounted(only)'
  <2>1. UNCHANGED session
        /\ process' = IF Skipped(only) THEN process ELSE Stopped(Known(only).wstunnel, {"wstunnel"})
      BY <1>7 DEF StopWSTunnelControl
  <2>2. \A p \in Pids : process'[p] = "wstunnel" => process[p] = "wstunnel"
      BY <2>1 DEF Stopped
  <2> QED BY <1>2, <1>7, <2>1, <2>2, StopPlanMembers DEF StopWSTunnelControl
<1>8. ASSUME DeleteNetns(only) PROVE Accounted(only)'
  <2>1. \A p \in Pids : process'[p] = "wstunnel" => process[p] = "wstunnel"
    <3>1. CASE UNCHANGED process
        BY <3>1
    <3>2. CASE NetnsDeleted("none")
        BY <3>2 DEF NetnsDeleted
    <3> QED BY <1>8, <3>1, <3>2 DEF DeleteNetns
  <2> QED BY <1>2, <1>8, <2>1, StopPlanMembers DEF DeleteNetns
<1>9. ASSUME ClearRuntimeState(only) PROVE Accounted(only)'
  <2>1. Engine!ApplyOk(only, "clear-isolated-runtime-state")
        /\ UNCHANGED <<session, process, seen, disclosed>>
        /\ (Skipped(only) => UNCHANGED <<root, store>>)
      BY <1>9 DEF ClearRuntimeState, Done, diskVars, memoryVars, observationVars
  <2> QED BY <2>1, StoppedIsAccounted, StopPlanMembers
<1> QED BY <1>1, <1>3, <1>4, <1>6, <1>7, <1>8, <1>9 DEF StopStep

\* A cleanup promises nothing to begin with.
LEMMA CleanupStepIsAccounted ==
    ASSUME EngineInv, SafeInv, NEW only, Launchers = {only}, CleanupStep(only)
    PROVE  Accounted(only)'
<1>1. PICK s \in CleanupSteps : Engine!ApplyOk(only, s)
    BY CleanupStepApplies
<1>2. mode'[only] = "disconnect" /\ plan'[only] = CleanupSteps
    BY <1>1, PlanOfStep DEF Engine!ApplyOk
<1> QED BY <1>2, StopPlanMembers, CleanupPlanMembers DEF Accounted

-------------------------------------------------------------------------------
\* The rollback

\* A rollback that has met no error: each step takes back what its apply made,
\* until the host end of the veth pair, if it was configured, is taken back.
LEMMA UndoneIsAccounted ==
    ASSUME EngineInv, HostOK, SafeInv, NEW only, Launchers = {only}, OutcomeInv(only),
           Accounted(only), NEW s, Engine!UndoOk(only, s) \/ Engine!UndoFail(only, s),
           disclosed' = disclosed,
           \A p \in Pids : process'[p] = "wstunnel" => process[p] = "wstunnel",
           session.veth = "none" => session'.veth = "none",
           Engine!UndoOk(only, s) /\ s = "create-isolated-runtime-root" =>
               ~root' /\ session' = session,
           Engine!UndoOk(only, s) /\ s = "create-netns" =>
               /\ ~session'.netns /\ session'.dns = session.dns /\ ~session'.wg
               /\ session'.routes = "none" /\ ~session'.killSwitch
               /\ session'.veth \in {session.veth, "none"} /\ root' = root,
           Engine!UndoOk(only, s) /\ s \in {"create-veth-pair", "configure-host-veth"} =>
               session.veth # "none" /\ session' = [session EXCEPT !.veth = "none"] /\ root' = root
    PROVE  Accounted(only)'
<1>1. Engine!ReadyToUndo(only, s)
    BY DEF Engine!UndoOk, Engine!UndoFail
<1>2. /\ mode[only] = "rollback" /\ s \in applied[only] /\ s \in Undoable /\ s \notin undone[only]
      /\ \A t \in applied[only] \cap Undoable : Rank[s] < Rank[t] => t \in undone[only]
  <2>1. applied[only] \subseteq Steps
      BY DEF EngineInv, Engine!TypeOK
  <2> QED BY <1>1, <2>1, AccountRanks DEF Engine!ReadyToUndo, Engine!ToUndo
<1>3. /\ mode' = mode /\ plan' = plan /\ applied' = applied
      /\ undone'[only] = undone[only] \cup {s}
    BY DEF Engine!UndoOk, Engine!UndoFail, EngineInv, Engine!TypeOK
<1>4. Engine!UndoFail(only, s) => stuck'[only] # {}
    BY DEF Engine!UndoFail, EngineInv, Engine!TypeOK
<1> SUFFICES ASSUME ~disclosed, stuck'[only] = {}, Engine!UndoOk(only, s)
             PROVE  StartAccounted(only)'
    BY <1>2, <1>3, <1>4 DEF Accounted
<1>5. StartAccounted(only)
    BY <1>2 DEF Accounted, Engine!UndoOk
<1>6. plan[only] = StartSteps /\ applied[only] \subseteq StartSteps
    BY <1>2 DEF SafeInv, StartInv, EngineInv, Engine!Bookkeeping
<1>7. "create-isolated-runtime-root" \in applied[only]
  <2> SUFFICES ASSUME "create-isolated-runtime-root" \notin applied[only] PROVE FALSE
      OBVIOUS
  <2>1. applied[only] \subseteq {"validate-linux-prerequisites"}
      BY <1>2 DEF OutcomeInv, Fresh, EngineInv, Engine!Bookkeeping
  <2> QED BY <1>2, <2>1 DEF Undoable
<1>8. CASE "configure-host-veth" \notin applied[only]
  <2>1. Bare(only)
      BY <1>5, <1>7, <1>8 DEF StartAccounted
  <2>3. s \in {"create-isolated-runtime-root", "create-netns", "create-veth-pair"}
      BY <1>2, <2>1 DEF Bare, Undoable
  <2>4. NoWSTunnel'
      BY <2>1 DEF Bare, NoWSTunnel
  <2>5. Bare(only)'
    <3>1. CASE s = "create-isolated-runtime-root"
        BY <1>3, <2>1, <2>4, <3>1 DEF Bare
    <3>2. CASE s = "create-netns"
        BY <1>3, <2>1, <2>4, <3>2 DEF Bare
    <3>3. CASE s = "create-veth-pair"
        BY <1>3, <2>1, <2>4, <3>3 DEF Bare, HostOK, Session
    <3> QED BY <2>3, <3>1, <3>2, <3>3
  <2>6. "configure-host-veth" \notin undone'[only]
      BY <1>2, <1>3, <1>8 DEF EngineInv, Engine!Bookkeeping
  <2> QED BY <1>2, <1>3, <1>7, <1>8, <2>5, <2>6 DEF StartAccounted
<1>9. CASE "configure-host-veth" \in applied[only]
  <2>1. /\ "create-veth-pair" \in applied[only]
        /\ "configure-host-veth" \in undone[only] =>
              session.veth = "none" /\ "create-veth-pair" \notin undone[only]
      BY <1>5, <1>7, <1>9 DEF StartAccounted
  <2>2. s # "create-veth-pair"
    <3> SUFFICES ASSUME s = "create-veth-pair" PROVE FALSE
        OBVIOUS
    <3>1. "configure-host-veth" \in undone[only]
        BY <1>2, <1>9, AccountRanks, StartPlanMembers DEF Undoable
    <3> QED BY <2>1, <3>1
  <2>3. "configure-host-veth" \in undone'[only] =>
           session'.veth = "none" /\ "create-veth-pair" \notin undone'[only]
    <3>1. CASE s = "configure-host-veth"
      <4>1. session'.veth = "none"
          BY <3>1 DEF HostOK, Session
      <4>2. "create-veth-pair" \notin undone[only]
          BY <1>2, <1>9, <3>1, AccountRanks DEF EngineInv, Engine!NewestUndoneFirst
      <4> QED BY <1>3, <2>2, <4>1, <4>2
    <3>2. CASE s # "configure-host-veth"
        BY <1>3, <2>1, <2>2, <3>2
    <3> QED BY <3>1, <3>2
  <2> QED BY <1>2, <1>3, <1>7, <1>9, <2>1, <2>3 DEF StartAccounted
<1> QED BY <1>8, <1>9

\* A rollback of a step has one result.
LEMMA OkIsNotFail ==
    ASSUME EngineInv, NEW only \in Launchers, NEW s, Engine!UndoFail(only, s)
    PROVE  ~Engine!UndoOk(only, s)
<1>1. s \notin undone[only] /\ stuck[only] \subseteq undone[only]
    BY DEF EngineInv, Engine!Bookkeeping, Engine!UndoFail, Engine!ReadyToUndo, Engine!ToUndo
<1> QED BY <1>1 DEF Engine!UndoOk, Engine!UndoFail, EngineInv, Engine!TypeOK

LEMMA UndoStepIsAccounted ==
    ASSUME EngineInv, HostOK, SafeInv, NEW only, Launchers = {only}, OutcomeInv(only),
           Accounted(only), UndoStep(only)
    PROVE  Accounted(only)'
<1> DEFINE made == {"create-isolated-runtime-root", "create-netns", "create-veth-pair",
                    "configure-host-veth"}
<1>1. ASSUME NEW s, Engine!UndoOk(only, s) \/ Engine!UndoFail(only, s), s \notin made,
             disclosed' = disclosed, session'.veth = session.veth,
             \A p \in Pids : process'[p] = "wstunnel" => process[p] = "wstunnel"
      PROVE  Accounted(only)'
    BY <1>1, UndoneIsAccounted
<1>2. ASSUME NEW s, NEW there, NEW new, Undoes(only, s, there, new), s \notin made,
             new.veth = session.veth
      PROVE  Accounted(only)'
    BY <1>1, <1>2 DEF Undoes, observationVars
<1> HIDE DEF made
<1>3. ASSUME UndoNothing(only) PROVE Accounted(only)'
    BY <1>1, <1>3 DEF UndoNothing, observationVars, made
<1>4. ASSUME UndoRuntimeRoot(only) PROVE Accounted(only)'
  <2>1. /\ UNCHANGED <<session, process, disclosed>>
        /\ \/ Engine!UndoOk(only, "create-isolated-runtime-root") /\ ~root'
           \/ Engine!UndoFail(only, "create-isolated-runtime-root")
      BY <1>4 DEF UndoRuntimeRoot, observationVars
  <2>2. ~(Engine!UndoOk(only, "create-isolated-runtime-root")
            /\ Engine!UndoFail(only, "create-isolated-runtime-root"))
      BY OkIsNotFail
  <2> QED BY <2>1, <2>2, UndoneIsAccounted
<1>5. ASSUME UndoNetns(only) PROVE Accounted(only)'
  <2>1. CASE Engine!UndoOk(only, "create-netns") /\ NetnsDeleted(session.veth)
    <3>1. /\ ~session'.netns /\ session'.dns = session.dns /\ ~session'.wg
          /\ session'.routes = "none" /\ ~session'.killSwitch
          /\ session'.veth \in {session.veth, "none"}
          /\ \A p \in Pids : process'[p] = "wstunnel" => process[p] = "wstunnel"
        BY <2>1 DEF NetnsDeleted, NoSession, VethAfter
    <3>2. UNCHANGED <<root, disclosed>>
        BY <1>5 DEF UndoNetns, diskVars, observationVars
    <3> QED BY <2>1, <3>1, <3>2, UndoneIsAccounted
  <2>2. CASE Engine!UndoFail(only, "create-netns") /\ UNCHANGED <<session, process>>
    <3>1. UNCHANGED disclosed
        BY <1>5 DEF UndoNetns, observationVars
    <3> QED BY <2>2, <3>1, OkIsNotFail, UndoneIsAccounted
  <2> QED BY <1>5, <2>1, <2>2 DEF UndoNetns
<1>6. ASSUME NEW s, UndoVeth(only, s) PROVE Accounted(only)'
  <2>1. s \in {"create-veth-pair", "configure-host-veth"} /\ UNCHANGED <<process, root, disclosed>>
      BY <1>6 DEF UndoVeth, Undoes, diskVars, observationVars
  <2>2. CASE Engine!UndoOk(only, s) /\ session.veth # "none"
             /\ session' = [session EXCEPT !.veth = "none"]
    <3>1. session.veth = "none" => session'.veth = "none"
        BY <2>2
    <3> QED BY <2>1, <2>2, <3>1, UndoneIsAccounted
  <2>3. CASE Engine!UndoFail(only, s) /\ UNCHANGED session
      BY <2>1, <2>3, OkIsNotFail, UndoneIsAccounted
  <2> QED BY <1>6, <2>2, <2>3 DEF UndoVeth, Undoes
<1>7. ASSUME NEW s, UndoWireGuard(only, s) PROVE Accounted(only)'
    BY <1>2, <1>7 DEF UndoWireGuard, InterfaceDeleted, HostOK, Session, made
<1>8. ASSUME UndoDNS(only) PROVE Accounted(only)'
    BY <1>2, <1>8 DEF UndoDNS, HostOK, Session, made
<1>9. ASSUME UndoClientRoutes(only) PROVE Accounted(only)'
  <2>1. session'.veth = session.veth
      BY <1>9 DEF UndoClientRoutes, HostOK, Session
  <2> QED BY <1>1, <1>9, <2>1 DEF UndoClientRoutes, observationVars, made
<1>10. ASSUME UndoKillSwitch(only) PROVE Accounted(only)'
    BY <1>2, <1>10 DEF UndoKillSwitch, Flushed, HostOK, Session, made
<1>11. ASSUME NEW s, s \notin made, NEW pid, NEW kinds, UndoProcess(only, s, pid, kinds)
       PROVE  Accounted(only)'
  <2>1. \A p \in Pids : process'[p] = "wstunnel" => process[p] = "wstunnel"
      BY <1>11 DEF UndoProcess, Stopped
  <2> QED BY <1>1, <1>11, <2>1 DEF UndoProcess
<1>12. ASSUME UndoWSTunnel(only) \/ UndoLaunch(only) PROVE Accounted(only)'
    BY <1>11, <1>12 DEF UndoWSTunnel, UndoLaunch, made
<1> QED BY <1>3, <1>4, <1>5, <1>6, <1>7, <1>8, <1>9, <1>10, <1>12 DEF UndoStep

-------------------------------------------------------------------------------
\* The end of a run, and what happens beside it

\* What exits leaves no more than there was.
LEMMA EnvironmentIsAccounted ==
    ASSUME HostOK, NEW only, Launchers = {only}, Accounted(only), Environment
    PROVE  Accounted(only)'
<1>1. /\ UNCHANGED <<engineVars, root, store, handle, seen, disclosed>>
      /\ session' = session \/ (session.veth = "moved" /\ session' = [session EXCEPT !.veth = "none"])
  <2>1. ASSUME NEW p \in Pids, Exits(p)
        PROVE  session' = session \/ (session.veth = "moved" /\ session' = [session EXCEPT !.veth = "none"])
      BY <2>1 DEF Exits, VethAfter, HostOK, Session
  <2> QED BY <2>1 DEF Environment, AppExecs, AppForks, Exits, diskVars, memoryVars, observationVars
<1>2. \A p \in Pids : process'[p] = "wstunnel" => process[p] = "wstunnel"
    BY DEF Environment, AppExecs, AppForks, Exits, HostOK
<1>3. NoWSTunnel => NoWSTunnel'
    BY <1>2 DEF NoWSTunnel
<1>4. \A p : NoWSTunnelBut(p) => \A q \in Pids : process'[q] = "wstunnel" => q = p
    BY <1>2 DEF NoWSTunnelBut
<1>5. Settled => Settled'
  <2>1. Recorded => Recorded'
      BY <1>1, <1>4 DEF Recorded, NoWSTunnelBut
  <2>2. Clear => Clear'
      BY <1>1, <1>3 DEF Clear, ClearOfNames, NoSession
  <2>3. ClearButHostVeth => ClearButHostVeth'
      BY <1>1, <1>3 DEF ClearButHostVeth, NoSession
  <2> QED BY <2>1, <2>2, <2>3 DEF Settled
<1>6. Bare(only) => Bare(only)'
    BY <1>1, <1>3 DEF Bare, engineVars, HostOK, Session
<1>7. session.veth = "none" => session'.veth = "none"
    BY <1>1
<1>8. StartAccounted(only) => StartAccounted(only)'
    BY <1>1, <1>3, <1>4, <1>5, <1>6, <1>7 DEF StartAccounted, NoWSTunnelBut, engineVars
<1>9. StopAccounted(only) => StopAccounted(only)'
    BY <1>1, <1>4, <1>5 DEF StopAccounted, NoWSTunnelBut, engineVars
<1> QED BY <1>1, <1>5, <1>8, <1>9 DEF Accounted, engineVars

\* The end of a run that was clean settles what it made or removed.
LEMMA ReturnSettles ==
    ASSUME EngineInv, TypeOK, SafeInv, NEW only, Launchers = {only}, OutcomeInv(only),
           Accounted(only), ~disclosed, Engine!Exhausted(only),
           plan[only] # CleanupSteps, Engine!Verdict(only) # "FailedDirty"
    PROVE  Settled
<1>1. mode[only] \in {"connect", "rollback", "disconnect"}
    BY DEF Engine!Exhausted
<1>2. CASE mode[only] = "connect"
  <2>1. plan[only] = StartSteps /\ applied[only] = StartSteps
      BY <1>2, AttemptedIsApplied
         DEF SafeInv, StartInv, Engine!Exhausted, EngineInv, Engine!Bookkeeping
  <2>2. store.file = "whole" /\ store.wstunnel = handle[only].wstunnel
      BY <1>2, <2>1, StartPlanMembers DEF OutcomeInv, Connecting, Going, Effect
  <2>3. NoWSTunnelBut(handle[only].wstunnel)
      BY <1>2, <2>1, StartPlanMembers DEF Accounted, StartAccounted
  <2> QED BY <2>2, <2>3 DEF Settled, Recorded
<1>3. CASE mode[only] = "rollback"
  <2>1. stuck[only] = {} /\ StartAccounted(only)
      BY <1>3 DEF Engine!Verdict, Accounted
  <2>2. applied[only] \cap Undoable \subseteq undone[only]
      BY <1>3 DEF Engine!Exhausted, Engine!ToUndo
  <2>3. {"create-isolated-runtime-root", "create-netns", "create-veth-pair", "configure-host-veth"}
           \subseteq Undoable
      BY StartPlanMembers DEF Undoable
  <2>4. CASE "create-isolated-runtime-root" \notin applied[only]
      BY <2>1, <2>4 DEF StartAccounted
  <2>5. CASE "create-isolated-runtime-root" \in applied[only]
    <3>1. "configure-host-veth" \notin applied[only]
        BY <2>1, <2>2, <2>3, <2>5 DEF StartAccounted
    <3>2. Bare(only)
        BY <2>1, <2>5, <3>1 DEF StartAccounted
    <3>3. ~session.netns /\ session.veth # "moved" /\ ~root
        BY <2>2, <2>3, <3>2 DEF Bare
    <3>4. session \in {NoSession, [NoSession EXCEPT !.veth = "host"]}
      <4>1. session.veth \in {"none", "host"} /\ session \in Session
          BY <3>3 DEF TypeOK, Session
      <4>2. session.veth = "none" => session = NoSession
          BY <3>2, <3>3, <4>1 DEF Bare, NoSession, Session
      <4>3. session.veth = "host" => session = [NoSession EXCEPT !.veth = "host"]
        <5> DEFINE hostEnd == [NoSession EXCEPT !.veth = "host"]
        <5>1. NoSession \in Session
            BY DEF NoSession, Session
        <5>2. /\ hostEnd \in Session /\ ~hostEnd.netns /\ hostEnd.veth = "host" /\ ~hostEnd.dns
              /\ ~hostEnd.wg /\ hostEnd.routes = "none" /\ ~hostEnd.killSwitch
            BY <5>1 DEF NoSession, Session
        <5> HIDE DEF hostEnd
        <5>3. session.veth = "host" => session = hostEnd
            BY <3>2, <3>3, <4>1, <5>2 DEF Bare, Session
        <5> QED BY <5>3 DEF hostEnd
      <4> QED BY <4>1, <4>2, <4>3
    <3> QED BY <3>2, <3>3, <3>4 DEF Bare, Settled, Clear, ClearOfNames, ClearButHostVeth
  <2> QED BY <2>4, <2>5
<1>4. CASE mode[only] = "disconnect"
  <2>1. plan[only] = StopSteps /\ failed[only] = {}
      BY <1>4 DEF Engine!Verdict, SafeInv, StopInv
  <2>2. applied[only] = StopSteps
      BY <1>4, <2>1 DEF Engine!Exhausted, EngineInv, Engine!Bookkeeping
  <2>3. seen[only].file \in {"absent", "whole"}
      BY <1>4, <2>1, <2>2, StopPlanMembers DEF OutcomeInv, Ending, Going
  <2>4. CASE seen[only].file = "absent"
      BY <1>4, <2>1, <2>4 DEF Accounted, StopAccounted
  <2>5. CASE seen[only].file = "whole"
    <3>1. \A s \in StopSteps : Gone(only, s)
        BY <1>4, <2>1, <2>2, <2>5 DEF OutcomeInv, Ending, Going
    <3>2. /\ ~session.dns /\ NothingButDNS /\ ~root
          /\ seen[only].wstunnel \in Pids => process[seen[only].wstunnel] # "wstunnel"
        BY <3>1, StopPlanMembers DEF Gone
    <3>3. NoWSTunnelBut(seen[only].wstunnel)
        BY <1>4, <2>1, <2>2, <2>5, StopPlanMembers DEF Accounted, StopAccounted
    <3>4. NoWSTunnel
        BY <3>2, <3>3 DEF NoWSTunnel, NoWSTunnelBut
    <3>5. session = NoSession
        BY <3>2 DEF NothingButDNS, NoSession, TypeOK, Session
    <3> QED BY <3>2, <3>4, <3>5 DEF Settled, Clear, ClearOfNames
  <2> QED BY <2>3, <2>4, <2>5
<1> QED BY <1>1, <1>2, <1>3, <1>4

LEMMA AccountedStep ==
    ASSUME EngineInv, TypeOK, SafeInv, NEW only, Launchers = {only}, OutcomeInv(only),
           Accounted(only), [Next]_vars
    PROVE  Accounted(only)'
<1>1. HostOK /\ DiskOK /\ MemoryOK
    BY TypeOKParts
<1>2. ASSUME NEW kind, NEW steps, Begins(only, kind, steps) PROVE Accounted(only)'
  <2>1. /\ mode[only] = "off" /\ mode'[only] \in {"connect", "disconnect"} /\ applied'[only] = {}
        /\ UNCHANGED <<session, process, root, store, disclosed>>
      BY <1>2 DEF Begins, Engine!Begin, EngineInv, Engine!TypeOK, diskVars, observationVars
  <2>2. ~disclosed => Settled'
      BY <2>1 DEF Accounted, Settled, Recorded, NoWSTunnelBut, Clear, ClearOfNames, ClearButHostVeth, NoWSTunnel
  <2> QED BY <2>1, <2>2 DEF Accounted, StartAccounted, StopAccounted
<1>3. ASSUME StartIsolatedApp(only) \/ StopIsolatedApp(only) \/ CleanupIsolatedApp(only)
      PROVE  Accounted(only)'
    BY <1>2, <1>3 DEF StartIsolatedApp, StopIsolatedApp, CleanupIsolatedApp
<1>4. ASSUME Return(only) PROVE Accounted(only)'
  <2>1. /\ mode'[only] = "off" /\ UNCHANGED <<session, process, root, store>>
        /\ Engine!Exhausted(only)
        /\ disclosed' = (~Clear /\ (disclosed \/ plan[only] = CleanupSteps
                                      \/ Engine!Verdict(only) = "FailedDirty"))
      BY <1>4 DEF Return, Finishes, Engine!Return, EngineInv, Engine!TypeOK, diskVars
  <2>2. ~disclosed' => Settled
      BY <2>1, ReturnSettles DEF Settled
  <2>3. Settled => Settled'
      BY <2>1 DEF Settled, Recorded, NoWSTunnelBut, Clear, ClearOfNames, ClearButHostVeth, NoWSTunnel
  <2> QED BY <2>1, <2>2, <2>3 DEF Accounted
<1>5. ASSUME Kill(only) PROVE Accounted(only)'
  <2>1. mode'[only] = "off" /\ disclosed' = ~Clear'
      BY <1>5 DEF Kill, Engine!Kill, EngineInv, Engine!TypeOK
  <2> QED BY <2>1 DEF Accounted, Settled
<1>6. CASE UNCHANGED vars
    BY <1>6 DEF vars, engineVars, diskVars, memoryVars, observationVars, Accounted, StartAccounted, StopAccounted,
                Bare, Settled, Recorded, NoWSTunnelBut, Clear, ClearOfNames, ClearButHostVeth, NoWSTunnel
<1> QED
    BY <1>1, <1>3, <1>4, <1>5, <1>6, StartStepIsAccounted, StopStepIsAccounted, CleanupStepIsAccounted,
       FailureIsAccounted, UndoStepIsAccounted, EnvironmentIsAccounted DEF Next, Step

\* Whatever is not disclosed, a start that claims to be recoverable left on
\* record or cleared, and an idle stop cleared, for any number of processes and
\* any steps that break: a rollback that would leave more deletes the host end
\* of the veth pair twice, and says FailedDirty for it.
THEOREM QuietMeansClearHolds ==
    ASSUME NEW only, Launchers = {only}
    PROVE  Spec => []QuietMeansClear
<1>1. Init => Accounted(only)
    BY DEF Init, Engine!Init, Accounted, Settled, Clear, ClearOfNames, NoWSTunnel
<1>2. EngineInv /\ TypeOK /\ SafeInv /\ OutcomeInv(only) /\ Accounted(only) /\ [Next]_vars
        => Accounted(only)'
    BY AccountedStep
<1>3. ASSUME TypeOK, Accounted(only), IdleMeansSessionGone, AllOff, ~disclosed
      PROVE  /\ outcome[only] = "FailedRecoverable" =>
                   store.file = "whole" \/ Clear \/ ClearButHostVeth
             /\ outcome[only] = "Idle" /\ plan[only] = StopSteps /\ seen[only].file = "whole" => Clear
  <2>1. Settled
      BY <1>3 DEF Accounted, AllOff
  <2>2. outcome[only] = "Idle" /\ plan[only] = StopSteps /\ seen[only].file = "whole"
           => ClearOfNames /\ store.file = "absent"
      BY <1>3 DEF IdleMeansSessionGone
  <2>3. ClearOfNames => ~ClearButHostVeth
      BY DEF ClearOfNames, ClearButHostVeth, NoSession
  <2> QED BY <2>1, <2>2, <2>3 DEF Settled, Recorded
<1>4. TypeOK /\ Accounted(only) /\ IdleMeansSessionGone => QuietMeansClear
    BY <1>3 DEF QuietMeansClear
<1> QED BY <1>1, <1>2, <1>4, EngineInvHolds, TypeCorrect, SafeInvHolds, OutcomeInvHolds,
           IdleMeansSessionGoneHolds, PTL DEF Spec
===============================================================================
