------------------------- MODULE IsolatedSessionProofs -------------------------
(***************************************************************************)
(* What holds of one isolated session for every number of launchers and    *)
(* PIDs and whatever fails: every step is a step of the plan engine, so    *)
(* that what StepEngineProofs proves of any plan holds of the three plans  *)
(* of a session.                                                           *)
(***************************************************************************)
EXTENDS IsolatedSession, TLAPS

EngineProofs == INSTANCE StepEngineProofs WITH Deferred <- {}

-------------------------------------------------------------------------------
\* The plans

\* The fifteen steps of a start, read off the list of BuildIsolatedAppPlan.
LEMMA StartPlanMembers ==
    /\ Len(StartPlan) = 15
    /\ StartSteps =
          {"validate-linux-prerequisites", "create-isolated-runtime-root", "create-netns",
           "create-veth-pair", "configure-host-veth", "configure-namespace-veth",
           "configure-namespace-dns", "start-wstunnel-control",
           "create-wireguard-interface-in-netns", "apply-wireguard-addresses-in-netns",
           "apply-wireguard-peer-in-netns", "apply-namespace-client-routes",
           "apply-namespace-kill-switch", "launch-app-in-netns", "store-isolated-runtime-state"}
BY DEF StartSteps, Members, StartPlan

\* The ten steps of a stop.
LEMMA StopPlanMembers ==
    /\ Len(StopPlan) = 10
    /\ StopSteps =
          {"read-isolated-runtime-state", "stop-isolated-monitor", "stop-isolated-app",
           "remove-namespace-kill-switch", "remove-namespace-client-routes",
           "remove-wireguard-interface-in-netns", "stop-wstunnel-control",
           "remove-namespace-dns", "delete-netns", "clear-isolated-runtime-state"}
BY DEF StopSteps, Members, StopPlan

\* The six steps of a cleanup.
LEMMA CleanupPlanMembers ==
    /\ Len(CleanupPlan) = 6
    /\ CleanupSteps =
          {"cleanup-isolated-processes", "cleanup-namespace-kill-switch",
           "cleanup-wireguard-interface-in-netns", "cleanup-netns", "cleanup-namespace-dns",
           "cleanup-isolated-runtime-root"}
BY DEF CleanupSteps, Members, CleanupPlan

\* Every step has a place.
LEMMA PlaceIsNatural ==
    ASSUME NEW s \in Steps
    PROVE  Place(s) \in Nat
<1>1. \E i \in 1..Len(StartPlan) :
         \E list \in {StartPlan, StopPlan, CleanupPlan} : i \in DOMAIN list /\ list[i] = s
  <2>1. CASE s \in StartSteps
    <3>1. PICK i \in DOMAIN StartPlan : StartPlan[i] = s
        BY <2>1 DEF StartSteps, Members
    <3>2. i \in 1..Len(StartPlan)
        BY <3>1 DEF StartPlan
    <3> QED BY <3>1, <3>2
  <2>2. CASE s \in StopSteps
    <3>1. PICK i \in DOMAIN StopPlan : StopPlan[i] = s
        BY <2>2 DEF StopSteps, Members
    <3>2. i \in 1..10
        BY <3>1 DEF StopPlan
    <3>3. i \in 1..Len(StartPlan)
        BY <3>2, StartPlanMembers
    <3> QED BY <3>1, <3>3
  <2>3. CASE s \in CleanupSteps
    <3>1. PICK i \in DOMAIN CleanupPlan : CleanupPlan[i] = s
        BY <2>3 DEF CleanupSteps, Members
    <3>2. i \in 1..6
        BY <3>1 DEF CleanupPlan
    <3>3. i \in 1..Len(StartPlan)
        BY <3>2, StartPlanMembers
    <3> QED BY <3>1, <3>3
  <2> QED BY <2>1, <2>2, <2>3 DEF Steps
<1>2. Place(s) \in 1..Len(StartPlan)
    BY <1>1 DEF Place
<1> QED BY <1>2, StartPlanMembers

\* The order of places is one the engine accepts.
LEMMA EngineAssumed == Engine!EngineAssumption
<1>1. Rank \in [Steps -> Nat]
    BY PlaceIsNatural DEF Rank
<1> QED BY <1>1 DEF Engine!EngineAssumption, Undoable, Steps

-------------------------------------------------------------------------------
\* The session runs the engine

\* All steps by name.
LEMMA InSteps == StartSteps \cup StopSteps \cup CleanupSteps = Steps /\ Steps =
    {"validate-linux-prerequisites", "create-isolated-runtime-root", "create-netns",
     "create-veth-pair", "configure-host-veth", "configure-namespace-veth",
     "configure-namespace-dns", "start-wstunnel-control",
     "create-wireguard-interface-in-netns", "apply-wireguard-addresses-in-netns",
     "apply-wireguard-peer-in-netns", "apply-namespace-client-routes",
     "apply-namespace-kill-switch", "launch-app-in-netns", "store-isolated-runtime-state",
     "read-isolated-runtime-state", "stop-isolated-monitor", "stop-isolated-app",
     "remove-namespace-kill-switch", "remove-namespace-client-routes",
     "remove-wireguard-interface-in-netns", "stop-wstunnel-control",
     "remove-namespace-dns", "delete-netns", "clear-isolated-runtime-state",
     "cleanup-isolated-processes", "cleanup-namespace-kill-switch",
     "cleanup-wireguard-interface-in-netns", "cleanup-netns", "cleanup-namespace-dns",
     "cleanup-isolated-runtime-root"}
BY StartPlanMembers, StopPlanMembers, CleanupPlanMembers DEF Steps

\* A step of a start is the engine's action of one step, with an effect.
LEMMA StartStepOfEngine ==
    ASSUME Engine!TypeOK, NEW l \in Launchers, StartStep(l)
    PROVE  Engine!Next
<1>1. ASSUME OnlyConfigures(l) PROVE Engine!Next
    BY <1>1, InSteps DEF OnlyConfigures, Changes, Done, Engine!Next
<1>2. ASSUME CreateRuntimeRoot(l) PROVE Engine!Next
    BY <1>2, InSteps DEF CreateRuntimeRoot, Done, Engine!Next
<1>3. ASSUME CreateNetns(l) PROVE Engine!Next
    BY <1>3, InSteps DEF CreateNetns, Changes, Done, Engine!Next
<1>4. ASSUME CreateVethPair(l) PROVE Engine!Next
    BY <1>4, InSteps DEF CreateVethPair, Changes, Done, Engine!Next
<1>5. ASSUME ConfigureNamespaceDNS(l) PROVE Engine!Next
    BY <1>5, InSteps DEF ConfigureNamespaceDNS, Changes, Done, Engine!Next
<1>6. ASSUME NEW p \in Pids, StartWSTunnelControl(l, p) PROVE Engine!Next
    BY <1>6, InSteps DEF StartWSTunnelControl, Done, Engine!Next
<1>7. ASSUME CreateWireGuard(l) PROVE Engine!Next
    BY <1>7, InSteps DEF CreateWireGuard, Changes, Done, Engine!Next
<1>8. ASSUME ApplyClientRoutes(l) PROVE Engine!Next
    BY <1>8, InSteps DEF ApplyClientRoutes, Changes, Done, Engine!Next
<1>9. ASSUME ApplyKillSwitch(l) PROVE Engine!Next
    BY <1>9, InSteps DEF ApplyKillSwitch, Changes, Done, Engine!Next
<1>10. ASSUME NEW p \in Pids, LaunchApp(l, p) PROVE Engine!Next
    BY <1>10, InSteps DEF LaunchApp, Done, Engine!Next
<1>11. ASSUME StoreRuntimeState(l) PROVE Engine!Next
    BY <1>11, InSteps DEF StoreRuntimeState, Done, Engine!Next
<1> QED BY <1>1, <1>2, <1>3, <1>4, <1>5, <1>6, <1>7, <1>8, <1>9, <1>10, <1>11 DEF StartStep

\* So is one of a stop,
LEMMA StopStepOfEngine ==
    ASSUME Engine!TypeOK, NEW l \in Launchers, StopStep(l)
    PROVE  Engine!Next
<1>1. ASSUME ReadRuntimeState(l) PROVE Engine!Next
    BY <1>1, InSteps DEF ReadRuntimeState, Done, Engine!Next
<1>2. ASSUME StopMonitor(l) PROVE Engine!Next
    BY <1>2, InSteps DEF StopMonitor, Dependent, Done, Engine!Next
<1>3. ASSUME StopApp(l) PROVE Engine!Next
    BY <1>3, InSteps DEF StopApp, Dependent, Done, Engine!Next
<1>4. ASSUME RemoveKillSwitch(l) PROVE Engine!Next
    BY <1>4, InSteps DEF RemoveKillSwitch, Removes, Dependent, Done, Engine!Next
<1>5. ASSUME RemoveClientRoutes(l) PROVE Engine!Next
    BY <1>5, InSteps DEF RemoveClientRoutes, Removes, Dependent, Done, Engine!Next
<1>6. ASSUME RemoveWireGuard(l) PROVE Engine!Next
    BY <1>6, InSteps DEF RemoveWireGuard, Removes, Dependent, Done, Engine!Next
<1>7. ASSUME StopWSTunnelControl(l) PROVE Engine!Next
    BY <1>7, InSteps DEF StopWSTunnelControl, Dependent, Done, Engine!Next
<1>8. ASSUME RemoveNamespaceDNS(l) PROVE Engine!Next
    BY <1>8, InSteps DEF RemoveNamespaceDNS, Removes, Dependent, Done, Engine!Next
<1>9. ASSUME DeleteNetns(l) PROVE Engine!Next
    BY <1>9, InSteps DEF DeleteNetns, Dependent, Done, Engine!Next
<1>10. ASSUME ClearRuntimeState(l) PROVE Engine!Next
    BY <1>10, InSteps DEF ClearRuntimeState, Done, Engine!Next
<1> QED BY <1>1, <1>2, <1>3, <1>4, <1>5, <1>6, <1>7, <1>8, <1>9, <1>10 DEF StopStep

\* of a cleanup,
LEMMA CleanupStepOfEngine ==
    ASSUME Engine!TypeOK, NEW l \in Launchers, CleanupStep(l)
    PROVE  Engine!Next
<1>1. ASSUME CleanupProcesses(l) PROVE Engine!Next
    BY <1>1, InSteps DEF CleanupProcesses, IgnoredOr, Done, Engine!Next
<1>2. ASSUME CleanupKillSwitch(l) PROVE Engine!Next
    BY <1>2, InSteps DEF CleanupKillSwitch, IgnoredOr, Done, Engine!Next
<1>3. ASSUME CleanupWireGuard(l) PROVE Engine!Next
    BY <1>3, InSteps DEF CleanupWireGuard, IgnoredOr, Done, Engine!Next
<1>4. ASSUME CleanupNetns(l) PROVE Engine!Next
    BY <1>4, InSteps DEF CleanupNetns, IgnoredOr, Done, Engine!Next
<1>5. ASSUME CleanupDNS(l) PROVE Engine!Next
    BY <1>5, InSteps DEF CleanupDNS, Changes, Done, Engine!Next
<1>6. ASSUME CleanupRuntimeRoot(l) PROVE Engine!Next
    BY <1>6, InSteps DEF CleanupRuntimeRoot, Done, Engine!Next
<1> QED BY <1>1, <1>2, <1>3, <1>4, <1>5, <1>6 DEF CleanupStep

\* and of a rollback.
LEMMA UndoStepOfEngine ==
    ASSUME Engine!TypeOK, NEW l \in Launchers, UndoStep(l)
    PROVE  Engine!Next
<1>1. ASSUME UndoNothing(l) PROVE Engine!Next
    BY <1>1, InSteps DEF UndoNothing, Engine!Next
<1>2. ASSUME UndoRuntimeRoot(l) PROVE Engine!Next
    BY <1>2, InSteps DEF UndoRuntimeRoot, Engine!Next
<1>3. ASSUME UndoNetns(l) PROVE Engine!Next
    BY <1>3, InSteps DEF UndoNetns, Engine!Next
<1>4. ASSUME NEW s \in applied[l], UndoVeth(l, s) PROVE Engine!Next
    BY <1>4, InSteps DEF UndoVeth, Undoes, Engine!Next, Engine!TypeOK
<1>5. ASSUME NEW s \in applied[l], UndoWireGuard(l, s) PROVE Engine!Next
    BY <1>5, InSteps DEF UndoWireGuard, Undoes, Engine!Next, Engine!TypeOK
<1>6. ASSUME UndoDNS(l) PROVE Engine!Next
    BY <1>6, InSteps DEF UndoDNS, Undoes, Engine!Next
<1>7. ASSUME UndoClientRoutes(l) PROVE Engine!Next
    BY <1>7, InSteps DEF UndoClientRoutes, Engine!Next
<1>8. ASSUME UndoKillSwitch(l) PROVE Engine!Next
    BY <1>8, InSteps DEF UndoKillSwitch, Undoes, Engine!Next
<1>9. ASSUME UndoWSTunnel(l) PROVE Engine!Next
    BY <1>9, InSteps DEF UndoWSTunnel, UndoProcess, Engine!Next
<1>10. ASSUME UndoLaunch(l) PROVE Engine!Next
    BY <1>10, InSteps DEF UndoLaunch, UndoProcess, Engine!Next
<1> QED BY <1>1, <1>2, <1>3, <1>4, <1>5, <1>6, <1>7, <1>8, <1>9, <1>10 DEF UndoStep

\* A step of a run is a step of the engine.
LEMMA RunStepOfEngine ==
    ASSUME Engine!TypeOK, NEW l \in Launchers, Step(l)
    PROVE  Engine!Next
<1>1. ASSUME NEW s \in plan[l], StepFails(l, s)
       PROVE  Engine!Next
    BY <1>1 DEF StepFails, Engine!TypeOK, Engine!Next
<1> QED BY <1>1, StartStepOfEngine, StopStepOfEngine, CleanupStepOfEngine, UndoStepOfEngine DEF Step

\* Every step of a behaviour is a step of the engine or leaves it alone.
LEMMA StepOfEngine ==
    ASSUME Engine!TypeOK, [Next]_vars
    PROVE  [Engine!Next]_engineVars
<1>1. ASSUME NEW l \in Launchers, StartIsolatedApp(l) \/ StopIsolatedApp(l) \/ CleanupIsolatedApp(l)
       PROVE  Engine!Next
    BY <1>1 DEF StartIsolatedApp, StopIsolatedApp, CleanupIsolatedApp, Begins, Steps, Engine!Next
<1>2. ASSUME NEW l \in Launchers, Return(l) \/ Kill(l)
       PROVE  Engine!Next
    BY <1>2 DEF Return, Finishes, Kill, Engine!Next
<1>3. CASE Environment
    BY <1>3 DEF Environment, AppExecs, AppForks, Exits
<1>4. CASE UNCHANGED vars
    BY <1>4 DEF vars
<1> QED BY <1>1, <1>2, <1>3, <1>4, RunStepOfEngine DEF Next

\* The instance the session is written with and the one the proofs come from are
\* the same definitions.
LEMMA SameEngine ==
    /\ Engine!Init => EngineProofs!Init
    /\ [Engine!Next]_engineVars => [EngineProofs!Next]_EngineProofs!engineVars
    /\ Engine!TypeOK <=> EngineProofs!TypeOK
    /\ Engine!Bookkeeping <=> EngineProofs!Bookkeeping
    /\ Engine!InPlanOrder <=> EngineProofs!InPlanOrder
    /\ Engine!NewestUndoneFirst <=> EngineProofs!NewestUndoneFirst
    /\ Engine!VerdictIsHonest <=> EngineProofs!VerdictIsHonest
<1>1. Engine!Init => EngineProofs!Init
    BY DEF Engine!Init, EngineProofs!Init
<1>2. [Engine!Next]_engineVars => [EngineProofs!Next]_EngineProofs!engineVars
    BY DEF Engine!Next, EngineProofs!Next, engineVars, EngineProofs!engineVars,
           Engine!Begin, EngineProofs!Begin, Engine!Skip, EngineProofs!Skip,
           Engine!ApplyOk, EngineProofs!ApplyOk, Engine!ApplyFail, EngineProofs!ApplyFail,
           Engine!Ready, EngineProofs!Ready,
           Engine!ModeAfterError, EngineProofs!ModeAfterError,
           Engine!UndoOk, EngineProofs!UndoOk, Engine!UndoFail, EngineProofs!UndoFail,
           Engine!ReadyToUndo, EngineProofs!ReadyToUndo, Engine!ToUndo, EngineProofs!ToUndo,
           Engine!Return, EngineProofs!Return, Engine!Exhausted, EngineProofs!Exhausted,
           Engine!Verdict, EngineProofs!Verdict, Engine!Kill, EngineProofs!Kill
<1>3. Engine!TypeOK <=> EngineProofs!TypeOK
    BY DEF Engine!TypeOK, EngineProofs!TypeOK, Engine!Modes, EngineProofs!Modes,
           Engine!Outcomes, EngineProofs!Outcomes
<1>4. Engine!Bookkeeping <=> EngineProofs!Bookkeeping
    BY DEF Engine!Bookkeeping, EngineProofs!Bookkeeping
<1>5. Engine!InPlanOrder <=> EngineProofs!InPlanOrder
    BY DEF Engine!InPlanOrder, EngineProofs!InPlanOrder
<1>6. Engine!NewestUndoneFirst <=> EngineProofs!NewestUndoneFirst
    BY DEF Engine!NewestUndoneFirst, EngineProofs!NewestUndoneFirst
<1>7. Engine!VerdictIsHonest <=> EngineProofs!VerdictIsHonest
    BY DEF Engine!VerdictIsHonest, EngineProofs!VerdictIsHonest
<1> QED BY <1>1, <1>2, <1>3, <1>4, <1>5, <1>6, <1>7

\* Whatever the launchers, the kills and the failures, a run of a start, a stop
\* or a cleanup is a run of the plan engine: no executor reorders, repeats or
\* drops a step.
THEOREM ImplementsEngine == Spec => Engine!Spec
<1>1. Init => Engine!Init
    BY DEF Init
<1>2. Engine!Init => Engine!TypeOK
    BY SameEngine, EngineProofs!TypeInit, EngineAssumed DEF Engine!EngineAssumption
<1>3. Engine!TypeOK /\ [Next]_vars => [Engine!Next]_engineVars
    BY StepOfEngine
<1>4. EngineProofs!TypeOK /\ [EngineProofs!Next]_EngineProofs!engineVars => EngineProofs!TypeOK'
    BY EngineProofs!TypeStep, EngineAssumed DEF Engine!EngineAssumption
<1> QED BY <1>1, <1>2, <1>3, <1>4, SameEngine, PTL DEF Spec, Engine!Spec, engineVars, Engine!engineVars

EngineInv ==
    /\ Engine!TypeOK
    /\ Engine!Bookkeeping
    /\ Engine!InPlanOrder
    /\ Engine!NewestUndoneFirst
    /\ Engine!VerdictIsHonest

\* What StepEngineProofs proves of any plan holds of whatever runs the engine,
LEMMA EngineImpliesInv == Engine!Spec => []EngineInv
<1>1. EngineProofs!Spec => []EngineProofs!TypeOK
    BY EngineProofs!TypeCorrect, EngineAssumed DEF Engine!EngineAssumption
<1>2. EngineProofs!Spec => []EngineProofs!Bookkeeping
    BY EngineProofs!BookkeepingHolds, EngineAssumed DEF Engine!EngineAssumption
<1>3. EngineProofs!Spec => []EngineProofs!InPlanOrder
    BY EngineProofs!InPlanOrderHolds, EngineAssumed DEF Engine!EngineAssumption
<1>4. EngineProofs!Spec => []EngineProofs!NewestUndoneFirst
    BY EngineProofs!NewestUndoneFirstHolds, EngineAssumed DEF Engine!EngineAssumption
<1>5. EngineProofs!Spec => []EngineProofs!VerdictIsHonest
    BY EngineProofs!VerdictHolds, EngineAssumed DEF Engine!EngineAssumption
<1> QED
    BY <1>1, <1>2, <1>3, <1>4, <1>5, SameEngine, PTL
       DEF EngineInv, Engine!Spec, EngineProofs!Spec, engineVars, Engine!engineVars

\* as a session does.
LEMMA EngineInvHolds == Spec => []EngineInv
BY ImplementsEngine, EngineImpliesInv, PTL

-------------------------------------------------------------------------------
\* Types of the host, of the record and of the launchers' memory

HostOK ==
    /\ session \in Session
    /\ process \in [Pids -> Processes]
    /\ session.routes # "none" => session.wg
    /\ session.wg \/ session.killSwitch \/ InNamespace # {} => session.netns

DiskOK ==
    /\ root \in BOOLEAN
    /\ store \in StateFile
    /\ store.file # "absent" => root

MemoryOK ==
    /\ handle \in [Launchers -> [wstunnel : Pids \cup {NoPid}, app : Pids \cup {NoPid}]]
    /\ seen \in [Launchers -> StateFile \cup {Unread}]
    /\ watch \in [Launchers -> Watching]
    /\ abandoned \in BOOLEAN
    /\ disclosed \in BOOLEAN

LEMMA TypeOKParts == TypeOK <=> Engine!TypeOK /\ HostOK /\ DiskOK /\ MemoryOK
BY DEF TypeOK, HostOK, DiskOK, MemoryOK

\* Nothing is left of the namespace but what lost its name.
LEMMA DeletedKeepsHost ==
    ASSUME HostOK, NEW veth \in {"none", "host", "moved"}, NetnsDeleted(veth)
    PROVE  HostOK'
<1>1. session' \in Session /\ ~session'.netns /\ ~session'.wg /\ ~session'.killSwitch /\ session'.routes = "none"
    BY DEF NetnsDeleted, HostOK, Session, NoSession, VethAfter
<1>2. process' \in [Pids -> Processes] /\ \A p \in Pids : process'[p] \notin {"app", "child"}
    BY DEF NetnsDeleted, HostOK, Processes, InNamespace
<1> QED BY <1>1, <1>2 DEF HostOK, InNamespace

\* A change of the names alone that keeps what they stand for consistent.
LEMMA NamesKeepHost ==
    ASSUME HostOK, UNCHANGED process, session' \in Session,
           session'.routes # "none" => session'.wg,
           session'.wg \/ session'.killSwitch => session'.netns,
           session.netns => session'.netns
    PROVE  HostOK'
BY DEF HostOK, InNamespace

\* A change of the processes that puts none of them into the namespace.
LEMMA ProcessesKeepHost ==
    ASSUME HostOK, UNCHANGED session, process' \in [Pids -> Processes],
           \A p \in Pids : process'[p] \in {"app", "child"} => session.netns
    PROVE  HostOK'
BY DEF HostOK, InNamespace

\* Stopping processes leaves each of them free or as it was.
LEMMA StoppingKeepsHost ==
    ASSUME HostOK, UNCHANGED session, NEW gone,
           process' = [p \in Pids |-> IF p \in gone THEN "free" ELSE process[p]]
    PROVE  HostOK'
BY ProcessesKeepHost DEF HostOK, Processes, InNamespace

LEMMA AbsentIsState == Absent \in StateFile /\ Torn \in StateFile
BY DEF Absent, Torn, StateFile

LEMMA RecordIsState ==
    ASSUME MemoryOK, NEW l \in Launchers
    PROVE  RecordOf(l) \in StateFile
BY DEF MemoryOK, RecordOf, StateFile

LEMMA RememberKeepsType ==
    ASSUME DiskOK, MemoryOK, NEW l \in Launchers, Remember(l)
    PROVE  seen' \in [Launchers -> StateFile \cup {Unread}]
BY DEF DiskOK, MemoryOK, Remember, Known

\* What three steps of a start need.
LEMMA NeededByStart ==
    ASSUME NEW l \in Launchers, NEW s, Works(l, s)
    PROVE  /\ s = "create-wireguard-interface-in-netns" => session.netns
           /\ s = "apply-namespace-client-routes" => session.wg
           /\ s = "apply-namespace-kill-switch" => session.netns
<1>1. CASE s = "create-wireguard-interface-in-netns"
    BY <1>1, StopPlanMembers DEF Works
<1>2. CASE s = "apply-namespace-client-routes"
    BY <1>2, StopPlanMembers DEF Works
<1>3. CASE s = "apply-namespace-kill-switch"
    BY <1>3, StopPlanMembers DEF Works
<1> QED BY <1>1, <1>2, <1>3

\* What an effect has to keep: nothing is said of the engine.
Kept == HostOK' /\ DiskOK' /\ MemoryOK'

LEMMA StartStepKeeps ==
    ASSUME HostOK, DiskOK, MemoryOK, NEW l \in Launchers, StartStep(l)
    PROVE  Kept
<1>1. ASSUME OnlyConfigures(l) PROVE Kept
    BY <1>1 DEF OnlyConfigures, Changes, HostOK, InNamespace, DiskOK, diskVars, MemoryOK,
                memoryVars, observationVars, Kept
<1>2. ASSUME CreateRuntimeRoot(l) PROVE Kept
    BY <1>2 DEF CreateRuntimeRoot, HostOK, InNamespace, DiskOK, MemoryOK, memoryVars,
                observationVars, Kept
<1>3. ASSUME NEW s, NEW new \in Session, Changes(l, s, new), session.netns => new.netns,
             new.routes # "none" => new.wg, new.wg \/ new.killSwitch => new.netns
      PROVE Kept
    BY <1>3, NamesKeepHost DEF Changes, DiskOK, diskVars, MemoryOK, memoryVars, observationVars, Kept
<1>4. ASSUME CreateNetns(l) PROVE Kept
    BY <1>3, <1>4 DEF CreateNetns, HostOK, Session
<1>5. ASSUME CreateVethPair(l) PROVE Kept
    BY <1>3, <1>5 DEF CreateVethPair, HostOK, Session
<1>6. ASSUME ConfigureNamespaceDNS(l) PROVE Kept
    BY <1>3, <1>6 DEF ConfigureNamespaceDNS, HostOK, Session
<1>7. ASSUME CreateWireGuard(l) PROVE Kept
  <2>1. session.netns
      BY <1>7, NeededByStart DEF CreateWireGuard, Changes, Done
  <2> QED BY <1>3, <1>7, <2>1 DEF CreateWireGuard, HostOK, Session
<1>8. ASSUME ApplyClientRoutes(l) PROVE Kept
  <2>1. session.wg
      BY <1>8, NeededByStart DEF ApplyClientRoutes, Changes, Done
  <2> QED BY <1>3, <1>8, <2>1 DEF ApplyClientRoutes, HostOK, Session
<1>9. ASSUME ApplyKillSwitch(l) PROVE Kept
  <2>1. session.netns
      BY <1>9, NeededByStart DEF ApplyKillSwitch, Changes, Done
  <2> QED BY <1>3, <1>9, <2>1 DEF ApplyKillSwitch, Filtered, HostOK, Session
<1>10. ASSUME NEW p \in Pids, StartWSTunnelControl(l, p) PROVE Kept
  <2>1. HostOK'
      BY <1>10, ProcessesKeepHost DEF StartWSTunnelControl, HostOK, Processes, InNamespace
  <2> QED BY <1>10, <2>1 DEF StartWSTunnelControl, DiskOK, diskVars, MemoryOK, observationVars, Kept
<1>11. ASSUME NEW p \in Pids, LaunchApp(l, p) PROVE Kept
  <2>1. HostOK'
      BY <1>11, ProcessesKeepHost DEF LaunchApp, HostOK, Processes, InNamespace
  <2> QED BY <1>11, <2>1 DEF LaunchApp, DiskOK, diskVars, MemoryOK, Kept
<1>12. ASSUME StoreRuntimeState(l) PROVE Kept
    BY <1>12, RecordIsState DEF StoreRuntimeState, HostOK, InNamespace, DiskOK, MemoryOK,
                memoryVars, observationVars, Kept
<1> QED BY <1>1, <1>2, <1>4, <1>5, <1>6, <1>7, <1>8, <1>9, <1>10, <1>11, <1>12 DEF StartStep

LEMMA StopStepKeeps ==
    ASSUME HostOK, DiskOK, MemoryOK, NEW l \in Launchers, StopStep(l)
    PROVE  Kept
<1>1. ASSUME ReadRuntimeState(l) PROVE Kept
    BY <1>1 DEF ReadRuntimeState, HostOK, InNamespace, DiskOK, diskVars, MemoryOK,
                observationVars, Kept
<1>2. ASSUME NEW s, Dependent(l, s), HostOK', abandoned' \in BOOLEAN PROVE Kept
    BY <1>2, RememberKeepsType DEF Dependent, DiskOK, diskVars, MemoryOK, Kept
<1>3. ASSUME StopMonitor(l) PROVE Kept
    BY <1>2, <1>3 DEF StopMonitor, HostOK, InNamespace, MemoryOK
<1>4. ASSUME StopApp(l) PROVE Kept
  <2>1. HostOK'
    <3>1. CASE UNCHANGED process
        BY <1>4, <3>1 DEF StopApp, HostOK, InNamespace
    <3>2. CASE \E others : NamespaceStopped(others)
        BY <1>4, <3>2, StoppingKeepsHost DEF StopApp, NamespaceStopped
    <3> QED BY <1>4, <3>1, <3>2 DEF StopApp
  <2> QED BY <1>2, <1>4, <2>1 DEF StopApp
<1>5. ASSUME NEW s, NEW new \in Session, Removes(l, s, new), session.netns => new.netns,
             new.routes # "none" => new.wg, new.wg \/ new.killSwitch => new.netns
      PROVE Kept
  <2>1. HostOK'
      BY <1>5, NamesKeepHost DEF Removes, HostOK
  <2> QED BY <1>2, <1>5, <2>1 DEF Removes, MemoryOK
<1>6. ASSUME RemoveKillSwitch(l) PROVE Kept
    BY <1>5, <1>6 DEF RemoveKillSwitch, Flushed, HostOK, Session
<1>7. ASSUME RemoveClientRoutes(l) PROVE Kept
    BY <1>5, <1>7 DEF RemoveClientRoutes, HostOK, Session
<1>8. ASSUME RemoveWireGuard(l) PROVE Kept
    BY <1>5, <1>8 DEF RemoveWireGuard, InterfaceDeleted, HostOK, Session
<1>9. ASSUME RemoveNamespaceDNS(l) PROVE Kept
    BY <1>5, <1>9 DEF RemoveNamespaceDNS, HostOK, Session
<1>10. ASSUME StopWSTunnelControl(l) PROVE Kept
  <2>1. HostOK'
      BY <1>10, ProcessesKeepHost DEF StopWSTunnelControl, Stopped, HostOK, Processes, InNamespace
  <2> QED BY <1>2, <1>10, <2>1 DEF StopWSTunnelControl, MemoryOK
<1>11. ASSUME DeleteNetns(l) PROVE Kept
  <2>1. HostOK'
    <3>1. CASE Skipped(l)
        BY <1>11, <3>1 DEF DeleteNetns, HostOK, InNamespace
    <3>2. CASE ~Skipped(l)
        BY <1>11, <3>2, DeletedKeepsHost DEF DeleteNetns
    <3> QED BY <3>1, <3>2
  <2> QED BY <1>2, <1>11, <2>1 DEF DeleteNetns, MemoryOK
<1>12. ASSUME ClearRuntimeState(l) PROVE Kept
  <2>1. DiskOK'
    <3>1. CASE UNCHANGED diskVars
        BY <3>1 DEF DiskOK, diskVars
    <3>2. CASE root' = FALSE /\ store' = Absent
        BY <3>2, AbsentIsState DEF DiskOK, Absent
    <3> QED BY <1>12, <3>1, <3>2 DEF ClearRuntimeState
  <2> QED BY <1>12, <2>1 DEF ClearRuntimeState, HostOK, InNamespace, MemoryOK, memoryVars,
             observationVars, Kept
<1> QED BY <1>1, <1>3, <1>4, <1>6, <1>7, <1>8, <1>9, <1>10, <1>11, <1>12 DEF StopStep

LEMMA CleanupStepKeeps ==
    ASSUME HostOK, DiskOK, MemoryOK, NEW l \in Launchers, CleanupStep(l)
    PROVE  Kept
<1>1. ASSUME NEW s, NEW change, IgnoredOr(l, s, change), change => HostOK', abandoned' \in BOOLEAN
      PROVE Kept
  <2>1. HostOK'
      BY <1>1 DEF IgnoredOr, HostOK, InNamespace
  <2> QED BY <1>1, <2>1 DEF IgnoredOr, DiskOK, diskVars, MemoryOK, memoryVars, Kept
<1>2. ASSUME CleanupProcesses(l) PROVE Kept
  <2>1. NamespaceStopped({}) /\ UNCHANGED session => HostOK'
      BY StoppingKeepsHost DEF NamespaceStopped
  <2> QED BY <1>1, <1>2, <2>1 DEF CleanupProcesses
<1>3. ASSUME CleanupKillSwitch(l) PROVE Kept
  <2>1. session' = Flushed /\ UNCHANGED process => HostOK'
      BY NamesKeepHost DEF Flushed, HostOK, Session
  <2> QED BY <1>1, <1>3, <2>1 DEF CleanupKillSwitch, MemoryOK
<1>4. ASSUME CleanupWireGuard(l) PROVE Kept
  <2>1. session' = InterfaceDeleted /\ UNCHANGED process => HostOK'
      BY NamesKeepHost DEF InterfaceDeleted, HostOK, Session
  <2> QED BY <1>1, <1>4, <2>1 DEF CleanupWireGuard, MemoryOK
<1>5. ASSUME CleanupNetns(l) PROVE Kept
  <2>1. ASSUME NEW veth \in {"none"} \cup (IF "cleanup-netns" \in Breaks THEN {session.veth} ELSE {})
        PROVE  /\ NetnsDeleted(veth) => HostOK'
               /\ ~session.netns /\ session' = [session EXCEPT !.veth = veth] /\ UNCHANGED process => HostOK'
    <3>1. veth \in {"none", "host", "moved"}
        BY <2>1 DEF HostOK, Session
    <3>2. NetnsDeleted(veth) => HostOK'
        BY <3>1, DeletedKeepsHost
    <3>3. ~session.netns /\ session' = [session EXCEPT !.veth = veth] /\ UNCHANGED process => HostOK'
        BY <3>1, NamesKeepHost DEF HostOK, Session
    <3> QED BY <3>2, <3>3
  <2> QED BY <1>1, <1>5, <2>1 DEF CleanupNetns, MemoryOK
<1>6. ASSUME CleanupDNS(l) PROVE Kept
  <2>1. HostOK'
      BY <1>6, NamesKeepHost DEF CleanupDNS, Changes, HostOK, Session
  <2> QED BY <1>6, <2>1 DEF CleanupDNS, Changes, DiskOK, diskVars, MemoryOK, memoryVars,
             observationVars, Kept
<1>7. ASSUME CleanupRuntimeRoot(l) PROVE Kept
    BY <1>7, AbsentIsState DEF CleanupRuntimeRoot, HostOK, InNamespace, DiskOK, Absent,
                MemoryOK, memoryVars, observationVars, Kept
<1> QED BY <1>2, <1>3, <1>4, <1>5, <1>6, <1>7 DEF CleanupStep

\* A directory half removed is one without its record, or with it.
LEMMA PartlyRemovedKeeps ==
    ASSUME DiskOK, RootPartlyRemoved
    PROVE  DiskOK'
BY AbsentIsState DEF RootPartlyRemoved, DiskOK, Absent

LEMMA UndoStepKeeps ==
    ASSUME HostOK, DiskOK, MemoryOK, NEW l \in Launchers, UndoStep(l)
    PROVE  Kept
<1>1. ASSUME UNCHANGED <<diskVars, memoryVars, observationVars>>, HostOK' PROVE Kept
    BY <1>1 DEF DiskOK, diskVars, MemoryOK, memoryVars, observationVars, Kept
<1>2. ASSUME UndoNothing(l) PROVE Kept
    BY <1>1, <1>2 DEF UndoNothing, HostOK, InNamespace
<1>3. ASSUME UndoRuntimeRoot(l) PROVE Kept
  <2>1. DiskOK'
    <3>1. CASE root' = FALSE /\ store' = Absent
        BY <3>1, AbsentIsState DEF DiskOK, Absent
    <3>2. CASE RootPartlyRemoved
        BY <3>2, PartlyRemovedKeeps
    <3> QED BY <1>3, <3>1, <3>2 DEF UndoRuntimeRoot
  <2> QED BY <1>3, <2>1 DEF UndoRuntimeRoot, HostOK, InNamespace, MemoryOK, memoryVars,
             observationVars, Kept
<1>4. ASSUME UndoNetns(l) PROVE Kept
  <2>1. HostOK'
    <3>1. CASE NetnsDeleted(session.veth)
        BY <3>1, DeletedKeepsHost DEF HostOK, Session
    <3>2. CASE UNCHANGED <<session, process>>
        BY <3>2 DEF HostOK, InNamespace
    <3> QED BY <1>4, <3>1, <3>2 DEF UndoNetns
  <2> QED BY <1>1, <1>4, <2>1 DEF UndoNetns
<1>5. ASSUME NEW s, NEW there, NEW new \in Session, Undoes(l, s, there, new), session.netns => new.netns,
             new.routes # "none" => new.wg, new.wg \/ new.killSwitch => new.netns
      PROVE Kept
  <2>1. HostOK'
      BY <1>5, NamesKeepHost DEF Undoes, HostOK
  <2> QED BY <1>1, <1>5, <2>1 DEF Undoes
<1>6. ASSUME NEW s \in applied[l], UndoVeth(l, s) PROVE Kept
    BY <1>5, <1>6 DEF UndoVeth, HostOK, Session
<1>7. ASSUME NEW s \in applied[l], UndoWireGuard(l, s) PROVE Kept
    BY <1>5, <1>7 DEF UndoWireGuard, InterfaceDeleted, HostOK, Session
<1>8. ASSUME UndoDNS(l) PROVE Kept
    BY <1>5, <1>8 DEF UndoDNS, HostOK, Session
<1>9. ASSUME UndoClientRoutes(l) PROVE Kept
  <2>1. session' \in Session /\ session'.netns = session.netns /\ session'.wg = session.wg
        /\ session'.killSwitch = session.killSwitch /\ (session'.routes # "none" => session.routes # "none")
      BY <1>9 DEF UndoClientRoutes, SomeRoutesLeft, HostOK, Session
  <2>2. HostOK'
      BY <1>9, <2>1, NamesKeepHost DEF UndoClientRoutes, HostOK
  <2> QED BY <1>1, <1>9, <2>2 DEF UndoClientRoutes
<1>10. ASSUME UndoKillSwitch(l) PROVE Kept
    BY <1>5, <1>10 DEF UndoKillSwitch, Flushed, HostOK, Session
<1>11. ASSUME NEW s, NEW pid, NEW kinds, UndoProcess(l, s, pid, kinds), abandoned' \in BOOLEAN PROVE Kept
  <2>1. HostOK'
      BY <1>11, ProcessesKeepHost DEF UndoProcess, Stopped, HostOK, Processes, InNamespace
  <2> QED BY <1>11, <2>1 DEF UndoProcess, DiskOK, diskVars, MemoryOK, memoryVars, Kept
<1>12. ASSUME UndoWSTunnel(l) PROVE Kept
    BY <1>11, <1>12 DEF UndoWSTunnel, MemoryOK
<1>13. ASSUME UndoLaunch(l) PROVE Kept
    BY <1>11, <1>13 DEF UndoLaunch
<1> QED BY <1>2, <1>3, <1>4, <1>6, <1>7, <1>8, <1>9, <1>10, <1>12, <1>13 DEF UndoStep

\* Whatever part of a step was done leaves a host and a record that are of a kind.
LEMMA InterruptedKeeps ==
    ASSUME HostOK, DiskOK, MemoryOK, NEW l \in Launchers, NEW s, Interrupted(l, s)
    PROVE  HostOK' /\ DiskOK'
<1>1. ASSUME session' \in Session, UNCHANGED process, session'.netns = session.netns,
             session'.wg = session.wg, session'.killSwitch = session.killSwitch,
             session'.routes # "none" => session.wg
      PROVE  HostOK'
    BY <1>1, NamesKeepHost DEF HostOK
<1>2. ASSUME UNCHANGED diskVars PROVE DiskOK'
    BY <1>2 DEF DiskOK, diskVars
<1>3. CASE s = "create-veth-pair"
    BY <1>1, <1>2, <1>3 DEF Interrupted, HostOK, Session
<1>4. CASE s = "configure-namespace-dns"
    BY <1>1, <1>2, <1>4 DEF Interrupted, HostOK, Session
<1>5. CASE s = "apply-namespace-client-routes" /\ session.wg
    BY <1>1, <1>2, <1>5 DEF Interrupted, HostOK, Session
<1>6. CASE s = "store-isolated-runtime-state"
  <2>1. store' \in {store, Torn, RecordOf(l)} /\ root' = TRUE /\ UNCHANGED <<session, process>>
      BY <1>6 DEF Interrupted
  <2> QED BY <2>1, AbsentIsState, RecordIsState DEF HostOK, InNamespace, DiskOK
<1>7. CASE s = "stop-isolated-app" /\ Known(l).file = "whole"
  <2>1. UNCHANGED <<session, diskVars>>
        /\ \E some : process' = [p \in Pids |-> IF p \in some THEN "free" ELSE process[p]]
      BY <1>7 DEF Interrupted
  <2> QED BY <1>2, <2>1, StoppingKeepsHost
<1>8. CASE s = "remove-namespace-client-routes" /\ Known(l).file = "whole"
  <2>1. PICK left \in SomeRoutesLeft \cup (IF session.routes = "part" THEN {"none"} ELSE {}) :
            session' = [session EXCEPT !.routes = left]
      BY <1>8 DEF Interrupted
  <2>2. left \in {"none", "part", "all"} /\ (left # "none" => session.wg)
      BY <2>1 DEF SomeRoutesLeft, HostOK, Session
  <2>3. UNCHANGED <<process, diskVars>>
      BY <1>8 DEF Interrupted
  <2> QED BY <1>1, <1>2, <2>1, <2>2, <2>3 DEF HostOK, Session
<1>9. CASE s \in {"delete-netns", "cleanup-netns"}
  <2>1. CASE session' \in {session, [session EXCEPT !.veth = "none"]} /\ UNCHANGED <<process, diskVars>>
      BY <1>1, <1>2, <2>1 DEF HostOK, Session
  <2>2. CASE UNCHANGED <<session, process, diskVars>>
      BY <1>1, <1>2, <2>2 DEF HostOK
  <2> QED BY <1>9, <2>1, <2>2 DEF Interrupted
<1>10. CASE s = "clear-isolated-runtime-state"
  <2>1. UNCHANGED <<session, process, root>> /\ store' \in {store, Absent}
      BY <1>10 DEF Interrupted, diskVars
  <2> QED BY <2>1, AbsentIsState DEF HostOK, InNamespace, DiskOK, Absent
<1>11. CASE s = "cleanup-isolated-processes"
  <2>1. UNCHANGED <<session, diskVars>>
        /\ \E some : process' = [p \in Pids |-> IF p \in some THEN "free" ELSE process[p]]
      BY <1>11 DEF Interrupted
  <2> QED BY <1>2, <2>1, StoppingKeepsHost
<1>12. CASE UNCHANGED <<session, process, diskVars>>
    BY <1>1, <1>2, <1>12 DEF HostOK
<1>13. CASE s = "cleanup-isolated-runtime-root"
  <2>1. RootPartlyRemoved /\ UNCHANGED <<session, process>>
      BY <1>13 DEF Interrupted
  <2> QED BY <2>1, PartlyRemovedKeeps DEF HostOK, InNamespace
<1> QED BY <1>3, <1>4, <1>5, <1>6, <1>7, <1>8, <1>9, <1>10, <1>11, <1>12, <1>13 DEF Interrupted

\* So does a rollback that is not finished,
LEMMA UndoInterruptedKeeps ==
    ASSUME HostOK, DiskOK, NEW l, UndoInterrupted(l)
    PROVE  HostOK' /\ DiskOK'
<1>1. CASE RootPartlyRemoved /\ UNCHANGED <<session, process>>
    BY <1>1, PartlyRemovedKeeps DEF HostOK, InNamespace
<1>2. CASE /\ \E left \in SomeRoutesLeft : session' = [session EXCEPT !.routes = left]
           /\ UNCHANGED <<process, diskVars>>
  <2>1. PICK left \in SomeRoutesLeft : session' = [session EXCEPT !.routes = left]
      BY <1>2
  <2>2. left \in {"none", "part", "all"} /\ (left # "none" => session.wg)
      BY <2>1 DEF SomeRoutesLeft, HostOK, Session
  <2>3. DiskOK'
      BY <1>2 DEF DiskOK, diskVars
  <2> QED BY <1>2, <2>1, <2>2, <2>3, NamesKeepHost DEF HostOK, Session
<1> QED BY <1>1, <1>2 DEF UndoInterrupted

\* the death of a process, wherever it is,
LEMMA DeathKeeps ==
    ASSUME HostOK, DiskOK, MemoryOK, NEW l \in Launchers, DiesInside(l)
    PROVE  HostOK' /\ DiskOK'
<1>1. CASE UNCHANGED <<session, process, diskVars>>
    BY <1>1 DEF HostOK, InNamespace, DiskOK, diskVars
<1>2. CASE \E s \in plan[l] : Interrupted(l, s)
    BY <1>2, InterruptedKeeps
<1> QED BY <1>1, <1>2, UndoInterruptedKeeps DEF DiesInside

\* a step that fails,
LEMMA FailureKeeps ==
    ASSUME HostOK, DiskOK, MemoryOK, NEW l \in Launchers, NEW s, StepFails(l, s)
    PROVE  Kept
<1>1. HostOK' /\ DiskOK'
    BY InterruptedKeeps DEF StepFails
<1>2. seen' \in [Launchers -> StateFile \cup {Unread}]
    BY RememberKeepsType DEF StepFails, MemoryOK
<1> QED BY <1>1, <1>2 DEF StepFails, MemoryOK, Kept

\* the death of a launcher,
LEMMA KillKeeps ==
    ASSUME HostOK, DiskOK, MemoryOK, NEW l \in Launchers, Kill(l)
    PROVE  Kept
<1>1. HostOK' /\ DiskOK'
    BY DeathKeeps DEF Kill
<1>2. disclosed' \in BOOLEAN /\ abandoned' \in BOOLEAN
    BY DEF Kill
<1> QED BY <1>1, <1>2 DEF Kill, MemoryOK, Watching, Kept

\* and whatever the processes of the session do.
LEMMA EnvironmentKeeps ==
    ASSUME HostOK, DiskOK, MemoryOK, Environment
    PROVE  Kept
<1>1. HostOK'
  <2>1. ASSUME NEW p \in Pids, AppExecs(p) PROVE HostOK'
      BY <2>1, ProcessesKeepHost DEF AppExecs, HostOK, Processes, InNamespace
  <2>2. ASSUME NEW p \in Pids, Exits(p) PROVE HostOK'
      BY <2>2 DEF Exits, VethAfter, HostOK, Session, Processes, InNamespace
  <2>3. ASSUME NEW p \in Pids, NEW q \in Pids, AppForks(p, q) PROVE HostOK'
      BY <2>3, ProcessesKeepHost DEF AppForks, HostOK, Processes, InNamespace
  <2> QED BY <2>1, <2>2, <2>3 DEF Environment
<1>2. UNCHANGED <<diskVars, memoryVars, observationVars>>
    BY DEF Environment, AppExecs, Exits, AppForks
<1> QED BY <1>1, <1>2 DEF DiskOK, diskVars, MemoryOK, memoryVars, observationVars, Kept

\* A step of a run keeps every type.
LEMMA StepKeeps ==
    ASSUME HostOK, DiskOK, MemoryOK, NEW l \in Launchers, Step(l)
    PROVE  Kept
BY StartStepKeeps, StopStepKeeps, CleanupStepKeeps, UndoStepKeeps, FailureKeeps DEF Step

LEMMA HostTypeStep ==
    ASSUME HostOK, DiskOK, MemoryOK, [Next]_vars
    PROVE  Kept
<1>1. ASSUME NEW l \in Launchers, NEW kind, NEW steps, Begins(l, kind, steps) PROVE Kept
    BY <1>1 DEF Begins, HostOK, InNamespace, DiskOK, diskVars, MemoryOK, observationVars, Kept
<1>2. ASSUME NEW l \in Launchers, Return(l) PROVE Kept
    BY <1>2 DEF Return, Finishes, HostOK, InNamespace, DiskOK, diskVars, MemoryOK, Kept
<1>3. CASE UNCHANGED vars
    BY <1>3 DEF vars, HostOK, InNamespace, DiskOK, diskVars, MemoryOK, memoryVars, observationVars, Kept
<1> QED
    BY <1>1, <1>2, <1>3, StepKeeps, KillKeeps, EnvironmentKeeps
       DEF Next, StartIsolatedApp, StopIsolatedApp, CleanupIsolatedApp

LEMMA TypeInit == Init => HostOK /\ DiskOK /\ MemoryOK
<1> SUFFICES ASSUME Init PROVE HostOK /\ DiskOK /\ MemoryOK
    OBVIOUS
<1>1. HostOK
    BY DEF Init, NoSession, HostOK, Session, Processes, InNamespace
<1>2. DiskOK
    BY AbsentIsState DEF Init, DiskOK, Absent
<1>3. MemoryOK
    BY DEF Init, MemoryOK, Watching
<1> QED BY <1>1, <1>2, <1>3

\* Every variable keeps its type, for any number of launchers and PIDs and
\* whatever fails; client routes need the interface, and the interface, the kill
\* switch and what runs in the namespace need its name.
THEOREM TypeCorrect == Spec => []TypeOK
<1>1. HostOK /\ DiskOK /\ MemoryOK /\ [Next]_vars => (HostOK /\ DiskOK /\ MemoryOK)'
    BY HostTypeStep DEF Kept
<1>2. EngineInv => Engine!TypeOK
    BY DEF EngineInv
<1> QED BY <1>1, <1>2, TypeInit, EngineInvHolds, TypeOKParts, PTL DEF Spec

-------------------------------------------------------------------------------
\* The application fails closed: however the runs of one launcher at a time fail,
\* are killed and follow each other, it has no way out of its namespace without
\* the kill switch, for any number of processes and any steps that can break.

NoApp == \A p \in Pids : process[p] \notin {"starting", "app", "child"}

\* What a start knows from what it has attempted, applied and undone.
StartInv(l) ==
    mode[l] \in {"connect", "rollback"} =>
        /\ plan[l] = StartSteps
        /\ mode[l] = "connect" /\ "apply-namespace-kill-switch" \in applied[l] => session.killSwitch
        /\ "apply-namespace-kill-switch" \in attempted[l] => "create-netns" \in applied[l]
        /\ "create-netns" \in applied[l] /\ "launch-app-in-netns" \notin applied[l]
              => abandoned \/ NoApp
        /\ "launch-app-in-netns" \in undone[l] => abandoned

\* What a stop or a cleanup knows.
StopInv(l) ==
    mode[l] = "disconnect" =>
        /\ plan[l] \in {StopSteps, CleanupSteps}
        /\ "stop-isolated-app" \in attempted[l] => abandoned \/ Skipped(l)
        /\ "cleanup-isolated-processes" \in attempted[l] => abandoned

\* The kill switch outlives the application: what FailClosed says, without the
\* way out and before "ip netns exec" has become the application, and what keeps
\* it so.
SafeInv ==
    /\ abandoned \/ NoApp \/ session.killSwitch
    /\ \A l \in Launchers : StartInv(l) /\ StopInv(l)

-------------------------------------------------------------------------------
\* The order of the steps that matter

LEMMA PlaceIs ==
    ASSUME NEW s, NEW n \in 1..15,
           \E list \in {StartPlan, StopPlan, CleanupPlan} : n \in DOMAIN list /\ list[n] = s,
           \A i \in 1..15 : \A list \in {StartPlan, StopPlan, CleanupPlan} :
               i \in DOMAIN list /\ list[i] = s => i = n
    PROVE  Place(s) = n
BY StartPlanMembers DEF Place

\* Where the three plans have them.
LEMMA Places ==
    /\ Place("create-netns") = 3
    /\ Place("apply-namespace-kill-switch") = 13
    /\ Place("launch-app-in-netns") = 14
    /\ Place("read-isolated-runtime-state") = 1
    /\ Place("stop-isolated-app") = 3
    /\ Place("remove-namespace-kill-switch") = 4
    /\ Place("delete-netns") = 9
    /\ Place("cleanup-isolated-processes") = 1
    /\ Place("cleanup-namespace-kill-switch") = 2
    /\ Place("cleanup-netns") = 4
<1>1. Place("create-netns") = 3
    BY PlaceIs DEF StartPlan, StopPlan, CleanupPlan
<1>2. Place("apply-namespace-kill-switch") = 13
    BY PlaceIs DEF StartPlan, StopPlan, CleanupPlan
<1>3. Place("launch-app-in-netns") = 14
    BY PlaceIs DEF StartPlan, StopPlan, CleanupPlan
<1>4. Place("read-isolated-runtime-state") = 1
    BY PlaceIs DEF StartPlan, StopPlan, CleanupPlan
<1>5. Place("stop-isolated-app") = 3
    BY PlaceIs DEF StartPlan, StopPlan, CleanupPlan
<1>6. Place("remove-namespace-kill-switch") = 4
    BY PlaceIs DEF StartPlan, StopPlan, CleanupPlan
<1>7. Place("delete-netns") = 9
    BY PlaceIs DEF StartPlan, StopPlan, CleanupPlan
<1>8. Place("cleanup-isolated-processes") = 1
    BY PlaceIs DEF StartPlan, StopPlan, CleanupPlan
<1>9. Place("cleanup-namespace-kill-switch") = 2
    BY PlaceIs DEF StartPlan, StopPlan, CleanupPlan
<1>10. Place("cleanup-netns") = 4
    BY PlaceIs DEF StartPlan, StopPlan, CleanupPlan
<1> QED BY <1>1, <1>2, <1>3, <1>4, <1>5, <1>6, <1>7, <1>8, <1>9, <1>10

\* The namespace, the kill switch, the application: made in this order; and
\* what ends the application comes before what opens its way out.
LEMMA RankFacts ==
    /\ Rank["create-netns"] < Rank["apply-namespace-kill-switch"]
    /\ Rank["create-netns"] < Rank["launch-app-in-netns"]
    /\ Rank["apply-namespace-kill-switch"] < Rank["launch-app-in-netns"]
    /\ Rank["read-isolated-runtime-state"] < Rank["stop-isolated-app"]
    /\ Rank["stop-isolated-app"] < Rank["remove-namespace-kill-switch"]
    /\ Rank["stop-isolated-app"] < Rank["delete-netns"]
    /\ Rank["cleanup-isolated-processes"] < Rank["cleanup-namespace-kill-switch"]
    /\ Rank["cleanup-isolated-processes"] < Rank["cleanup-netns"]
<1>1. \A s \in Steps : Rank[s] = Place(s)
    BY DEF Rank
<1> QED BY <1>1, InSteps, Places

LEMMA RecordPlaces ==
    /\ Place("create-isolated-runtime-root") = 2
    /\ Place("start-wstunnel-control") = 8
    /\ Place("store-isolated-runtime-state") = 15
<1>1. Place("create-isolated-runtime-root") = 2
    BY PlaceIs DEF StartPlan, StopPlan, CleanupPlan
<1>2. Place("start-wstunnel-control") = 8
    BY PlaceIs DEF StartPlan, StopPlan, CleanupPlan
<1>3. Place("store-isolated-runtime-state") = 15
    BY PlaceIs DEF StartPlan, StopPlan, CleanupPlan
<1> QED BY <1>1, <1>2, <1>3

\* The record is looked for first and stored last; a stop reads it before
\* anything it removes.
LEMMA RecordRanks ==
    /\ \A s \in StartSteps \ {"validate-linux-prerequisites", "create-isolated-runtime-root"} :
          Rank["create-isolated-runtime-root"] < Rank[s]
    /\ Rank["start-wstunnel-control"] < Rank["store-isolated-runtime-state"]
    /\ Rank["launch-app-in-netns"] < Rank["store-isolated-runtime-state"]
    /\ \A s \in StartSteps \ {"store-isolated-runtime-state"} :
          Rank[s] < Rank["store-isolated-runtime-state"]
    /\ \A s \in StopSteps \ {"read-isolated-runtime-state"} :
          Rank["read-isolated-runtime-state"] < Rank[s]
<1>1. \A s \in Steps : Rank[s] = Place(s)
    BY DEF Rank
<1>2. ASSUME NEW s \in StartSteps \ {"validate-linux-prerequisites", "create-isolated-runtime-root"}
      PROVE  Place(s) > 2
  <2>1. PICK i \in 3..15 : StartPlan[i] = s
      BY <1>2 DEF StartSteps, Members, StartPlan
  <2>2. \A j \in 1..15 : \A list \in {StartPlan, StopPlan, CleanupPlan} :
            j \in DOMAIN list /\ list[j] = s => j = i
      BY <2>1 DEF StartPlan, StopPlan, CleanupPlan
  <2> QED BY <2>1, <2>2, PlaceIs, StartPlanMembers
<1>3. ASSUME NEW s \in StopSteps \ {"read-isolated-runtime-state"}
      PROVE  Place(s) > 1
  <2>1. PICK i \in 2..10 : StopPlan[i] = s
      BY <1>3 DEF StopSteps, Members, StopPlan
  <2>2. \A j \in 1..15 : \A list \in {StartPlan, StopPlan, CleanupPlan} :
            j \in DOMAIN list /\ list[j] = s => j = i
      BY <2>1 DEF StartPlan, StopPlan, CleanupPlan
  <2> QED BY <2>1, <2>2, PlaceIs, StopPlanMembers
<1>4. ASSUME NEW s \in StartSteps \ {"store-isolated-runtime-state"}
      PROVE  Place(s) < 15
  <2>1. PICK i \in 1..14 : StartPlan[i] = s
      BY <1>4 DEF StartSteps, Members, StartPlan
  <2>2. \A j \in 1..15 : \A list \in {StartPlan, StopPlan, CleanupPlan} :
            j \in DOMAIN list /\ list[j] = s => j = i
      BY <2>1 DEF StartPlan, StopPlan, CleanupPlan
  <2> QED BY <2>1, <2>2, PlaceIs, StartPlanMembers
<1> QED BY <1>1, <1>2, <1>3, <1>4, InSteps, Places, RecordPlaces

\* The root, the namespace, the veth pair, its host end: then the others.
LEMMA AccountRanks ==
    /\ \A s \in Steps : Rank[s] \in Nat
    /\ Rank["create-isolated-runtime-root"] < Rank["create-veth-pair"]
    /\ Rank["create-netns"] < Rank["create-veth-pair"]
    /\ Rank["create-veth-pair"] < Rank["configure-host-veth"]
    /\ \A s \in StartSteps \ {"validate-linux-prerequisites", "create-isolated-runtime-root",
                              "create-netns", "create-veth-pair", "configure-host-veth"} :
          Rank["configure-host-veth"] < Rank[s]
<1>1. \A s \in Steps : Rank[s] = Place(s)
    BY DEF Rank
<1>2. Place("create-veth-pair") = 4
    BY PlaceIs DEF StartPlan, StopPlan, CleanupPlan
<1>3. Place("configure-host-veth") = 5
    BY PlaceIs DEF StartPlan, StopPlan, CleanupPlan
<1>4. ASSUME NEW s \in StartSteps \ {"validate-linux-prerequisites", "create-isolated-runtime-root",
                                     "create-netns", "create-veth-pair", "configure-host-veth"}
      PROVE  Place(s) > 5
  <2>1. PICK i \in 6..15 : StartPlan[i] = s
      BY <1>4 DEF StartSteps, Members, StartPlan
  <2>2. \A j \in 1..15 : \A list \in {StartPlan, StopPlan, CleanupPlan} :
            j \in DOMAIN list /\ list[j] = s => j = i
      BY <2>1 DEF StartPlan, StopPlan, CleanupPlan
  <2> QED BY <2>1, <2>2, PlaceIs, StartPlanMembers
<1> QED BY <1>1, <1>2, <1>3, <1>4, InSteps, Places, RecordPlaces, PlaceIsNatural

-------------------------------------------------------------------------------
\* The steps

\* A step of a plan is taken by a run of that plan only.
LEMMA PlanOfStep ==
    ASSUME EngineInv, SafeInv, NEW l \in Launchers, NEW s, Engine!Ready(l, s)
    PROVE  /\ s \in StartSteps => mode[l] = "connect" /\ plan[l] = StartSteps
           /\ s \in StopSteps => mode[l] = "disconnect" /\ plan[l] = StopSteps
           /\ s \in CleanupSteps => mode[l] = "disconnect" /\ plan[l] = CleanupSteps
<1>1. mode[l] \in {"connect", "disconnect"} /\ s \in plan[l]
    BY DEF Engine!Ready
<1>2. plan[l] = StartSteps \/ (mode[l] = "disconnect" /\ plan[l] \in {StopSteps, CleanupSteps})
    BY <1>1 DEF SafeInv, StartInv, StopInv
<1>3. StartSteps \cap (StopSteps \cup CleanupSteps) = {} /\ StopSteps \cap CleanupSteps = {}
    BY StartPlanMembers, StopPlanMembers, CleanupPlanMembers
<1>4. mode[l] = "connect" => plan[l] = StartSteps
    BY DEF SafeInv, StartInv
<1>5. mode[l] = "disconnect" => plan[l] \in {StopSteps, CleanupSteps}
    BY DEF SafeInv, StopInv
<1> QED BY <1>1, <1>2, <1>3, <1>4, <1>5

\* What a connecting run has attempted it has applied.
LEMMA AttemptedIsApplied ==
    ASSUME EngineInv, NEW l \in Launchers, mode[l] = "connect"
    PROVE  attempted[l] = applied[l] /\ undone[l] = {}
BY DEF EngineInv, Engine!Bookkeeping, Engine!TypeOK

\* A step that comes earlier in the plan was attempted before.
LEMMA EarlierAttempted ==
    ASSUME EngineInv, NEW l \in Launchers, NEW s, Engine!Ready(l, s),
           NEW t \in plan[l], Rank[t] < Rank[s]
    PROVE  t \in attempted[l]
<1>1. Rank[t] \in Nat /\ Rank[s] \in Nat
    BY PlaceIsNatural DEF EngineInv, Engine!TypeOK, Engine!Ready, Rank
<1> QED BY <1>1 DEF Engine!Ready

\* An apply of a start that succeeded.
LEMMA AppliedKeepsSafe ==
    ASSUME EngineInv, SafeInv, NEW only, Launchers = {only}, NEW s \in StartSteps,
           Engine!ApplyOk(only, s),
           abandoned' \/ NoApp' \/ session'.killSwitch,
           session.killSwitch \/ s = "apply-namespace-kill-switch" => session'.killSwitch,
           s # "launch-app-in-netns" => (abandoned \/ NoApp => abandoned' \/ NoApp'),
           s = "create-netns" => abandoned \/ NoApp
    PROVE  SafeInv'
<1>1. mode[only] = "connect" /\ plan[only] = StartSteps
    BY PlanOfStep DEF Engine!ApplyOk
<1>2. attempted[only] = applied[only] /\ undone[only] = {}
    BY <1>1, AttemptedIsApplied
<1>3. /\ mode' = mode /\ plan' = plan /\ undone' = undone
      /\ attempted'[only] = attempted[only] \cup {s} /\ applied'[only] = applied[only] \cup {s}
    BY DEF Engine!ApplyOk, EngineInv, Engine!TypeOK
<1>4. "apply-namespace-kill-switch" \in attempted'[only] => "create-netns" \in applied'[only]
  <2>1. CASE s = "apply-namespace-kill-switch"
      BY <1>1, <1>2, <1>3, <2>1, EarlierAttempted, RankFacts, StartPlanMembers DEF Engine!ApplyOk
  <2>2. CASE s # "apply-namespace-kill-switch"
      BY <1>1, <1>3, <2>2 DEF SafeInv, StartInv
  <2> QED BY <2>1, <2>2
<1>5. "create-netns" \in applied'[only] /\ "launch-app-in-netns" \notin applied'[only]
         => abandoned' \/ NoApp'
    BY <1>1, <1>3 DEF SafeInv, StartInv
<1>6. "apply-namespace-kill-switch" \in applied'[only] => session'.killSwitch
    BY <1>1, <1>3 DEF SafeInv, StartInv
<1> QED BY <1>1, <1>2, <1>3, <1>4, <1>5, <1>6 DEF SafeInv, StartInv, StopInv

LEMMA StartStepIsSafe ==
    ASSUME EngineInv, HostOK, SafeInv, NEW only, Launchers = {only}, StartStep(only)
    PROVE  SafeInv'
<1>1. ASSUME NEW s \in StartSteps, NEW new, Changes(only, s, new), new.killSwitch = session.killSwitch,
             s \notin {"create-netns", "apply-namespace-kill-switch", "launch-app-in-netns"}
      PROVE  SafeInv'
    BY <1>1, AppliedKeepsSafe DEF Changes, Done, observationVars, NoApp, SafeInv
<1>2. ASSUME OnlyConfigures(only) PROVE SafeInv'
    BY <1>1, <1>2, StartPlanMembers DEF OnlyConfigures
<1>3. ASSUME CreateRuntimeRoot(only) PROVE SafeInv'
    BY <1>3, AppliedKeepsSafe, StartPlanMembers DEF CreateRuntimeRoot, Done, observationVars, NoApp, SafeInv
<1>4. ASSUME CreateNetns(only) PROVE SafeInv'
  <2>1. ~session.netns
      BY <1>4, StopPlanMembers DEF CreateNetns, Changes, Done, Works
  <2>2. abandoned \/ NoApp
      BY <2>1 DEF HostOK, SafeInv
  <2> QED BY <1>4, <2>2, AppliedKeepsSafe, StartPlanMembers
             DEF CreateNetns, Changes, Done, observationVars, NoApp, HostOK, Session
<1>5. ASSUME CreateVethPair(only) PROVE SafeInv'
    BY <1>1, <1>5, StartPlanMembers DEF CreateVethPair, HostOK, Session
<1>6. ASSUME ConfigureNamespaceDNS(only) PROVE SafeInv'
    BY <1>1, <1>6, StartPlanMembers DEF ConfigureNamespaceDNS, HostOK, Session
<1>7. ASSUME CreateWireGuard(only) PROVE SafeInv'
    BY <1>1, <1>7, StartPlanMembers DEF CreateWireGuard, HostOK, Session
<1>8. ASSUME ApplyClientRoutes(only) PROVE SafeInv'
    BY <1>1, <1>8, StartPlanMembers DEF ApplyClientRoutes, HostOK, Session
<1>9. ASSUME ApplyKillSwitch(only) PROVE SafeInv'
    BY <1>9, AppliedKeepsSafe, StartPlanMembers
       DEF ApplyKillSwitch, Filtered, Changes, Done, observationVars, NoApp, HostOK, Session
<1>10. ASSUME NEW p \in Pids, StartWSTunnelControl(only, p) PROVE SafeInv'
  <2>1. NoApp => NoApp'
      BY <1>10 DEF StartWSTunnelControl, NoApp, HostOK
  <2> QED BY <1>10, <2>1, AppliedKeepsSafe, StartPlanMembers
             DEF StartWSTunnelControl, Done, observationVars, SafeInv
<1>11. ASSUME NEW p \in Pids, LaunchApp(only, p) PROVE SafeInv'
  <2>1. Engine!ApplyOk(only, "launch-app-in-netns") /\ session' = session
      BY <1>11 DEF LaunchApp, Done
  <2>2. mode[only] = "connect" /\ plan[only] = StartSteps
      BY <2>1, PlanOfStep, StartPlanMembers DEF Engine!ApplyOk
  <2>3. "apply-namespace-kill-switch" \in applied[only]
      BY <2>1, <2>2, EarlierAttempted, AttemptedIsApplied, RankFacts, StartPlanMembers DEF Engine!ApplyOk
  <2>4. session.killSwitch
      BY <2>2, <2>3 DEF SafeInv, StartInv
  <2> QED BY <2>1, <2>4, AppliedKeepsSafe, StartPlanMembers
<1>12. ASSUME StoreRuntimeState(only) PROVE SafeInv'
    BY <1>12, AppliedKeepsSafe, StartPlanMembers DEF StoreRuntimeState, Done, observationVars, NoApp, SafeInv
<1> QED BY <1>2, <1>3, <1>4, <1>5, <1>6, <1>7, <1>8, <1>9, <1>10, <1>11, <1>12 DEF StartStep

\* A stop that was skipped stays skipped.
LEMMA RememberKeepsSkipped ==
    ASSUME MemoryOK, NEW l \in Launchers, Remember(l), Skipped(l)
    PROVE  Skipped(l)'
BY DEF MemoryOK, Remember, Skipped, Known

\* An apply of a stop or a cleanup that succeeded.
LEMMA StoppedKeepsSafe ==
    ASSUME EngineInv, SafeInv, NEW only, Launchers = {only}, NEW s \in StopSteps \cup CleanupSteps,
           Engine!ApplyOk(only, s),
           abandoned' \/ NoApp' \/ session'.killSwitch,
           abandoned => abandoned',
           Skipped(only) => Skipped(only)' \/ s = "read-isolated-runtime-state",
           s = "stop-isolated-app" => abandoned' \/ Skipped(only)',
           s = "cleanup-isolated-processes" => abandoned'
    PROVE  SafeInv'
<1>1. mode[only] = "disconnect" /\ plan[only] \in {StopSteps, CleanupSteps}
    BY PlanOfStep DEF Engine!ApplyOk
<1>2. /\ mode' = mode /\ plan' = plan
      /\ attempted'[only] = attempted[only] \cup {s}
    BY DEF Engine!ApplyOk, EngineInv, Engine!TypeOK
<1>3. s = "read-isolated-runtime-state" => "stop-isolated-app" \notin attempted'[only]
    BY <1>2, RankFacts, StopPlanMembers, PlanOfStep
       DEF EngineInv, Engine!InPlanOrder, Engine!ApplyOk, Engine!Ready
<1> QED BY <1>1, <1>2, <1>3 DEF SafeInv, StartInv, StopInv

\* When a stop comes to opening the way out, it has turned to the application.
LEMMA StopTurnedToApp ==
    ASSUME EngineInv, SafeInv, NEW l \in Launchers,
           NEW s \in {"remove-namespace-kill-switch", "delete-netns"}, Engine!Ready(l, s)
    PROVE  abandoned \/ Skipped(l)
BY PlanOfStep, EarlierAttempted, RankFacts, StopPlanMembers DEF SafeInv, StopInv

\* So has a cleanup.
LEMMA CleanupTurnedToApp ==
    ASSUME EngineInv, SafeInv, NEW l \in Launchers,
           NEW s \in {"cleanup-namespace-kill-switch", "cleanup-netns"}, Engine!Ready(l, s)
    PROVE  abandoned
BY PlanOfStep, EarlierAttempted, RankFacts, CleanupPlanMembers DEF SafeInv, StopInv

LEMMA StopStepIsSafe ==
    ASSUME EngineInv, HostOK, MemoryOK, SafeInv, NEW only, Launchers = {only}, StopStep(only)
    PROVE  SafeInv'
<1>1. ASSUME ReadRuntimeState(only) PROVE SafeInv'
    BY <1>1, StoppedKeepsSafe, StopPlanMembers DEF ReadRuntimeState, Done, observationVars, NoApp, SafeInv
<1>2. ASSUME NEW s \in StopSteps, Dependent(only, s), abandoned' \/ NoApp' \/ session'.killSwitch,
             abandoned => abandoned', s = "stop-isolated-app" => abandoned' \/ Skipped(only)
      PROVE  SafeInv'
    BY <1>2, StoppedKeepsSafe, RememberKeepsSkipped, StopPlanMembers, CleanupPlanMembers DEF Dependent, Done
<1>3. ASSUME StopMonitor(only) PROVE SafeInv'
    BY <1>2, <1>3, StopPlanMembers DEF StopMonitor, NoApp, SafeInv
<1>4. ASSUME StopApp(only) PROVE SafeInv'
  <2>1. abandoned' \/ NoApp' \/ session'.killSwitch
      BY <1>4 DEF StopApp, NoApp, SafeInv
  <2> QED BY <1>2, <1>4, <2>1, StopPlanMembers DEF StopApp
<1>5. ASSUME NEW s \in StopSteps, NEW new, Removes(only, s, new), s # "stop-isolated-app",
             Skipped(only) \/ abandoned \/ new.killSwitch = session.killSwitch
      PROVE  SafeInv'
  <2>1. abandoned' \/ NoApp' \/ session'.killSwitch
      BY <1>5 DEF Removes, NoApp, SafeInv
  <2> QED BY <1>2, <1>5, <2>1 DEF Removes
<1>6. ASSUME RemoveKillSwitch(only) PROVE SafeInv'
  <2>1. abandoned \/ Skipped(only)
      BY <1>6, StopTurnedToApp DEF RemoveKillSwitch, Removes, Dependent, Done, Engine!ApplyOk
  <2> QED BY <1>5, <1>6, <2>1, StopPlanMembers DEF RemoveKillSwitch
<1>7. ASSUME RemoveClientRoutes(only) PROVE SafeInv'
    BY <1>5, <1>7, StopPlanMembers DEF RemoveClientRoutes, HostOK, Session
<1>8. ASSUME RemoveWireGuard(only) PROVE SafeInv'
    BY <1>5, <1>8, StopPlanMembers DEF RemoveWireGuard, InterfaceDeleted, HostOK, Session
<1>9. ASSUME RemoveNamespaceDNS(only) PROVE SafeInv'
    BY <1>5, <1>9, StopPlanMembers DEF RemoveNamespaceDNS, HostOK, Session
<1>10. ASSUME StopWSTunnelControl(only) PROVE SafeInv'
  <2>1. NoApp => NoApp'
      BY <1>10 DEF StopWSTunnelControl, Stopped, NoApp, HostOK
  <2> QED BY <1>2, <1>10, <2>1, StopPlanMembers DEF StopWSTunnelControl, SafeInv
<1>11. ASSUME DeleteNetns(only) PROVE SafeInv'
  <2>1. abandoned \/ Skipped(only)
      BY <1>11, StopTurnedToApp DEF DeleteNetns, Dependent, Done, Engine!ApplyOk
  <2>2. abandoned' \/ NoApp' \/ session'.killSwitch
      BY <1>11, <2>1 DEF DeleteNetns, NoApp, SafeInv
  <2> QED BY <1>2, <1>11, <2>2, StopPlanMembers DEF DeleteNetns
<1>12. ASSUME ClearRuntimeState(only) PROVE SafeInv'
    BY <1>12, StoppedKeepsSafe, StopPlanMembers, CleanupPlanMembers
       DEF ClearRuntimeState, Done, memoryVars, observationVars, NoApp, SafeInv, Skipped
<1> QED BY <1>1, <1>3, <1>4, <1>6, <1>7, <1>8, <1>9, <1>10, <1>11, <1>12 DEF StopStep

LEMMA CleanupStepIsSafe ==
    ASSUME EngineInv, HostOK, SafeInv, NEW only, Launchers = {only}, CleanupStep(only)
    PROVE  SafeInv'
<1>1. ASSUME NEW s \in CleanupSteps, Engine!ApplyOk(only, s), UNCHANGED memoryVars,
             abandoned' \/ NoApp' \/ session'.killSwitch, abandoned => abandoned',
             s = "cleanup-isolated-processes" => abandoned'
      PROVE  SafeInv'
    BY <1>1, StoppedKeepsSafe, StopPlanMembers, CleanupPlanMembers DEF memoryVars, Skipped
<1>2. ASSUME CleanupProcesses(only) PROVE SafeInv'
    BY <1>1, <1>2, CleanupPlanMembers DEF CleanupProcesses, IgnoredOr, Done
<1>3. ASSUME CleanupKillSwitch(only) PROVE SafeInv'
  <2>1. abandoned
      BY <1>3, CleanupTurnedToApp DEF CleanupKillSwitch, IgnoredOr, Done, Engine!ApplyOk
  <2> QED BY <1>1, <1>3, <2>1, CleanupPlanMembers DEF CleanupKillSwitch, IgnoredOr, Done
<1>4. ASSUME CleanupWireGuard(only) PROVE SafeInv'
  <2>1. session'.killSwitch = session.killSwitch /\ process' = process /\ abandoned' = abandoned
      BY <1>4 DEF CleanupWireGuard, IgnoredOr, InterfaceDeleted, HostOK, Session
  <2> QED BY <1>1, <1>4, <2>1, CleanupPlanMembers DEF CleanupWireGuard, IgnoredOr, Done, NoApp, SafeInv
<1>5. ASSUME CleanupNetns(only) PROVE SafeInv'
  <2>1. abandoned
      BY <1>5, CleanupTurnedToApp DEF CleanupNetns, IgnoredOr, Done, Engine!ApplyOk
  <2> QED BY <1>1, <1>5, <2>1, CleanupPlanMembers DEF CleanupNetns, IgnoredOr, Done
<1>6. ASSUME CleanupDNS(only) PROVE SafeInv'
  <2>1. session'.killSwitch = session.killSwitch /\ process' = process /\ abandoned' = abandoned
      BY <1>6 DEF CleanupDNS, Changes, observationVars, HostOK, Session
  <2> QED BY <1>1, <1>6, <2>1, CleanupPlanMembers DEF CleanupDNS, Changes, Done, NoApp, SafeInv
<1>7. ASSUME CleanupRuntimeRoot(only) PROVE SafeInv'
    BY <1>1, <1>7, CleanupPlanMembers DEF CleanupRuntimeRoot, Done, observationVars, NoApp, SafeInv
<1> QED BY <1>2, <1>3, <1>4, <1>5, <1>6, <1>7 DEF CleanupStep

\* A part of a step ends processes at most, and never opens the way out.
LEMMA InterruptedIsSafe ==
    ASSUME HostOK, NEW l \in Launchers, NEW s, Interrupted(l, s)
    PROVE  session'.killSwitch = session.killSwitch /\ (NoApp => NoApp')
<1>1. CASE s = "stop-isolated-app"
  <2>1. session' = session
      BY <1>1 DEF Interrupted
  <2>2. NoApp => NoApp'
      BY <1>1 DEF Interrupted, NoApp
  <2> QED BY <2>1, <2>2
<1>2. CASE s = "cleanup-isolated-processes"
  <2>1. session' = session
      BY <1>2 DEF Interrupted
  <2>2. NoApp => NoApp'
      BY <1>2 DEF Interrupted, NoApp
  <2> QED BY <2>1, <2>2
<1>3. CASE s \notin {"stop-isolated-app", "cleanup-isolated-processes"}
  <2>1. process' = process
      BY <1>3 DEF Interrupted
  <2>2. session'.killSwitch = session.killSwitch
      BY <1>3 DEF Interrupted, HostOK, Session
  <2> QED BY <2>1, <2>2 DEF NoApp
<1> QED BY <1>1, <1>2, <1>3

\* Nor does a process that dies inside a step or a rollback.
LEMMA DeathIsSafe ==
    ASSUME HostOK, NEW l \in Launchers, DiesInside(l)
    PROVE  session'.killSwitch = session.killSwitch /\ (NoApp => NoApp')
<1>1. CASE UNCHANGED <<session, process, diskVars>>
    BY <1>1 DEF NoApp
<1>2. CASE UndoInterrupted(l)
  <2>1. process' = process /\ session'.killSwitch = session.killSwitch
      BY <1>2 DEF UndoInterrupted, HostOK, Session
  <2> QED BY <2>1 DEF NoApp
<1> QED BY <1>1, <1>2, InterruptedIsSafe DEF DiesInside

\* A step that fails is no more than a part of it: a start turns to its rollback,
\* a stop goes on, and the failure to end the application is one of having turned
\* to it.  The processes of a cleanup are stopped without an error.
LEMMA FailureIsSafe ==
    ASSUME EngineInv, HostOK, MemoryOK, SafeInv, NEW only, Launchers = {only},
           NEW s \in plan[only], StepFails(only, s)
    PROVE  SafeInv'
<1>1. Engine!Ready(only, s)
    BY DEF StepFails, Engine!ApplyFail
<1>2. /\ attempted'[only] = attempted[only] \cup {s}
      /\ plan' = plan /\ applied' = applied /\ undone' = undone
      /\ mode'[only] = IF mode[only] = "connect" THEN "rollback" ELSE mode[only]
    BY DEF StepFails, Engine!ApplyFail, Engine!ModeAfterError, EngineInv, Engine!TypeOK
<1>3. session'.killSwitch = session.killSwitch /\ (NoApp => NoApp') /\ (abandoned => abandoned')
    BY InterruptedIsSafe DEF StepFails
<1>4. abandoned' \/ NoApp' \/ session'.killSwitch
    BY <1>3 DEF SafeInv
<1>5. CASE mode[only] = "connect"
  <2>1. plan[only] = StartSteps /\ s \in StartSteps
      BY <1>5 DEF SafeInv, StartInv
  <2>2. "apply-namespace-kill-switch" \in attempted'[only] => "create-netns" \in applied'[only]
    <3>1. CASE s = "apply-namespace-kill-switch"
        BY <1>1, <1>2, <1>5, <2>1, <3>1, EarlierAttempted, AttemptedIsApplied, RankFacts, StartPlanMembers
    <3>2. CASE s # "apply-namespace-kill-switch"
        BY <1>2, <1>5, <3>2 DEF SafeInv, StartInv
    <3> QED BY <3>1, <3>2
  <2> QED BY <1>2, <1>3, <1>4, <1>5, <2>1, <2>2, AttemptedIsApplied DEF SafeInv, StartInv, StopInv
<1>6. CASE mode[only] = "disconnect"
  <2>1. plan[only] \in {StopSteps, CleanupSteps}
      BY <1>6 DEF SafeInv, StopInv
  <2>2. s # "cleanup-isolated-processes"
    <3> SUFFICES ASSUME s = "cleanup-isolated-processes" PROVE FALSE
        OBVIOUS
    <3>1. s \in CleanupSteps /\ s \notin StopSteps
        BY StopPlanMembers, CleanupPlanMembers
    <3>2. Works(only, s)
        BY <3>1 DEF Works
    <3>3. ~CanBreak(only, s)
        BY <3>1 DEF CanBreak
    <3> QED BY <3>2, <3>3 DEF StepFails
  <2>3. Skipped(only) => Skipped(only)'
      BY RememberKeepsSkipped DEF StepFails, Skipped
  <2>4. s = "stop-isolated-app" => abandoned'
      BY DEF StepFails
  <2>5. "stop-isolated-app" \in attempted'[only] => abandoned' \/ Skipped(only)'
      BY <1>2, <1>3, <1>6, <2>3, <2>4 DEF SafeInv, StopInv
  <2>6. "cleanup-isolated-processes" \in attempted'[only] => abandoned'
      BY <1>2, <1>3, <1>6, <2>2 DEF SafeInv, StopInv
  <2> QED BY <1>2, <1>4, <1>6, <2>1, <2>5, <2>6 DEF SafeInv, StartInv, StopInv
<1> QED BY <1>1, <1>5, <1>6 DEF Engine!Ready

\* A rollback opens the way out only after it has turned to the application,
\* or of a namespace nothing was launched in.
LEMMA LaunchUndoneFirst ==
    ASSUME EngineInv, SafeInv, NEW l \in Launchers,
           NEW s \in {"create-netns", "apply-namespace-kill-switch"}, Engine!ReadyToUndo(l, s)
    PROVE  abandoned \/ NoApp
<1>1. mode[l] = "rollback" /\ s \in applied[l] /\ applied[l] \subseteq attempted[l]
    BY DEF EngineInv, Engine!Bookkeeping, Engine!ReadyToUndo, Engine!ToUndo
<1>2. "create-netns" \in applied[l]
    BY <1>1 DEF SafeInv, StartInv
<1>3. CASE "launch-app-in-netns" \in applied[l]
  <2>1. Rank[s] < Rank["launch-app-in-netns"]
      BY RankFacts
  <2>2. Rank[s] \in Nat /\ Rank["launch-app-in-netns"] \in Nat
      BY PlaceIsNatural, InSteps DEF Rank
  <2>3. "launch-app-in-netns" \notin Engine!ToUndo(l)
      BY <2>1, <2>2 DEF Engine!ReadyToUndo
  <2>4. "launch-app-in-netns" \in undone[l]
      BY <1>3, <2>3, StartPlanMembers DEF Engine!ToUndo, Undoable
  <2> QED BY <1>1, <2>4 DEF SafeInv, StartInv
<1>4. CASE "launch-app-in-netns" \notin applied[l]
    BY <1>1, <1>2, <1>4 DEF SafeInv, StartInv
<1> QED BY <1>3, <1>4

\* An undo, done or not.
LEMMA UndoneKeepsSafe ==
    ASSUME EngineInv, SafeInv, NEW only, Launchers = {only}, NEW s,
           Engine!UndoOk(only, s) \/ Engine!UndoFail(only, s),
           abandoned' \/ NoApp' \/ session'.killSwitch,
           abandoned => abandoned', NoApp => NoApp',
           s = "launch-app-in-netns" => abandoned'
    PROVE  SafeInv'
<1>1. /\ mode[only] = "rollback" /\ mode' = mode /\ plan' = plan
      /\ attempted' = attempted /\ applied' = applied /\ undone'[only] = undone[only] \cup {s}
    BY DEF Engine!UndoOk, Engine!UndoFail, Engine!ReadyToUndo, EngineInv, Engine!TypeOK
<1> QED BY <1>1 DEF SafeInv, StartInv, StopInv

LEMMA UndoStepIsSafe ==
    ASSUME EngineInv, HostOK, SafeInv, NEW only, Launchers = {only}, UndoStep(only)
    PROVE  SafeInv'
<1>1. ASSUME NEW s, Engine!UndoOk(only, s) \/ Engine!UndoFail(only, s), abandoned' = abandoned,
             session'.killSwitch = session.killSwitch, NoApp => NoApp', s # "launch-app-in-netns"
      PROVE  SafeInv'
    BY <1>1, UndoneKeepsSafe DEF SafeInv
<1>2. ASSUME UndoNothing(only) PROVE SafeInv'
    BY <1>1, <1>2 DEF UndoNothing, observationVars, NoApp
<1>3. ASSUME UndoRuntimeRoot(only) PROVE SafeInv'
    BY <1>1, <1>3 DEF UndoRuntimeRoot, observationVars, NoApp
<1>4. ASSUME UndoNetns(only) PROVE SafeInv'
  <2>1. Engine!UndoOk(only, "create-netns") \/ Engine!UndoFail(only, "create-netns")
      BY <1>4 DEF UndoNetns
  <2>2. abandoned \/ NoApp
      BY <2>1, LaunchUndoneFirst DEF Engine!UndoOk, Engine!UndoFail
  <2>3. abandoned' = abandoned
      BY <1>4 DEF UndoNetns, observationVars
  <2>4. NoApp => NoApp'
    <3>1. CASE UNCHANGED process
        BY <3>1 DEF NoApp
    <3>2. CASE NetnsDeleted(session.veth)
        BY <3>2 DEF NetnsDeleted, NoApp
    <3> QED BY <1>4, <3>1, <3>2 DEF UndoNetns
  <2> QED BY <2>1, <2>2, <2>3, <2>4, UndoneKeepsSafe
<1>5. ASSUME NEW s, NEW there, NEW new, Undoes(only, s, there, new), new.killSwitch = session.killSwitch,
             s # "launch-app-in-netns"
      PROVE  SafeInv'
    BY <1>1, <1>5 DEF Undoes, observationVars, NoApp
<1>6. ASSUME NEW s \in applied[only], UndoVeth(only, s) PROVE SafeInv'
    BY <1>5, <1>6 DEF UndoVeth, HostOK, Session
<1>7. ASSUME NEW s \in applied[only], UndoWireGuard(only, s) PROVE SafeInv'
    BY <1>5, <1>7 DEF UndoWireGuard, InterfaceDeleted, HostOK, Session
<1>8. ASSUME UndoDNS(only) PROVE SafeInv'
    BY <1>5, <1>8 DEF UndoDNS, HostOK, Session
<1>9. ASSUME UndoClientRoutes(only) PROVE SafeInv'
  <2>1. session'.killSwitch = session.killSwitch
      BY <1>9 DEF UndoClientRoutes, HostOK, Session
  <2> QED BY <1>1, <1>9, <2>1 DEF UndoClientRoutes, observationVars, NoApp
<1>10. ASSUME UndoKillSwitch(only) PROVE SafeInv'
  <2>1. \/ Engine!UndoOk(only, "apply-namespace-kill-switch")
        \/ Engine!UndoFail(only, "apply-namespace-kill-switch")
      BY <1>10 DEF UndoKillSwitch, Undoes
  <2>2. abandoned \/ NoApp
      BY <2>1, LaunchUndoneFirst DEF Engine!UndoOk, Engine!UndoFail
  <2> QED BY <1>10, <2>1, <2>2, UndoneKeepsSafe DEF UndoKillSwitch, Undoes, observationVars, NoApp
<1>11. ASSUME NEW s, NEW pid, NEW kinds, UndoProcess(only, s, pid, kinds) PROVE NoApp => NoApp'
    BY <1>11 DEF UndoProcess, Stopped, NoApp
<1>12. ASSUME UndoWSTunnel(only) PROVE SafeInv'
    BY <1>1, <1>11, <1>12 DEF UndoWSTunnel, UndoProcess
<1>13. ASSUME UndoLaunch(only) PROVE SafeInv'
    BY <1>11, <1>13, UndoneKeepsSafe DEF UndoLaunch, UndoProcess
<1> QED BY <1>2, <1>3, <1>4, <1>6, <1>7, <1>8, <1>9, <1>10, <1>12, <1>13 DEF UndoStep

LEMMA SafeStep ==
    ASSUME EngineInv, HostOK, MemoryOK, SafeInv, NEW only, Launchers = {only}, [Next]_vars
    PROVE  SafeInv'
<1>1. ASSUME NEW kind, NEW steps, Begins(only, kind, steps),
             kind = "connect" => steps = StartSteps,
             kind = "disconnect" => steps \in {StopSteps, CleanupSteps}
      PROVE  SafeInv'
  <2>1. /\ mode'[only] = kind /\ plan'[only] = steps /\ attempted'[only] = {}
        /\ applied'[only] = {} /\ undone'[only] = {}
      BY <1>1 DEF Begins, Engine!Begin, EngineInv, Engine!TypeOK
  <2>2. kind \in {"connect", "disconnect"} /\ UNCHANGED <<session, process, abandoned>>
      BY <1>1 DEF Begins, Engine!Begin, observationVars
  <2> QED BY <1>1, <2>1, <2>2 DEF SafeInv, StartInv, StopInv, NoApp
<1>2. ASSUME StartIsolatedApp(only) \/ StopIsolatedApp(only) \/ CleanupIsolatedApp(only) PROVE SafeInv'
    BY <1>1, <1>2 DEF StartIsolatedApp, StopIsolatedApp, CleanupIsolatedApp
<1>3. ASSUME mode'[only] = "off", session'.killSwitch = session.killSwitch, NoApp => NoApp',
             abandoned => abandoned'
      PROVE  SafeInv'
    BY <1>3 DEF SafeInv, StartInv, StopInv
<1>4. ASSUME Return(only) PROVE SafeInv'
    BY <1>3, <1>4 DEF Return, Finishes, Engine!Return, EngineInv, Engine!TypeOK, NoApp
<1>5. ASSUME Kill(only) PROVE SafeInv'
  <2>1. mode'[only] = "off" /\ (abandoned => abandoned')
      BY <1>5 DEF Kill, Engine!Kill, EngineInv, Engine!TypeOK
  <2>2. session'.killSwitch = session.killSwitch /\ (NoApp => NoApp')
      BY <1>5, DeathIsSafe DEF Kill
  <2> QED BY <1>3, <2>1, <2>2
<1>6. ASSUME UNCHANGED <<engineVars, memoryVars, observationVars>>,
             session'.killSwitch = session.killSwitch, NoApp => NoApp'
      PROVE  SafeInv'
    BY <1>6 DEF SafeInv, StartInv, StopInv, Skipped, engineVars, memoryVars, observationVars
<1>7. ASSUME NEW p \in Pids, AppExecs(p) PROVE SafeInv'
    BY <1>6, <1>7 DEF AppExecs, NoApp, HostOK
<1>8. ASSUME NEW p \in Pids, NEW q \in Pids, AppForks(p, q) PROVE SafeInv'
    BY <1>6, <1>8 DEF AppForks, NoApp, HostOK
<1>9. ASSUME NEW p \in Pids, Exits(p) PROVE SafeInv'
  <2>1. session'.killSwitch = session.killSwitch
      BY <1>9 DEF Exits, HostOK, Session
  <2> QED BY <1>6, <1>9, <2>1 DEF Exits, NoApp, HostOK
<1>10. CASE UNCHANGED vars
    BY <1>6, <1>10 DEF vars, NoApp
<1> QED
    BY <1>2, <1>4, <1>5, <1>7, <1>8, <1>9, <1>10, StartStepIsSafe, StopStepIsSafe, CleanupStepIsSafe,
       FailureIsSafe, UndoStepIsSafe DEF Next, Step, Environment

LEMMA SafeInvHolds ==
    ASSUME NEW only, Launchers = {only}
    PROVE  Spec => []SafeInv
<1>1. Init => SafeInv
    BY DEF Init, SafeInv, NoApp, StartInv, StopInv, Engine!Init
<1>2. EngineInv /\ TypeOK /\ SafeInv /\ [Next]_vars => SafeInv'
    BY SafeStep, TypeOKParts
<1> QED BY <1>1, <1>2, EngineInvHolds, TypeCorrect, PTL DEF Spec

\* While the application runs in a namespace with a way out, the kill switch is
\* up, unless a launcher turned to ending it since it was launched: after every
\* failure, rollback, kill, stop and cleanup, for any number of processes.
THEOREM FailClosedHolds ==
    ASSUME NEW only, Launchers = {only}
    PROVE  Spec => []FailClosed
<1>1. SafeInv => FailClosed
    BY DEF SafeInv, NoApp, FailClosed, InNamespace
<1> QED BY <1>1, SafeInvHolds, PTL
===============================================================================
