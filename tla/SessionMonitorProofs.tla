------------------------- MODULE SessionMonitorProofs -------------------------
(***************************************************************************)
(* What holds of a session with its monitors and the recovery running      *)
(* beside the commands, for any number of launchers and PIDs: each of them *)
(* still runs its plans as the engine does, nothing they write to the      *)
(* record is of a wrong kind, the application fails closed, a session that *)
(* was not ended is on record, and what is left of one is listed.          *)
(***************************************************************************)
EXTENDS SessionMonitor, IsolatedSessionProofs

-------------------------------------------------------------------------------
\* Monitors and the recovery run the engine

\* A monitor waits, and is signalled, between runs of the engine or in one; the
\* plan it starts is the stop.
LEMMA MonitorStepOfEngine ==
    ASSUME Engine!TypeOK, [MonitorNext]_vars
    PROVE  [Engine!Next]_engineVars
<1>1. ASSUME NEW l \in Launchers, NEW kind, NEW steps \in SUBSET Steps, Begins(l, kind, steps)
      PROVE  Engine!Next
  <2>1. kind \in {"connect", "disconnect"} /\ Engine!Begin(l, kind, steps)
      BY <1>1 DEF Begins, Engine!Begin
  <2> QED BY <2>1 DEF Engine!Next
<1>2. ASSUME NEW l \in Launchers, StartWithId(l) \/ StopIsolatedApp(l) \/ RecoveryCleans(l)
      PROVE  Engine!Next
    BY <1>1, <1>2
    DEF StartWithId, RecoveryCleans, StartIsolatedApp, StopIsolatedApp, CleanupIsolatedApp, Steps
<1>3. ASSUME NEW l \in Launchers, SignalMonitor(l)
      PROVE  [Engine!Next]_engineVars
    BY <1>3 DEF SignalMonitor, OtherMonitor, Engine!Next
<1>4. ASSUME NEW l \in Launchers, ReturnAndWatch(l) \/ Kill(l)
      PROVE  Engine!Next
    BY <1>4 DEF ReturnAndWatch, Finishes, Kill, Engine!Next
<1>5. ASSUME NEW m \in Launchers, MonitorStep(m)
      PROVE  [Engine!Next]_engineVars
  <2>1. CASE MonitorStops(m)
      BY <2>1 DEF MonitorStops, Steps, Engine!Next
  <2>2. CASE ~MonitorStops(m)
      BY <1>5, <2>2 DEF MonitorStep, MonitorLoads, MonitorTruncates, MonitorWrites, MonitorGivesUp
  <2> QED BY <2>1, <2>2
<1>6. ASSUME NEW l \in Launchers, MonitorDies(l) \/ RecoveryRestartsMonitor(l)
      PROVE  UNCHANGED engineVars
    BY <1>6 DEF MonitorDies, RecoveryRestartsMonitor
<1>7. CASE Environment
    BY <1>7 DEF Environment, AppExecs, AppForks, Exits
<1>8. CASE UNCHANGED vars
    BY <1>8 DEF vars
<1>9. ASSUME NEW l \in Launchers, Step(l)
      PROVE  Engine!Next
    BY <1>9, RunStepOfEngine
<1>10. ASSUME NEW l \in Launchers, StopIsolatedApp(l) PROVE Engine!Next
    BY <1>2, <1>10
<1>11. Stoppers \subseteq Launchers
    BY MonitorAssumption
<1> QED
    BY <1>2, <1>3, <1>4, <1>5, <1>6, <1>7, <1>8, <1>9, <1>10, <1>11 DEF MonitorNext, RunStep

\* Whoever looks after a session, and whoever is signalled in the middle of it,
\* every run of a command, a monitor or the recovery is a run of the plan engine.
THEOREM MonitorImplementsEngine == MonitorSpec => Engine!Spec
<1>1. Init => Engine!Init
    BY DEF Init
<1>2. Engine!Init => Engine!TypeOK
    BY SameEngine, EngineProofs!TypeInit, EngineAssumed DEF Engine!EngineAssumption
<1>3. Engine!TypeOK /\ [MonitorNext]_vars => [Engine!Next]_engineVars
    BY MonitorStepOfEngine
<1>4. EngineProofs!TypeOK /\ [EngineProofs!Next]_EngineProofs!engineVars => EngineProofs!TypeOK'
    BY EngineProofs!TypeStep, EngineAssumed DEF Engine!EngineAssumption
<1> QED
    BY <1>1, <1>2, <1>3, <1>4, SameEngine, PTL
    DEF MonitorSpec, Engine!Spec, engineVars, Engine!engineVars

LEMMA MonitorEngineInv == MonitorSpec => []EngineInv
BY MonitorImplementsEngine, EngineImpliesInv, PTL

-------------------------------------------------------------------------------
\* Types

\* A process that waits as a monitor runs no plan.
WatchersAreIdle ==
    \A m \in Launchers : watch[m] \in {"spawned", "loaded", "saving", "waiting"} => mode[m] = "off"

\* What a monitor is about to save is a record it read.
SavesARecord == \A m \in Launchers : watch[m] \in {"loaded", "saving"} => seen[m].file = "whole"

MonitorTypes == HostOK /\ DiskOK /\ MemoryOK /\ WatchersAreIdle /\ SavesARecord

\* What the engine of l does with step s.
Turns(l, s) ==
    Engine!ApplyOk(l, s) \/ Engine!ApplyFail(l, s) \/ Engine!UndoOk(l, s) \/ Engine!UndoFail(l, s)

\* A step of a run is the engine's turn of one step of its plan, and changes what
\* no other launcher remembers.
LEMMA StepTurns ==
    ASSUME MemoryOK, NEW l \in Launchers, Step(l)
    PROVE  /\ \E s : Turns(l, s)
           /\ watch' = watch
           /\ \A k \in Launchers \ {l} : seen'[k] = seen[k]
<1> USE DEF Turns
<1>1. CASE StartStep(l)
  <2>1. \E s : Engine!ApplyOk(l, s)
      BY <1>1 DEF StartStep, OnlyConfigures, CreateRuntimeRoot, CreateNetns, CreateVethPair,
         ConfigureNamespaceDNS, StartWSTunnelControl, LaunchApp, CreateWireGuard, ApplyClientRoutes,
         ApplyKillSwitch, StoreRuntimeState, Changes, Done
  <2>2. UNCHANGED <<watch, seen>>
      BY <1>1 DEF StartStep, OnlyConfigures, CreateRuntimeRoot, CreateNetns, CreateVethPair,
         ConfigureNamespaceDNS, StartWSTunnelControl, LaunchApp, CreateWireGuard, ApplyClientRoutes,
         ApplyKillSwitch, StoreRuntimeState, Changes, memoryVars
  <2> QED BY <2>1, <2>2
<1>2. CASE StopStep(l)
  <2>1. \E s : Engine!ApplyOk(l, s)
      BY <1>2 DEF StopStep, ReadRuntimeState, StopMonitor, StopApp, RemoveKillSwitch,
         RemoveClientRoutes, RemoveWireGuard, RemoveNamespaceDNS, StopWSTunnelControl, DeleteNetns,
         ClearRuntimeState, Removes, Dependent, Done
  <2>2. watch' = watch
      BY <1>2 DEF StopStep, ReadRuntimeState, StopMonitor, StopApp, RemoveKillSwitch,
         RemoveClientRoutes, RemoveWireGuard, RemoveNamespaceDNS, StopWSTunnelControl, DeleteNetns,
         ClearRuntimeState, Removes, Dependent, memoryVars
  <2>3. \E memory : seen' = [seen EXCEPT ![l] = memory]
    <3>1. CASE Remember(l)
        BY <3>1 DEF Remember
    <3>2. CASE ReadRuntimeState(l)
        BY <3>2 DEF ReadRuntimeState
    <3>3. CASE ClearRuntimeState(l)
        BY <3>3 DEF ClearRuntimeState, memoryVars, MemoryOK
    <3> QED BY <1>2, <3>1, <3>2, <3>3 DEF StopStep, StopMonitor, StopApp, RemoveKillSwitch,
         RemoveClientRoutes, RemoveWireGuard, RemoveNamespaceDNS, StopWSTunnelControl, DeleteNetns,
         Removes, Dependent
  <2> QED BY <2>1, <2>2, <2>3 DEF MemoryOK
<1>3. CASE CleanupStep(l)
  <2>1. \E s : Engine!ApplyOk(l, s)
      BY <1>3 DEF CleanupStep, CleanupProcesses, CleanupKillSwitch, CleanupWireGuard, CleanupNetns,
         CleanupDNS, CleanupRuntimeRoot, IgnoredOr, Changes, Done
  <2>2. UNCHANGED <<watch, seen>>
      BY <1>3 DEF CleanupStep, CleanupProcesses, CleanupKillSwitch, CleanupWireGuard, CleanupNetns,
         CleanupDNS, CleanupRuntimeRoot, IgnoredOr, Changes, memoryVars
  <2> QED BY <2>1, <2>2
<1>4. ASSUME NEW s \in plan[l], StepFails(l, s)
      PROVE  /\ Turns(l, s) /\ watch' = watch
             /\ \A k \in Launchers \ {l} : seen'[k] = seen[k]
    BY <1>4 DEF StepFails, Remember, MemoryOK
<1>5. CASE UndoStep(l)
  <2>1. \E s : Engine!UndoOk(l, s) \/ Engine!UndoFail(l, s)
      BY <1>5
      DEF UndoStep, UndoNothing, UndoRuntimeRoot, UndoNetns, UndoVeth, UndoDNS, UndoWireGuard,
         UndoClientRoutes, UndoKillSwitch, UndoWSTunnel, UndoLaunch, Undoes, UndoProcess
  <2>2. UNCHANGED <<watch, seen>>
      BY <1>5
      DEF UndoStep, UndoNothing, UndoRuntimeRoot, UndoNetns, UndoVeth, UndoDNS, UndoWireGuard,
         UndoClientRoutes, UndoKillSwitch, UndoWSTunnel, UndoLaunch, Undoes, UndoProcess, memoryVars
  <2> QED BY <2>1, <2>2
<1> QED BY <1>1, <1>2, <1>3, <1>4, <1>5 DEF Step

\* A turn of the engine is of one launcher, which is running.
LEMMA TurnIsOwn ==
    ASSUME Engine!TypeOK, NEW l \in Launchers, NEW s, Turns(l, s)
    PROVE  /\ mode[l] # "off"
           /\ mode'[l] = mode[l] \/ (mode[l] = "connect" /\ mode'[l] = "rollback")
           /\ plan' = plan
           /\ \A k \in Launchers \ {l} :
                 /\ mode'[k] = mode[k] /\ attempted'[k] = attempted[k]
                 /\ applied'[k] = applied[k] /\ undone'[k] = undone[k]
<1>1. CASE Engine!ApplyOk(l, s)
    BY <1>1 DEF Engine!ApplyOk, Engine!Ready, Engine!TypeOK
<1>2. CASE Engine!ApplyFail(l, s)
    BY <1>2 DEF Engine!ApplyFail, Engine!Ready, Engine!ModeAfterError, Engine!TypeOK
<1>3. CASE Engine!UndoOk(l, s) \/ Engine!UndoFail(l, s)
    BY <1>3 DEF Engine!UndoOk, Engine!UndoFail, Engine!ReadyToUndo, Engine!TypeOK
<1> QED BY <1>1, <1>2, <1>3 DEF Turns

\* A new monitor is a process that did nothing.
LEMMA SpawnsIdle ==
    ASSUME MemoryOK, Spawns
    PROVE  \E m \in Launchers : /\ Idle(m) /\ watch'[m] = "spawned"
                                /\ \A k \in Launchers \ {m} : watch'[k] = watch[k]
                                /\ watch' \in [Launchers -> Watching]
BY DEF Spawns, MemoryOK, Watching

LEMMA MonitorTypeStep ==
    ASSUME Engine!TypeOK, MonitorTypes, [MonitorNext]_vars
    PROVE  MonitorTypes'
<1> USE DEF MonitorTypes
<1>1. ASSUME NEW l \in Launchers, NEW kind, NEW steps, Begins(l, kind, steps) PROVE MonitorTypes'
    BY <1>1
    DEF Begins, Engine!Begin, Engine!TypeOK, HostOK, InNamespace, DiskOK, diskVars, MemoryOK,
                observationVars, WatchersAreIdle, SavesARecord
<1>2. ASSUME NEW l \in Launchers, Step(l) PROVE MonitorTypes'
    BY <1>2, StepKeeps, StepTurns, TurnIsOwn DEF Kept, WatchersAreIdle, SavesARecord
<1>3. ASSUME NEW l \in Launchers, SignalMonitor(l) PROVE MonitorTypes'
  <2>1. PICK m \in Launchers :
            /\ watch' = [watch EXCEPT ![m] = "none"]
            /\ IF mode[m] = "off"
               THEN UNCHANGED <<engineVars, session, process, diskVars>>
               ELSE Engine!Kill(m) /\ DiesInside(m)
      BY <1>3 DEF SignalMonitor, OtherMonitor
  <2>2. HostOK' /\ DiskOK'
    <3>1. CASE UNCHANGED <<session, process, diskVars>>
        BY <3>1 DEF HostOK, InNamespace, DiskOK, diskVars
    <3>2. CASE DiesInside(m)
        BY <3>2, DeathKeeps
    <3> QED BY <2>1, <3>1, <3>2
  <2>3. \A k \in Launchers : mode'[k] \in {mode[k], "off"} /\ watch'[k] \in {watch[k], "none"}
      BY <2>1 DEF Engine!Kill, Engine!TypeOK, engineVars, MemoryOK
  <2>4. WatchersAreIdle' /\ SavesARecord'
      BY <1>3, <2>3 DEF SignalMonitor, WatchersAreIdle, SavesARecord
  <2>5. MemoryOK'
      BY <1>3, <2>1 DEF SignalMonitor, MemoryOK, observationVars, Watching
  <2> QED BY <2>2, <2>4, <2>5
<1>4. ASSUME NEW l \in Launchers, ReturnAndWatch(l) PROVE MonitorTypes'
  <2>1. HostOK' /\ DiskOK'
      BY <1>4 DEF ReturnAndWatch, Finishes, HostOK, InNamespace, DiskOK, diskVars
  <2>2. mode' = [mode EXCEPT ![l] = "off"] /\ UNCHANGED <<handle, seen, abandoned>> /\ disclosed' \in BOOLEAN
      BY <1>4 DEF ReturnAndWatch, Finishes, Engine!Return
  <2>3. CASE Spawns
      BY <2>1, <2>2, <2>3, SpawnsIdle
      DEF MemoryOK, WatchersAreIdle, SavesARecord, Idle, Engine!TypeOK
  <2>4. CASE watch' = [watch EXCEPT ![l] = "none"]
      BY <2>1, <2>2, <2>4 DEF MemoryOK, WatchersAreIdle, SavesARecord, Watching, Engine!TypeOK
  <2> QED BY <1>4, <2>3, <2>4 DEF ReturnAndWatch
<1>5. ASSUME NEW m \in Launchers, MonitorLoads(m) PROVE MonitorTypes'
    BY <1>5
    DEF MonitorLoads, engineVars, HostOK, InNamespace, DiskOK, diskVars, MemoryOK,
        observationVars,
                Watching, WatchersAreIdle, SavesARecord
<1>6. ASSUME NEW m \in Launchers, MonitorTruncates(m) PROVE MonitorTypes'
    BY <1>6, AbsentIsState DEF MonitorTruncates, engineVars, HostOK, InNamespace, DiskOK, MemoryOK,
                observationVars, Watching, WatchersAreIdle, SavesARecord
<1>7. ASSUME NEW m \in Launchers, MonitorWrites(m) PROVE MonitorTypes'
  <2>1. [seen[m] EXCEPT !.monitor = m] \in StateFile
      BY <1>7 DEF MonitorWrites, SavesARecord, MemoryOK, StateFile, Unread, Absent
  <2> QED BY <1>7, <2>1 DEF MonitorWrites, engineVars, HostOK, InNamespace, DiskOK, MemoryOK,
                observationVars, Watching, WatchersAreIdle, SavesARecord
<1>8. ASSUME NEW m \in Launchers, MonitorStops(m) PROVE MonitorTypes'
    BY <1>8
    DEF MonitorStops, Engine!Begin, Engine!TypeOK, HostOK, InNamespace, DiskOK, diskVars,
        MemoryOK,
                observationVars, Watching, WatchersAreIdle, SavesARecord
<1>9. ASSUME NEW m \in Launchers, MonitorGivesUp(m) \/ MonitorDies(m) PROVE MonitorTypes'
    BY <1>9
    DEF MonitorGivesUp, MonitorDies, engineVars, HostOK, InNamespace, DiskOK, diskVars, MemoryOK,
                observationVars, Watching, WatchersAreIdle, SavesARecord
<1>10. ASSUME NEW l \in Launchers, RecoveryRestartsMonitor(l) PROVE MonitorTypes'
  <2>1. HostOK' /\ DiskOK' /\ mode' = mode /\ UNCHANGED <<handle, seen, abandoned, disclosed>> /\ Spawns
      BY <1>10
      DEF RecoveryRestartsMonitor, HostOK, InNamespace, DiskOK, diskVars, engineVars,
          observationVars
  <2> QED BY <2>1, SpawnsIdle DEF MemoryOK, WatchersAreIdle, SavesARecord, Idle
<1>11. ASSUME NEW l \in Launchers, Kill(l) PROVE MonitorTypes'
  <2>1. HostOK' /\ DiskOK' /\ MemoryOK'
      BY <1>11, KillKeeps DEF Kept
  <2> QED BY <1>11, <2>1 DEF Kill, Engine!Kill, Engine!TypeOK, MemoryOK, WatchersAreIdle, SavesARecord
<1>12. CASE Environment
  <2>1. HostOK' /\ DiskOK' /\ MemoryOK'
      BY <1>12, EnvironmentKeeps DEF Kept
  <2>2. UNCHANGED <<mode, seen, watch>>
      BY <1>12 DEF Environment, AppExecs, AppForks, Exits, engineVars, memoryVars
  <2> QED BY <2>1, <2>2 DEF WatchersAreIdle, SavesARecord
<1>13. CASE UNCHANGED vars
    BY <1>13
    DEF vars, engineVars, HostOK, InNamespace, DiskOK, diskVars, MemoryOK, memoryVars,
        observationVars,
                WatchersAreIdle, SavesARecord
<1> HIDE DEF MonitorTypes
<1>14. ASSUME NEW l \in Launchers, StartWithId(l) \/ StopIsolatedApp(l) \/ RecoveryCleans(l) PROVE MonitorTypes'
    BY <1>1, <1>14
    DEF StartWithId, RecoveryCleans, StartIsolatedApp, StopIsolatedApp, CleanupIsolatedApp
<1>15. Stoppers \subseteq Launchers
    BY MonitorAssumption
<1> QED
    BY <1>2, <1>3, <1>4, <1>5, <1>6, <1>7, <1>8, <1>9, <1>10, <1>11, <1>12, <1>13, <1>14, <1>15
       DEF MonitorNext, RunStep, MonitorStep

LEMMA MonitorTypesHold == MonitorSpec => []MonitorTypes
<1>1. Init => MonitorTypes
    BY TypeInit DEF Init, MonitorTypes, WatchersAreIdle, SavesARecord, Engine!Init
<1>2. EngineInv => Engine!TypeOK
    BY DEF EngineInv
<1> QED BY <1>1, <1>2, MonitorTypeStep, MonitorEngineInv, PTL DEF MonitorSpec

\* Every variable keeps its type with monitors and the recovery around, the
\* record a monitor saves from what it read before included.
THEOREM MonitorTypeCorrect == MonitorSpec => []TypeOK
<1>1. EngineInv /\ MonitorTypes => TypeOK
    BY TypeOKParts DEF EngineInv, MonitorTypes
<1> QED BY <1>1, MonitorEngineInv, MonitorTypesHold, PTL

-------------------------------------------------------------------------------
\* The application fails closed

\* The instances it holds for: an identifier is drawn once, and nothing cleans up
\* beside the start that draws it, neither a recovery nor a stop whose first read
\* fails for a reason of its own.
Undisturbed ==
    /\ ~Reused
    /\ \A r \in Recoverers : Starters \subseteq {r}
    /\ "read-isolated-runtime-state" \in Breaks => \A k \in Stoppers : Starters \subseteq {k}

Starting(l) == mode[l] \in {"connect", "rollback"}

\* A start that did not come to the application.
Preparing(l) == mode[l] = "connect" /\ "launch-app-in-netns" \notin attempted[l]

\* There is one start at a time.
OneStart ==
    \A l \in Launchers : Starting(l) =>
        /\ l \in Starters /\ plan[l] = StartSteps
        /\ \A k \in Launchers : Starting(k) => k = l

\* Before the first run there is no session.
NothingYet ==
    (\A l \in Launchers : plan[l] = {}) =>
        /\ Clear /\ store.file = "absent"
        /\ \A p \in Pids : process[p] = "free"
        /\ \A l \in Launchers : mode[l] = "off" /\ watch[l] = "none" /\ seen[l].file # "whole"

\* A start that has not come to its record, or never will.
Unwritten(l) == Starting(l) /\ "store-isolated-runtime-state" \notin attempted[l]

\* While a start prepares, there is no application.
Preparation ==
    \A l \in Launchers : Preparing(l) =>
        /\ NoApp
        /\ "apply-namespace-kill-switch" \in applied[l] => session.killSwitch

\* Until a start stores the record there is none: every stop that runs beside it
\* was asked for by a person and finds nothing to do.
AsksInVain(k) ==
    mode[k] = "disconnect" =>
        /\ k \in Stoppers /\ plan[k] = StopSteps
        /\ "read-isolated-runtime-state" \in attempted[k] => Skipped(k)

Alone ==
    \A l \in Launchers : Unwritten(l) =>
        /\ store.file = "absent"
        /\ \A k \in Launchers : watch[k] = "none" /\ seen[k].file # "whole" /\ AsksInVain(k)

\* What a rollback knows of the application,
Rollbacks ==
    \A l \in Launchers : mode[l] = "rollback" =>
        /\ "launch-app-in-netns" \notin applied[l] => NoApp
        /\ "launch-app-in-netns" \in undone[l] => abandoned

\* and a stop or a cleanup.
Stops == \A l \in Launchers : StopInv(l)

OutOfReach == abandoned \/ NoApp \/ session.killSwitch

MonitorSafe == OneStart /\ NothingYet /\ Preparation /\ Alone /\ Rollbacks /\ Stops /\ OutOfReach

Ground == EngineInv /\ MonitorTypes /\ MonitorSafe

LEMMA GroundTypes == Ground => EngineInv /\ Engine!TypeOK /\ HostOK /\ DiskOK /\ MemoryOK
BY DEF Ground, EngineInv, MonitorTypes

\* A step of a plan is taken by a run of that plan only.
LEMMA PlanOfStepBesides ==
    ASSUME Ground, NEW l \in Launchers, NEW s, Engine!Ready(l, s)
    PROVE  /\ s \in StartSteps => mode[l] = "connect" /\ plan[l] = StartSteps
           /\ s \in StopSteps => mode[l] = "disconnect" /\ plan[l] = StopSteps
           /\ s \in CleanupSteps => mode[l] = "disconnect" /\ plan[l] = CleanupSteps
<1>1. mode[l] \in {"connect", "disconnect"} /\ s \in plan[l]
    BY DEF Engine!Ready
<1>2. mode[l] = "connect" => plan[l] = StartSteps
    BY DEF Ground, MonitorSafe, OneStart, Starting
<1>3. mode[l] = "disconnect" => plan[l] \in {StopSteps, CleanupSteps}
    BY DEF Ground, MonitorSafe, Stops, StopInv
<1>4. StartSteps \cap (StopSteps \cup CleanupSteps) = {} /\ StopSteps \cap CleanupSteps = {}
    BY StartPlanMembers, StopPlanMembers, CleanupPlanMembers
<1> QED BY <1>1, <1>2, <1>3, <1>4

\* Who prepares has not come to the record.
LEMMA PreparingIsUnwritten ==
    ASSUME Ground, NEW l \in Launchers, Preparing(l)
    PROVE  Unwritten(l)
<1>1. mode[l] = "connect" /\ plan[l] = StartSteps
    BY DEF Ground, MonitorSafe, OneStart, Preparing, Starting
<1>2. "store-isolated-runtime-state" \notin attempted[l]
    BY <1>1, RecordRanks, StartPlanMembers DEF Preparing, Ground, EngineInv, Engine!InPlanOrder
<1> QED BY <1>1, <1>2 DEF Unwritten, Starting

\* A stop beside a start without a record does nothing after its read.
LEMMA SkippedBeside ==
    ASSUME Ground, NEW l \in Launchers, Unwritten(l), NEW k \in Launchers, NEW s,
           Engine!Ready(k, s), s \in StopSteps \cup CleanupSteps, s # "read-isolated-runtime-state"
    PROVE  s \in StopSteps /\ Skipped(k)
<1>1. mode[k] = "disconnect"
    BY PlanOfStepBesides
<1>2. plan[k] = StopSteps
    BY <1>1 DEF Ground, MonitorSafe, Alone, AsksInVain
<1>3. s \in StopSteps
    BY <1>2 DEF Engine!Ready
<1>4. Rank["read-isolated-runtime-state"] < Rank[s]
    BY <1>3, RecordRanks
<1>5. "read-isolated-runtime-state" \in attempted[k]
    BY <1>2, <1>4, EarlierAttempted, StopPlanMembers DEF Ground
<1> QED BY <1>1, <1>3, <1>5 DEF Ground, MonitorSafe, Alone, AsksInVain

\* The parts of the invariant by name, for a step that keeps each of them.
LEMMA SafeParts ==
    ASSUME OneStart', NothingYet', Preparation', Alone', Rollbacks', Stops', OutOfReach'
    PROVE  MonitorSafe'
BY DEF MonitorSafe

\* Who runs a plan has begun one.
LEMMA BegunIsNotNothing ==
    ASSUME Ground, \/ \E l \in Launchers : mode[l] # "off" \/ watch[l] # "none"
                   \/ store.file # "absent"
                   \/ \E p \in Pids : process[p] # "free"
    PROVE  ~ \A k \in Launchers : plan[k] = {}
BY DEF Ground, MonitorSafe, NothingYet

\* An apply of a start that succeeded, the launch apart.
LEMMA StartAppliedBesides ==
    ASSUME Ground, NEW l \in Launchers, NEW s \in StartSteps, Engine!ApplyOk(l, s),
           s # "launch-app-in-netns",
           NoApp => NoApp', abandoned' = abandoned,
           session.killSwitch \/ s = "apply-namespace-kill-switch" => session'.killSwitch,
           store' = store \/ s = "store-isolated-runtime-state",
           UNCHANGED <<seen, watch>>
    PROVE  MonitorSafe'
<1>1. mode[l] = "connect" /\ plan[l] = StartSteps
    BY PlanOfStepBesides DEF Engine!ApplyOk
<1>2. /\ mode' = mode /\ plan' = plan /\ undone' = undone
      /\ attempted'[l] = attempted[l] \cup {s} /\ applied'[l] = applied[l] \cup {s}
      /\ \A k \in Launchers \ {l} : attempted'[k] = attempted[k] /\ applied'[k] = applied[k]
    BY GroundTypes DEF Engine!ApplyOk, Engine!TypeOK
<1>3. \A k \in Launchers : Starting(k) => k = l
    BY <1>1 DEF Ground, MonitorSafe, OneStart, Starting
<1>4. OneStart'
    BY <1>2 DEF Ground, MonitorSafe, OneStart, Starting
<1>5. NothingYet'
    BY <1>1, <1>2, BegunIsNotNothing DEF NothingYet
<1>6. "store-isolated-runtime-state" \notin attempted[l]
    BY <1>1, RecordRanks, StartPlanMembers
    DEF Engine!ApplyOk, Engine!Ready, Ground, EngineInv, Engine!InPlanOrder
<1>7. Unwritten(l)
    BY <1>1, <1>6 DEF Unwritten, Starting
<1>8. Preparation'
  <2>1. \A k \in Launchers : Preparing(k)' => k = l /\ Preparing(l)
      BY <1>1, <1>2, <1>3 DEF Preparing, Starting
  <2> QED BY <1>2, <2>1 DEF Ground, MonitorSafe, Preparation
<1>9. Alone'
  <2>1. \A k \in Launchers : Unwritten(k)' => k = l /\ s # "store-isolated-runtime-state"
      BY <1>2, <1>3 DEF Unwritten, Starting
  <2>2. ASSUME NEW k \in Launchers PROVE AsksInVain(k)'
      BY <1>1, <1>2, <1>7 DEF Ground, MonitorSafe, Alone, AsksInVain, Skipped
  <2> QED BY <1>7, <2>1, <2>2 DEF Ground, MonitorSafe, Alone
<1>10. Rollbacks'
    BY <1>1, <1>2, <1>3 DEF Rollbacks, Starting
<1>11. Stops'
    BY <1>1, <1>2 DEF Ground, MonitorSafe, Stops, StopInv, Skipped
<1>12. OutOfReach'
    BY DEF Ground, MonitorSafe, OutOfReach
<1> QED BY <1>4, <1>5, <1>8, <1>9, <1>10, <1>11, <1>12, SafeParts

\* The launch: the kill switch is up, and whoever stops has read that there is
\* nothing, or has not read yet.
LEMMA LaunchedBesides ==
    ASSUME Ground, NEW l \in Launchers, NEW p \in Pids, LaunchApp(l, p)
    PROVE  MonitorSafe'
<1>1. Engine!ApplyOk(l, "launch-app-in-netns") /\ UNCHANGED <<session, store, seen, watch>>
    BY DEF LaunchApp, Done, diskVars
<1>2. Engine!Ready(l, "launch-app-in-netns")
    BY <1>1 DEF Engine!ApplyOk
<1>3. mode[l] = "connect" /\ plan[l] = StartSteps
    BY <1>2, PlanOfStepBesides, StartPlanMembers
<1>4. Preparing(l) /\ Unwritten(l)
    BY <1>2, <1>3, PreparingIsUnwritten DEF Preparing, Engine!Ready
<1>5. /\ mode' = mode /\ plan' = plan /\ undone' = undone
      /\ attempted'[l] = attempted[l] \cup {"launch-app-in-netns"}
      /\ \A k \in Launchers \ {l} : attempted'[k] = attempted[k] /\ applied'[k] = applied[k]
    BY <1>1, GroundTypes DEF Engine!ApplyOk, Engine!TypeOK
<1>6. \A k \in Launchers : Starting(k) => k = l
    BY <1>3 DEF Ground, MonitorSafe, OneStart, Starting
<1>7. OneStart'
    BY <1>5 DEF Ground, MonitorSafe, OneStart, Starting
<1>8. NothingYet'
    BY <1>3, <1>5, BegunIsNotNothing DEF NothingYet
<1>9. Preparation'
    BY <1>5, <1>6 DEF Preparation, Preparing, Starting
<1>10. Alone'
  <2>1. ASSUME NEW k \in Launchers PROVE AsksInVain(k)'
      BY <1>1, <1>3, <1>4, <1>5 DEF Ground, MonitorSafe, Alone, AsksInVain, Skipped
  <2> QED BY <1>1, <1>4, <2>1 DEF Ground, MonitorSafe, Alone
<1>11. Rollbacks'
    BY <1>3, <1>5, <1>6 DEF Rollbacks, Starting
<1>12. Stops'
  <2> SUFFICES ASSUME NEW k \in Launchers, mode'[k] = "disconnect" PROVE StopInv(k)'
      BY DEF Stops, StopInv
  <2>1. /\ k # l /\ mode[k] = "disconnect" /\ plan[k] = StopSteps /\ plan'[k] = StopSteps
        /\ "read-isolated-runtime-state" \in attempted[k] => Skipped(k)
      BY <1>3, <1>4, <1>5 DEF Ground, MonitorSafe, Alone, AsksInVain
  <2>2. attempted'[k] = attempted[k] /\ attempted[k] \subseteq StopSteps
      BY <1>5, <2>1 DEF Ground, EngineInv, Engine!Bookkeeping
  <2>3. ASSUME "stop-isolated-app" \in attempted[k] PROVE Skipped(k)
    <3>1. "read-isolated-runtime-state" \in attempted[k]
        BY <2>1, <2>3, RankFacts, StopPlanMembers DEF Ground, EngineInv, Engine!InPlanOrder
    <3> QED BY <2>1, <3>1
  <2>4. "cleanup-isolated-processes" \notin attempted[k]
      BY <2>2, StopPlanMembers
  <2> QED BY <1>1, <2>1, <2>2, <2>3, <2>4 DEF StopInv, Skipped
<1>13. OutOfReach'
  <2>1. "apply-namespace-kill-switch" \in applied[l]
      BY <1>2, <1>3, EarlierAttempted, AttemptedIsApplied, RankFacts, StartPlanMembers DEF Ground
  <2> QED BY <1>1, <1>4, <2>1 DEF Ground, MonitorSafe, Preparation, OutOfReach
<1> QED BY <1>7, <1>8, <1>9, <1>10, <1>11, <1>12, <1>13, SafeParts

\* An apply of a stop or a cleanup that succeeded.
LEMMA StopAppliedBesides ==
    ASSUME Ground, NEW l \in Launchers, NEW s \in StopSteps \cup CleanupSteps, Engine!ApplyOk(l, s),
           NoApp => NoApp', abandoned => abandoned',
           \/ session'.killSwitch = session.killSwitch
           \/ abandoned' /\ s # "read-isolated-runtime-state" /\ (s \in StopSteps => ~Skipped(l)),
           store' \in {store, Absent}, watch' = watch,
           \A k \in Launchers \ {l} : seen'[k] = seen[k],
           seen'[l] \in {seen[l], store},
           s # "read-isolated-runtime-state" => (Skipped(l) => Skipped(l)'),
           s = "read-isolated-runtime-state" => seen'[l] = store,
           s = "stop-isolated-app" => abandoned' \/ Skipped(l)',
           s = "cleanup-isolated-processes" => abandoned'
    PROVE  MonitorSafe'
<1>1. Engine!Ready(l, s)
    BY DEF Engine!ApplyOk
<1>2. mode[l] = "disconnect" /\ plan[l] \in {StopSteps, CleanupSteps} /\ s \in plan[l]
    BY <1>1, PlanOfStepBesides DEF Engine!Ready
<1>3. /\ mode' = mode /\ plan' = plan /\ undone' = undone
      /\ attempted'[l] = attempted[l] \cup {s}
      /\ \A k \in Launchers \ {l} : attempted'[k] = attempted[k] /\ applied'[k] = applied[k]
    BY GroundTypes DEF Engine!ApplyOk, Engine!TypeOK
<1>4. OneStart'
    BY <1>3 DEF Ground, MonitorSafe, OneStart, Starting
<1>5. NothingYet'
    BY <1>2, <1>3, BegunIsNotNothing DEF NothingYet
<1>6. Preparation'
  <2> SUFFICES ASSUME NEW k \in Launchers, Preparing(k)'
               PROVE  NoApp' /\ ("apply-namespace-kill-switch" \in applied'[k] => session'.killSwitch)
      BY DEF Preparation
  <2>1. k # l /\ Preparing(k)
      BY <1>2, <1>3 DEF Preparing
  <2>2. session'.killSwitch = session.killSwitch
      BY <1>1, <2>1, PreparingIsUnwritten, SkippedBeside
  <2> QED BY <1>3, <2>1, <2>2 DEF Ground, MonitorSafe, Preparation
<1>7. Alone'
  <2> SUFFICES ASSUME NEW k \in Launchers, Unwritten(k)'
               PROVE  /\ store'.file = "absent"
                      /\ \A j \in Launchers : watch'[j] = "none" /\ seen'[j].file # "whole" /\ AsksInVain(j)'
      BY DEF Alone
  <2>1. k # l /\ Unwritten(k)
      BY <1>2, <1>3 DEF Unwritten, Starting
  <2>2. ASSUME NEW j \in Launchers PROVE AsksInVain(j)'
    <3>1. CASE j = l /\ s = "read-isolated-runtime-state"
        BY <1>3, <2>1, <3>1 DEF Ground, MonitorSafe, Alone, AsksInVain, Skipped
    <3>2. CASE j = l /\ s # "read-isolated-runtime-state"
        BY <1>1, <1>3, <2>1, <3>2, SkippedBeside DEF Ground, MonitorSafe, Alone, AsksInVain
    <3>3. CASE j # l
        BY <1>3, <2>1, <3>3 DEF Ground, MonitorSafe, Alone, AsksInVain, Skipped
    <3> QED BY <3>1, <3>2, <3>3
  <2> QED BY <2>1, <2>2 DEF Ground, MonitorSafe, Alone, Absent
<1>8. Rollbacks'
    BY <1>2, <1>3 DEF Ground, MonitorSafe, Rollbacks
<1>9. Stops'
  <2>1. s = "read-isolated-runtime-state" => "stop-isolated-app" \notin attempted'[l]
      BY <1>1, <1>2, <1>3, RankFacts, StopPlanMembers, CleanupPlanMembers
         DEF Ground, EngineInv, Engine!InPlanOrder, Engine!Ready
  <2>2. StopInv(l)'
      BY <1>2, <1>3, <2>1 DEF Ground, MonitorSafe, Stops, StopInv
  <2>3. ASSUME NEW k \in Launchers, k # l PROVE StopInv(k)'
      BY <1>3, <2>3 DEF Ground, MonitorSafe, Stops, StopInv, Skipped
  <2> QED BY <2>2, <2>3 DEF Stops
<1>10. OutOfReach'
    BY DEF Ground, MonitorSafe, OutOfReach
<1> QED BY <1>4, <1>5, <1>6, <1>7, <1>8, <1>9, <1>10, SafeParts

\* A part of a step writes no record, but for that of storing it.
LEMMA InterruptedStore ==
    ASSUME NEW l \in Launchers, NEW s, Interrupted(l, s), s # "store-isolated-runtime-state"
    PROVE  store' \in {store, Absent}
BY DEF Interrupted, RootPartlyRemoved, diskVars

\* Nothing of a stop fails beside a start without a record.
LEMMA NoFailureBeside ==
    ASSUME Ground, Undisturbed, NEW l \in Launchers, Unwritten(l),
           NEW k \in Launchers, mode[k] = "disconnect", NEW s \in plan[k], StepFails(k, s)
    PROVE  FALSE
<1>1. Engine!Ready(k, s) /\ (~Works(k, s) \/ CanBreak(k, s))
    BY DEF StepFails, Engine!ApplyFail
<1>2. k \in Stoppers /\ plan[k] = StopSteps /\ store.file = "absent" /\ k # l /\ l \in Starters
    BY DEF Ground, MonitorSafe, Alone, AsksInVain, OneStart, Unwritten, Starting
<1>3. CASE s = "read-isolated-runtime-state"
  <2>1. Works(k, s)
      BY <1>2, <1>3 DEF Works
  <2>2. "read-isolated-runtime-state" \notin Breaks
      BY <1>2 DEF Undisturbed
  <2> QED BY <1>1, <1>3, <2>1, <2>2 DEF CanBreak
<1>4. CASE s # "read-isolated-runtime-state"
  <2>1. Skipped(k) /\ s \in StopSteps
      BY <1>1, <1>2, <1>4, SkippedBeside
  <2>2. Works(k, s)
      BY <1>4, <2>1, StopPlanMembers DEF Works
  <2>3. ~CanBreak(k, s)
      BY <1>4, <2>1 DEF CanBreak
  <2> QED BY <1>1, <2>2, <2>3
<1> QED BY <1>3, <1>4

\* A step that fails: a start turns to its rollback, a stop goes on.
LEMMA FailureBesides ==
    ASSUME Ground, Undisturbed, NEW l \in Launchers, NEW s \in plan[l], StepFails(l, s)
    PROVE  MonitorSafe'
<1>1. Engine!Ready(l, s) /\ mode[l] \in {"connect", "disconnect"}
    BY DEF StepFails, Engine!ApplyFail, Engine!Ready
<1>2. /\ plan' = plan /\ applied' = applied /\ undone' = undone
      /\ attempted'[l] = attempted[l] \cup {s}
      /\ mode'[l] = IF mode[l] = "connect" THEN "rollback" ELSE mode[l]
      /\ \A k \in Launchers \ {l} : attempted'[k] = attempted[k] /\ mode'[k] = mode[k]
    BY GroundTypes DEF StepFails, Engine!ApplyFail, Engine!ModeAfterError, Engine!TypeOK
<1>3. session'.killSwitch = session.killSwitch /\ (NoApp => NoApp') /\ (abandoned => abandoned')
    BY GroundTypes, InterruptedIsSafe DEF StepFails
<1>4. seen'[l] \in {seen[l], store} /\ \A k \in Launchers \ {l} : seen'[k] = seen[k]
    BY GroundTypes DEF StepFails, Remember, Known, MemoryOK
<1>5. OneStart'
    BY <1>1, <1>2 DEF Ground, MonitorSafe, OneStart, Starting
<1>6. NothingYet'
    BY <1>1, <1>2, BegunIsNotNothing DEF NothingYet
<1>7. OutOfReach'
    BY <1>3 DEF Ground, MonitorSafe, OutOfReach
<1>8. \A k \in Launchers \ {l} : StopInv(k)'
    BY <1>2, <1>3, <1>4 DEF Ground, MonitorSafe, Stops, StopInv, Skipped
<1>9. CASE mode[l] = "connect"
  <2>1. \A k \in Launchers : Starting(k) => k = l
      BY <1>9 DEF Ground, MonitorSafe, OneStart, Starting
  <2>2. Preparation'
      BY <1>2, <1>9, <2>1 DEF Preparation, Preparing, Starting
  <2>3. Alone'
    <3> SUFFICES ASSUME NEW k \in Launchers, Unwritten(k)'
                 PROVE  /\ store'.file = "absent"
                        /\ \A j \in Launchers : watch'[j] = "none" /\ seen'[j].file # "whole" /\ AsksInVain(j)'
        BY DEF Alone
    <3>1. k = l /\ Unwritten(l) /\ s # "store-isolated-runtime-state"
        BY <1>2, <1>9, <2>1 DEF Unwritten, Starting
    <3>2. store' \in {store, Absent} /\ watch' = watch
        BY <3>1, InterruptedStore DEF StepFails
    <3>3. ASSUME NEW j \in Launchers PROVE AsksInVain(j)'
        BY <1>2, <1>4, <1>9, <3>1 DEF Ground, MonitorSafe, Alone, AsksInVain, Skipped
    <3> QED BY <1>4, <3>1, <3>2, <3>3 DEF Ground, MonitorSafe, Alone, Absent
  <2>4. attempted[l] = applied[l] /\ undone[l] = {}
      BY <1>9, AttemptedIsApplied DEF Ground
  <2>5. "launch-app-in-netns" \notin applied[l] => NoApp
      BY <1>9, <2>4 DEF Ground, MonitorSafe, Preparation, Preparing
  <2>6. Rollbacks'
      BY <1>2, <1>3, <2>1, <2>4, <2>5 DEF Rollbacks, Starting
  <2>7. Stops'
      BY <1>2, <1>8, <1>9 DEF Stops, StopInv
  <2> QED BY <1>5, <1>6, <1>7, <2>2, <2>6, <2>7, <2>3, SafeParts
<1>10. CASE mode[l] = "disconnect"
  <2>1. \A k \in Launchers : ~Preparing(k)' /\ ~Unwritten(k)'
    <3> SUFFICES ASSUME NEW k \in Launchers, Preparing(k)' \/ Unwritten(k)' PROVE FALSE
        OBVIOUS
    <3>1. Preparing(k) \/ Unwritten(k)
        BY <1>2, <1>10 DEF Preparing, Unwritten, Starting
    <3> QED BY <1>10, <3>1, NoFailureBeside, PreparingIsUnwritten
  <2>2. Preparation' /\ Alone'
      BY <2>1 DEF Preparation, Alone
  <2>3. Rollbacks'
      BY <1>2, <1>3, <1>10 DEF Ground, MonitorSafe, Rollbacks
  <2>4. plan[l] \in {StopSteps, CleanupSteps}
      BY <1>10 DEF Ground, MonitorSafe, Stops, StopInv
  <2>5. s # "cleanup-isolated-processes"
    <3> SUFFICES ASSUME s = "cleanup-isolated-processes" PROVE FALSE
        OBVIOUS
    <3>1. s \in CleanupSteps /\ s \notin StopSteps
        BY StopPlanMembers, CleanupPlanMembers
    <3>2. Works(l, s)
        BY <3>1 DEF Works
    <3>3. ~CanBreak(l, s)
        BY <3>1 DEF CanBreak
    <3> QED BY <3>2, <3>3 DEF StepFails
  <2>6. Skipped(l) => Skipped(l)'
      BY GroundTypes, RememberKeepsSkipped DEF StepFails, Skipped
  <2>7. s = "stop-isolated-app" => abandoned'
      BY DEF StepFails
  <2>8. StopInv(l)'
      BY <1>2, <1>3, <1>10, <2>4, <2>5, <2>6, <2>7 DEF Ground, MonitorSafe, Stops, StopInv
  <2> QED BY <1>5, <1>6, <1>7, <1>8, <2>3, <2>8, <2>2, SafeParts DEF Stops
<1> QED BY <1>1, <1>9, <1>10

\* An undo, done or not.
LEMMA UndoneBesides ==
    ASSUME Ground, NEW l \in Launchers, NEW s, Engine!UndoOk(l, s) \/ Engine!UndoFail(l, s),
           OutOfReach', abandoned => abandoned', NoApp => NoApp',
           s = "launch-app-in-netns" => abandoned', UNCHANGED <<seen, watch>>, store' \in {store, Absent}
    PROVE  MonitorSafe'
<1>1. /\ mode[l] = "rollback" /\ mode' = mode /\ plan' = plan
      /\ attempted' = attempted /\ applied' = applied /\ undone'[l] = undone[l] \cup {s}
    BY GroundTypes DEF Engine!UndoOk, Engine!UndoFail, Engine!ReadyToUndo, Engine!TypeOK
<1>2. \A k \in Launchers : Starting(k) => k = l
    BY <1>1 DEF Ground, MonitorSafe, OneStart, Starting
<1>3. OneStart'
    BY <1>1 DEF Ground, MonitorSafe, OneStart, Starting
<1>4. NothingYet'
    BY <1>1, BegunIsNotNothing DEF NothingYet
<1>5. Preparation'
    BY <1>1, <1>2 DEF Preparation, Preparing, Starting
<1>6. Alone'
    BY <1>1, <1>2 DEF Ground, MonitorSafe, Alone, AsksInVain, Unwritten, Starting, Skipped, Absent
<1>7. Rollbacks'
    BY <1>1, <1>2 DEF Ground, MonitorSafe, Rollbacks, Starting
<1>8. Stops'
    BY <1>1 DEF Ground, MonitorSafe, Stops, StopInv, Skipped
<1> QED BY <1>3, <1>4, <1>5, <1>6, <1>7, <1>8, SafeParts

\* The end of a run, and its death.
LEMMA EndedBesides ==
    ASSUME Ground, NEW l \in Launchers, mode[l] # "off", mode' = [mode EXCEPT ![l] = "off"],
           UNCHANGED <<plan, attempted, applied, undone>>,
           session'.killSwitch = session.killSwitch, NoApp => NoApp', abandoned => abandoned',
           Starting(l) \/ store' \in {store, Absent},
           Starting(l) \/ \A k \in Launchers : watch[k] = "none" => watch'[k] = "none",
           seen'[l] \in {seen[l], Unread}, \A k \in Launchers \ {l} : seen'[k] = seen[k]
    PROVE  MonitorSafe'
<1>1. mode'[l] = "off" /\ \A k \in Launchers \ {l} : mode'[k] = mode[k]
    BY GroundTypes DEF Engine!TypeOK
<1>2. OneStart'
    BY <1>1 DEF Ground, MonitorSafe, OneStart, Starting
<1>3. NothingYet'
    BY BegunIsNotNothing DEF NothingYet
<1>4. \A k \in Launchers : (Preparing(k)' => Preparing(k)) /\ (Unwritten(k)' => Unwritten(k) /\ ~Starting(l))
    BY <1>1 DEF Ground, MonitorSafe, OneStart, Preparing, Unwritten, Starting
<1>5. Preparation'
    BY <1>4 DEF Ground, MonitorSafe, Preparation
<1>6. Alone'
  <2> SUFFICES ASSUME NEW k \in Launchers, Unwritten(k)'
               PROVE  /\ store'.file = "absent"
                      /\ \A j \in Launchers : watch'[j] = "none" /\ seen'[j].file # "whole" /\ AsksInVain(j)'
      BY DEF Alone
  <2> QED BY <1>1, <1>4 DEF Ground, MonitorSafe, Alone, AsksInVain, Skipped, Absent, Unread
<1>7. Rollbacks'
    BY <1>1 DEF Ground, MonitorSafe, Rollbacks
<1>8. Stops'
    BY <1>1 DEF Ground, MonitorSafe, Stops, StopInv, Skipped
<1>9. OutOfReach'
    BY DEF Ground, MonitorSafe, OutOfReach
<1> QED BY <1>2, <1>3, <1>7, <1>8, <1>9, <1>5, <1>6, SafeParts

\* What happens between the turns of runs: around a waiting process there is no
\* start that prepares, and something has begun.
LEMMA AsideBesides ==
    ASSUME Ground, UNCHANGED engineVars,
           session'.killSwitch = session.killSwitch, NoApp => NoApp', abandoned' = abandoned,
           \/ /\ UNCHANGED <<root, store, watch, seen>>
              /\ UNCHANGED <<session, process>> \/ \E p \in Pids : process[p] # "free"
           \/ store.file # "absent"
           \/ \E m \in Launchers : watch[m] # "none",
           \A k \in Launchers : mode[k] # "off" => seen'[k] = seen[k]
    PROVE  MonitorSafe'
<1>1. OneStart'
    BY DEF Ground, MonitorSafe, OneStart, Starting, engineVars
<1>2. NothingYet'
    BY BegunIsNotNothing
    DEF Ground, MonitorSafe, NothingYet, Clear, ClearOfNames, NoWSTunnel, engineVars
<1>3. Preparation'
    BY DEF Ground, MonitorSafe, Preparation, Preparing, engineVars
<1>4. Alone'
  <2> SUFFICES ASSUME NEW k \in Launchers, Unwritten(k)'
               PROVE  /\ store'.file = "absent"
                      /\ \A j \in Launchers : watch'[j] = "none" /\ seen'[j].file # "whole" /\ AsksInVain(j)'
      BY DEF Alone
  <2>1. Unwritten(k)
      BY DEF Unwritten, Starting, engineVars
  <2>2. UNCHANGED <<store, watch, seen>>
      BY <2>1 DEF Ground, MonitorSafe, Alone
  <2> QED BY <2>1, <2>2 DEF Ground, MonitorSafe, Alone, AsksInVain, Skipped, engineVars
<1>5. Rollbacks'
    BY DEF Ground, MonitorSafe, Rollbacks, engineVars
<1>6. Stops'
    BY DEF Ground, MonitorSafe, Stops, StopInv, Skipped, engineVars
<1>7. OutOfReach'
    BY DEF Ground, MonitorSafe, OutOfReach
<1> QED BY <1>1, <1>2, <1>3, <1>5, <1>6, <1>7, <1>4, SafeParts

\* The first run, or one that begins while no start prepares, or a stop that a
\* person asked for.
LEMMA BegunBesides ==
    ASSUME Ground, NEW l \in Launchers, NEW kind, NEW steps, Engine!Begin(l, kind, steps), steps # {},
           UNCHANGED <<session, process, store, abandoned>>,
           \/ /\ kind = "connect" /\ steps = StartSteps /\ l \in Starters
              /\ \A k \in Launchers : plan[k] = {}
           \/ kind = "disconnect" /\ steps = StopSteps /\ l \in Stoppers
           \/ /\ kind = "disconnect" /\ steps \in {StopSteps, CleanupSteps}
              /\ \A k \in Launchers : ~Unwritten(k),
           \A k \in Launchers : watch[k] = "none" => watch'[k] = "none",
           seen'[l] = Unread, \A k \in Launchers \ {l} : seen'[k] = seen[k]
    PROVE  MonitorSafe'
<1>1. /\ mode[l] = "off" /\ mode'[l] = kind /\ plan'[l] = steps /\ attempted'[l] = {}
      /\ applied'[l] = {} /\ undone'[l] = {}
      /\ \A k \in Launchers \ {l} :
            /\ mode'[k] = mode[k] /\ plan'[k] = plan[k] /\ attempted'[k] = attempted[k]
            /\ applied'[k] = applied[k] /\ undone'[k] = undone[k]
    BY GroundTypes DEF Engine!Begin, Engine!TypeOK
<1>2. OneStart'
    BY <1>1 DEF Ground, MonitorSafe, OneStart, NothingYet, Starting
<1>3. NothingYet'
    BY <1>1 DEF NothingYet
<1>4. Preparation'
  <2>1. CASE \A k \in Launchers : plan[k] = {}
      BY <1>1, <2>1 DEF Ground, MonitorSafe, NothingYet, Preparation, Preparing, NoApp
  <2>2. CASE kind = "disconnect"
      BY <1>1, <2>2 DEF Ground, MonitorSafe, Preparation, Preparing, NoApp
  <2> QED BY <2>1, <2>2
<1>5. Alone'
  <2>1. CASE \A k \in Launchers : plan[k] = {}
      BY <1>1, <2>1 DEF Ground, MonitorSafe, NothingYet, Alone, AsksInVain, Unwritten, Starting,
                         Unread, Absent
  <2>2. CASE kind = "disconnect" /\ \A k \in Launchers : ~Unwritten(k)
      BY <1>1, <2>2 DEF Alone, Unwritten, Starting
  <2>3. CASE kind = "disconnect" /\ steps = StopSteps /\ l \in Stoppers
      BY <1>1, <2>3 DEF Ground, MonitorSafe, Alone, AsksInVain, Unwritten, Starting,
                         Skipped, Unread, Absent
  <2> QED BY <2>1, <2>2, <2>3
<1>6. Rollbacks'
    BY <1>1 DEF Ground, MonitorSafe, Rollbacks, NoApp, Engine!Begin
<1>7. Stops'
    BY <1>1 DEF Ground, MonitorSafe, Stops, StopInv, Skipped
<1>8. OutOfReach'
    BY DEF Ground, MonitorSafe, OutOfReach, NoApp
<1> QED BY <1>2, <1>3, <1>4, <1>6, <1>7, <1>8, <1>5, SafeParts

\* The recovery cleans nothing up beside a start: it would be that start's own
\* launcher.
LEMMA RecoveryWaits ==
    ASSUME Ground, Undisturbed, NEW l \in Launchers, RecoveryCleans(l)
    PROVE  \A k \in Launchers : ~Unwritten(k)
<1>1. mode[l] = "off" /\ l \in Recoverers
    BY DEF RecoveryCleans, CleanupIsolatedApp, Begins, Engine!Begin
<1> QED BY <1>1 DEF Ground, MonitorSafe, OneStart, Undisturbed, Unwritten, Starting

LEMMA StartStepBesides ==
    ASSUME Ground, NEW l \in Launchers, StartStep(l)
    PROVE  MonitorSafe'
<1> USE GroundTypes, StartPlanMembers
<1>1. ASSUME NEW s \in StartSteps, NEW new, Changes(l, s, new),
             session.killSwitch \/ s = "apply-namespace-kill-switch" => new.killSwitch,
             s # "launch-app-in-netns"
      PROVE  MonitorSafe'
    BY <1>1, StartAppliedBesides DEF Changes, Done, diskVars, memoryVars, observationVars, NoApp
<1>2. ASSUME OnlyConfigures(l) PROVE MonitorSafe'
    BY <1>1, <1>2 DEF OnlyConfigures
<1>3. ASSUME CreateRuntimeRoot(l) PROVE MonitorSafe'
    BY <1>3, StartAppliedBesides DEF CreateRuntimeRoot, Done, memoryVars, observationVars, NoApp
<1>4. ASSUME CreateNetns(l) PROVE MonitorSafe'
    BY <1>1, <1>4 DEF CreateNetns, HostOK, Session
<1>5. ASSUME CreateVethPair(l) PROVE MonitorSafe'
    BY <1>1, <1>5 DEF CreateVethPair, HostOK, Session
<1>6. ASSUME ConfigureNamespaceDNS(l) PROVE MonitorSafe'
    BY <1>1, <1>6 DEF ConfigureNamespaceDNS, HostOK, Session
<1>7. ASSUME CreateWireGuard(l) PROVE MonitorSafe'
    BY <1>1, <1>7 DEF CreateWireGuard, HostOK, Session
<1>8. ASSUME ApplyClientRoutes(l) PROVE MonitorSafe'
    BY <1>1, <1>8 DEF ApplyClientRoutes, HostOK, Session
<1>9. ASSUME ApplyKillSwitch(l) PROVE MonitorSafe'
    BY <1>1, <1>9 DEF ApplyKillSwitch, Filtered, HostOK, Session
<1>10. ASSUME NEW p \in Pids, StartWSTunnelControl(l, p) PROVE MonitorSafe'
  <2>1. NoApp => NoApp'
      BY <1>10 DEF StartWSTunnelControl, NoApp, HostOK
  <2> QED BY <1>10, <2>1, StartAppliedBesides DEF StartWSTunnelControl, Done, diskVars, observationVars
<1>11. ASSUME NEW p \in Pids, LaunchApp(l, p) PROVE MonitorSafe'
    BY <1>11, LaunchedBesides
<1>12. ASSUME StoreRuntimeState(l) PROVE MonitorSafe'
    BY <1>12, StartAppliedBesides DEF StoreRuntimeState, Done, memoryVars, observationVars, NoApp
<1> QED BY <1>2, <1>3, <1>4, <1>5, <1>6, <1>7, <1>8, <1>9, <1>10, <1>11, <1>12 DEF StartStep

\* When a stop comes to opening the way out, it has turned to the application;
\* so has a cleanup.
LEMMA TurnedToAppBesides ==
    ASSUME Ground, NEW l \in Launchers, NEW s, Engine!Ready(l, s)
    PROVE  /\ s \in {"remove-namespace-kill-switch", "delete-netns"} => abandoned \/ Skipped(l)
           /\ s \in {"cleanup-namespace-kill-switch", "cleanup-netns"} => abandoned
<1>1. CASE s \in {"remove-namespace-kill-switch", "delete-netns"}
    BY <1>1, PlanOfStepBesides, EarlierAttempted, RankFacts, StopPlanMembers, CleanupPlanMembers
       DEF Ground, MonitorSafe, Stops, StopInv
<1>2. CASE s \in {"cleanup-namespace-kill-switch", "cleanup-netns"}
    BY <1>2, PlanOfStepBesides, EarlierAttempted, RankFacts, StopPlanMembers, CleanupPlanMembers
       DEF Ground, MonitorSafe, Stops, StopInv
<1> QED BY <1>1, <1>2

LEMMA StopStepBesides ==
    ASSUME Ground, NEW l \in Launchers, StopStep(l)
    PROVE  MonitorSafe'
<1> USE GroundTypes
<1>1. ASSUME ReadRuntimeState(l) PROVE MonitorSafe'
    BY <1>1, StopAppliedBesides, StopPlanMembers
       DEF ReadRuntimeState, Done, diskVars, observationVars, NoApp, MemoryOK
<1>2. ASSUME NEW s \in StopSteps, Dependent(l, s), s # "read-isolated-runtime-state",
             NoApp => NoApp', abandoned => abandoned',
             session'.killSwitch = session.killSwitch \/ (abandoned' /\ ~Skipped(l)),
             s = "stop-isolated-app" => abandoned' \/ Skipped(l)
      PROVE  MonitorSafe'
  <2>1. Skipped(l) => Skipped(l)'
      BY <1>2, RememberKeepsSkipped DEF Dependent
  <2>2. seen'[l] \in {seen[l], store} /\ \A k \in Launchers \ {l} : seen'[k] = seen[k]
      BY <1>2 DEF Dependent, Remember, Known, MemoryOK
  <2> QED BY <1>2, <2>1, <2>2, StopAppliedBesides, StopPlanMembers, CleanupPlanMembers
             DEF Dependent, Done, diskVars
<1>3. ASSUME StopMonitor(l) PROVE MonitorSafe'
    BY <1>2, <1>3, StopPlanMembers DEF StopMonitor, NoApp
<1>4. ASSUME StopApp(l) PROVE MonitorSafe'
  <2>1. NoApp => NoApp'
      BY <1>4 DEF StopApp, NamespaceStopped, NoApp
  <2> QED BY <1>2, <1>4, <2>1, StopPlanMembers DEF StopApp
<1>5. ASSUME NEW s \in StopSteps, NEW new, Removes(l, s, new), s # "read-isolated-runtime-state",
             s # "stop-isolated-app",
             new.killSwitch = session.killSwitch \/ abandoned \/ Skipped(l)
      PROVE  MonitorSafe'
    BY <1>2, <1>5 DEF Removes, NoApp
<1>6. ASSUME RemoveKillSwitch(l) PROVE MonitorSafe'
  <2>1. abandoned \/ Skipped(l)
      BY <1>6, TurnedToAppBesides DEF RemoveKillSwitch, Removes, Dependent, Done, Engine!ApplyOk
  <2> QED BY <1>5, <1>6, <2>1, StopPlanMembers DEF RemoveKillSwitch
<1>7. ASSUME RemoveClientRoutes(l) PROVE MonitorSafe'
    BY <1>5, <1>7, StopPlanMembers DEF RemoveClientRoutes, HostOK, Session
<1>8. ASSUME RemoveWireGuard(l) PROVE MonitorSafe'
    BY <1>5, <1>8, StopPlanMembers DEF RemoveWireGuard, InterfaceDeleted, HostOK, Session
<1>9. ASSUME RemoveNamespaceDNS(l) PROVE MonitorSafe'
    BY <1>5, <1>9, StopPlanMembers DEF RemoveNamespaceDNS, HostOK, Session
<1>10. ASSUME StopWSTunnelControl(l) PROVE MonitorSafe'
  <2>1. NoApp => NoApp'
      BY <1>10 DEF StopWSTunnelControl, Stopped, NoApp, HostOK
  <2> QED BY <1>2, <1>10, <2>1, StopPlanMembers DEF StopWSTunnelControl
<1>11. ASSUME DeleteNetns(l) PROVE MonitorSafe'
  <2>1. abandoned \/ Skipped(l)
      BY <1>11, TurnedToAppBesides DEF DeleteNetns, Dependent, Done, Engine!ApplyOk
  <2>2. NoApp => NoApp'
      BY <1>11 DEF DeleteNetns, NetnsDeleted, NoApp
  <2> QED BY <1>2, <1>11, <2>1, <2>2, StopPlanMembers DEF DeleteNetns
<1>12. ASSUME ClearRuntimeState(l) PROVE MonitorSafe'
  <2>1. store' \in {store, Absent}
      BY <1>12 DEF ClearRuntimeState, diskVars
  <2> QED BY <1>12, <2>1, StopAppliedBesides, StopPlanMembers, CleanupPlanMembers
             DEF ClearRuntimeState, Done, memoryVars, observationVars, NoApp, Skipped
<1> QED BY <1>1, <1>3, <1>4, <1>6, <1>7, <1>8, <1>9, <1>10, <1>11, <1>12 DEF StopStep

LEMMA CleanupStepBesides ==
    ASSUME Ground, NEW l \in Launchers, CleanupStep(l)
    PROVE  MonitorSafe'
<1> USE GroundTypes
<1>1. ASSUME NEW s \in CleanupSteps, Engine!ApplyOk(l, s), UNCHANGED memoryVars, store' \in {store, Absent},
             NoApp => NoApp', abandoned => abandoned',
             session'.killSwitch = session.killSwitch \/ abandoned',
             s = "cleanup-isolated-processes" => abandoned'
      PROVE  MonitorSafe'
    BY <1>1, StopAppliedBesides, StopPlanMembers, CleanupPlanMembers DEF memoryVars, Skipped
<1>2. ASSUME NEW s \in CleanupSteps, NEW change, IgnoredOr(l, s, change), change => (NoApp => NoApp'),
             abandoned => abandoned', session'.killSwitch = session.killSwitch \/ abandoned',
             s = "cleanup-isolated-processes" => abandoned'
      PROVE  MonitorSafe'
  <2>1. NoApp => NoApp'
      BY <1>2 DEF IgnoredOr, NoApp
  <2> QED BY <1>1, <1>2, <2>1 DEF IgnoredOr, Done, diskVars
<1>3. ASSUME CleanupProcesses(l) PROVE MonitorSafe'
  <2>1. NamespaceStopped({}) /\ UNCHANGED session => (NoApp => NoApp')
      BY DEF NamespaceStopped, NoApp
  <2> QED BY <1>2, <1>3, <2>1, CleanupPlanMembers DEF CleanupProcesses
<1>4. ASSUME CleanupKillSwitch(l) PROVE MonitorSafe'
  <2>1. abandoned
      BY <1>4, TurnedToAppBesides DEF CleanupKillSwitch, IgnoredOr, Done, Engine!ApplyOk
  <2>2. session' = Flushed /\ UNCHANGED process => (NoApp => NoApp')
      BY DEF NoApp
  <2> QED BY <1>2, <1>4, <2>1, <2>2, CleanupPlanMembers DEF CleanupKillSwitch
<1>5. ASSUME CleanupWireGuard(l) PROVE MonitorSafe'
  <2>1. session'.killSwitch = session.killSwitch /\ process' = process /\ abandoned' = abandoned
      BY <1>5 DEF CleanupWireGuard, IgnoredOr, InterfaceDeleted, HostOK, Session
  <2> QED BY <1>1, <1>5, <2>1, CleanupPlanMembers DEF CleanupWireGuard, IgnoredOr, Done, diskVars, NoApp
<1>6. ASSUME CleanupNetns(l) PROVE MonitorSafe'
  <2>1. abandoned /\ abandoned' = abandoned
      BY <1>6, TurnedToAppBesides DEF CleanupNetns, IgnoredOr, Done, Engine!ApplyOk
  <2>2. NoApp => NoApp'
    <3>1. CASE UNCHANGED process
        BY <3>1 DEF NoApp
    <3>2. ASSUME NEW veth, NetnsDeleted(veth) PROVE NoApp => NoApp'
        BY <3>2 DEF NetnsDeleted, NoApp
    <3> QED BY <1>6, <3>1, <3>2 DEF CleanupNetns, IgnoredOr
  <2> QED BY <1>1, <1>6, <2>1, <2>2, CleanupPlanMembers DEF CleanupNetns, IgnoredOr, Done, diskVars
<1>7. ASSUME CleanupDNS(l) PROVE MonitorSafe'
  <2>1. session'.killSwitch = session.killSwitch /\ process' = process /\ abandoned' = abandoned
      BY <1>7 DEF CleanupDNS, Changes, observationVars, HostOK, Session
  <2> QED BY <1>1, <1>7, <2>1, CleanupPlanMembers DEF CleanupDNS, Changes, Done, diskVars, NoApp
<1>8. ASSUME CleanupRuntimeRoot(l) PROVE MonitorSafe'
    BY <1>1, <1>8, CleanupPlanMembers DEF CleanupRuntimeRoot, Done, observationVars, NoApp
<1> QED BY <1>3, <1>4, <1>5, <1>6, <1>7, <1>8 DEF CleanupStep

\* A rollback opens the way out only after it has turned to the application,
\* or of a namespace nothing was launched in.
LEMMA LaunchUndoneBesides ==
    ASSUME Ground, NEW l \in Launchers,
           NEW s \in {"create-netns", "apply-namespace-kill-switch"}, Engine!ReadyToUndo(l, s)
    PROVE  abandoned \/ NoApp
<1>1. mode[l] = "rollback" /\ s \in applied[l]
    BY DEF Engine!ReadyToUndo, Engine!ToUndo
<1>2. CASE "launch-app-in-netns" \in applied[l]
  <2>1. Rank[s] < Rank["launch-app-in-netns"]
      BY RankFacts
  <2>2. Rank[s] \in Nat /\ Rank["launch-app-in-netns"] \in Nat
      BY PlaceIsNatural, InSteps DEF Rank
  <2>3. "launch-app-in-netns" \notin Engine!ToUndo(l)
      BY <2>1, <2>2 DEF Engine!ReadyToUndo
  <2>4. "launch-app-in-netns" \in undone[l]
      BY <1>2, <2>3, StartPlanMembers DEF Engine!ToUndo, Undoable
  <2> QED BY <1>1, <2>4 DEF Ground, MonitorSafe, Rollbacks
<1>3. CASE "launch-app-in-netns" \notin applied[l]
    BY <1>1, <1>3 DEF Ground, MonitorSafe, Rollbacks
<1> QED BY <1>2, <1>3

LEMMA UndoStepBesides ==
    ASSUME Ground, NEW l \in Launchers, UndoStep(l)
    PROVE  MonitorSafe'
<1> USE GroundTypes
<1>1. ASSUME NEW s, Engine!UndoOk(l, s) \/ Engine!UndoFail(l, s), abandoned' = abandoned,
             UNCHANGED <<seen, watch>>, store' \in {store, Absent},
             session'.killSwitch = session.killSwitch, NoApp => NoApp', s # "launch-app-in-netns"
      PROVE  MonitorSafe'
    BY <1>1, UndoneBesides DEF Ground, MonitorSafe, OutOfReach
<1>2. ASSUME UndoNothing(l) PROVE MonitorSafe'
    BY <1>1, <1>2 DEF UndoNothing, diskVars, memoryVars, observationVars, NoApp
<1>3. ASSUME UndoRuntimeRoot(l) PROVE MonitorSafe'
    BY <1>1, <1>3 DEF UndoRuntimeRoot, RootPartlyRemoved, memoryVars, observationVars, NoApp
<1>4. ASSUME UndoNetns(l) PROVE MonitorSafe'
  <2>1. Engine!UndoOk(l, "create-netns") \/ Engine!UndoFail(l, "create-netns")
      BY <1>4 DEF UndoNetns
  <2>2. abandoned \/ NoApp
      BY <2>1, LaunchUndoneBesides DEF Engine!UndoOk, Engine!UndoFail
  <2>3. UNCHANGED <<abandoned, seen, watch, store>>
      BY <1>4 DEF UndoNetns, diskVars, memoryVars, observationVars
  <2>4. NoApp => NoApp'
    <3>1. CASE UNCHANGED process
        BY <3>1 DEF NoApp
    <3>2. CASE NetnsDeleted(session.veth)
        BY <3>2 DEF NetnsDeleted, NoApp
    <3> QED BY <1>4, <3>1, <3>2 DEF UndoNetns
  <2> QED BY <2>1, <2>2, <2>3, <2>4, UndoneBesides DEF OutOfReach
<1>5. ASSUME NEW s, NEW there, NEW new, Undoes(l, s, there, new), new.killSwitch = session.killSwitch,
             s # "launch-app-in-netns"
      PROVE  MonitorSafe'
    BY <1>1, <1>5 DEF Undoes, diskVars, memoryVars, observationVars, NoApp
<1>6. ASSUME NEW s \in applied[l], UndoVeth(l, s) PROVE MonitorSafe'
    BY <1>5, <1>6 DEF UndoVeth, HostOK, Session
<1>7. ASSUME NEW s \in applied[l], UndoWireGuard(l, s) PROVE MonitorSafe'
    BY <1>5, <1>7 DEF UndoWireGuard, InterfaceDeleted, HostOK, Session
<1>8. ASSUME UndoDNS(l) PROVE MonitorSafe'
    BY <1>5, <1>8 DEF UndoDNS, HostOK, Session
<1>9. ASSUME UndoClientRoutes(l) PROVE MonitorSafe'
  <2>1. session'.killSwitch = session.killSwitch
      BY <1>9 DEF UndoClientRoutes, HostOK, Session
  <2> QED BY <1>1, <1>9, <2>1 DEF UndoClientRoutes, diskVars, memoryVars, observationVars, NoApp
<1>10. ASSUME UndoKillSwitch(l) PROVE MonitorSafe'
  <2>1. \/ Engine!UndoOk(l, "apply-namespace-kill-switch")
        \/ Engine!UndoFail(l, "apply-namespace-kill-switch")
      BY <1>10 DEF UndoKillSwitch, Undoes
  <2>2. abandoned \/ NoApp
      BY <2>1, LaunchUndoneBesides DEF Engine!UndoOk, Engine!UndoFail
  <2>3. UNCHANGED <<abandoned, seen, watch, store>> /\ (NoApp => NoApp')
      BY <1>10 DEF UndoKillSwitch, Undoes, diskVars, memoryVars, observationVars, NoApp
  <2> QED BY <2>1, <2>2, <2>3, UndoneBesides DEF OutOfReach
<1>11. ASSUME NEW s, NEW pid, NEW kinds, UndoProcess(l, s, pid, kinds)
       PROVE  (NoApp => NoApp') /\ UNCHANGED <<seen, watch, store>>
    BY <1>11 DEF UndoProcess, Stopped, diskVars, memoryVars, NoApp
<1>12. ASSUME UndoWSTunnel(l) PROVE MonitorSafe'
    BY <1>1, <1>11, <1>12 DEF UndoWSTunnel, UndoProcess
<1>13. ASSUME UndoLaunch(l) PROVE MonitorSafe'
    BY <1>11, <1>13, UndoneBesides DEF UndoLaunch, UndoProcess, OutOfReach
<1> QED BY <1>2, <1>3, <1>4, <1>6, <1>7, <1>8, <1>9, <1>10, <1>12, <1>13 DEF UndoStep

\* The steps of monitors and of the environment.
LEMMA WatchingBesides ==
    ASSUME Ground, NEW m \in Launchers, MonitorStep(m) \/ MonitorDies(m) \/ RecoveryRestartsMonitor(m)
    PROVE  MonitorSafe'
<1> USE GroundTypes
<1>1. CASE MonitorLoads(m)
  <2>1. mode[m] = "off" /\ watch[m] # "none"
      BY <1>1 DEF MonitorLoads, Ground, MonitorTypes, WatchersAreIdle
  <2> QED BY <1>1, <2>1, AsideBesides DEF MonitorLoads, observationVars, MemoryOK, NoApp
<1>2. CASE MonitorTruncates(m) \/ MonitorWrites(m) \/ MonitorGivesUp(m) \/ MonitorDies(m)
    BY <1>2, AsideBesides
    DEF MonitorTruncates, MonitorWrites, MonitorGivesUp, MonitorDies, observationVars, NoApp
<1>3. CASE MonitorStops(m)
  <2>1. watch[m] = "waiting"
      BY <1>3 DEF MonitorStops
  <2>2. \A k \in Launchers : ~Unwritten(k)
      BY <2>1 DEF Ground, MonitorSafe, Alone
  <2>3. StopSteps # {}
      BY StopPlanMembers
  <2> QED BY <1>3, <2>1, <2>2, <2>3, BegunBesides DEF MonitorStops, diskVars, observationVars, MemoryOK
<1>4. CASE RecoveryRestartsMonitor(m)
  <2>1. store.file # "absent"
      BY <1>4 DEF RecoveryRestartsMonitor, NeedsMonitor
  <2> QED BY <1>4, <2>1, AsideBesides DEF RecoveryRestartsMonitor, observationVars, NoApp
<1> QED BY <1>1, <1>2, <1>3, <1>4 DEF MonitorStep

LEMMA EnvironmentBesides ==
    ASSUME Ground, Environment
    PROVE  MonitorSafe'
<1> USE GroundTypes
<1>1. ASSUME UNCHANGED <<engineVars, diskVars, memoryVars, observationVars>>,
             session'.killSwitch = session.killSwitch, NoApp => NoApp',
             NEW p \in Pids, process[p] # "free"
      PROVE  MonitorSafe'
    BY <1>1, AsideBesides DEF diskVars, memoryVars, observationVars
<1>2. ASSUME NEW p \in Pids, AppExecs(p) PROVE MonitorSafe'
    BY <1>1, <1>2 DEF AppExecs, NoApp, HostOK
<1>3. ASSUME NEW p \in Pids, NEW q \in Pids, AppForks(p, q) PROVE MonitorSafe'
    BY <1>1, <1>3 DEF AppForks, NoApp, HostOK
<1>4. ASSUME NEW p \in Pids, Exits(p) PROVE MonitorSafe'
  <2>1. session'.killSwitch = session.killSwitch
      BY <1>4 DEF Exits, HostOK, Session
  <2> QED BY <1>1, <1>4, <2>1 DEF Exits, NoApp, HostOK
<1> QED BY <1>2, <1>3, <1>4 DEF Environment

\* A process that dies, wherever it is.
LEMMA DeathBesides ==
    ASSUME Ground, NEW l \in Launchers, DiesInside(l), mode[l] # "off",
           mode' = [mode EXCEPT ![l] = "off"], UNCHANGED <<plan, attempted, applied, undone>>,
           abandoned => abandoned', \A k \in Launchers : watch[k] = "none" => watch'[k] = "none",
           seen'[l] \in {seen[l], Unread}, \A k \in Launchers \ {l} : seen'[k] = seen[k]
    PROVE  MonitorSafe'
<1> USE GroundTypes
<1>1. session'.killSwitch = session.killSwitch /\ (NoApp => NoApp')
    BY DeathIsSafe
<1>2. Starting(l) \/ store' \in {store, Absent}
  <2>1. CASE UNCHANGED <<session, process, diskVars>>
      BY <2>1 DEF diskVars
  <2>2. ASSUME NEW s \in plan[l], Engine!Ready(l, s), Interrupted(l, s), ~Starting(l)
        PROVE  store' \in {store, Absent}
      BY <2>2, PlanOfStepBesides, InterruptedStore, StartPlanMembers DEF Starting
  <2>3. CASE UndoInterrupted(l)
      BY <2>3 DEF UndoInterrupted, Engine!ReadyToUndo, Starting
  <2> QED BY <2>1, <2>2, <2>3 DEF DiesInside
<1> QED BY <1>1, <1>2, EndedBesides

\* A run that returns, one that is killed, and a monitor that is signalled.
LEMMA EndsBesides ==
    ASSUME Ground, NEW l \in Launchers, ReturnAndWatch(l) \/ Kill(l) \/ SignalMonitor(l)
    PROVE  MonitorSafe'
<1> USE GroundTypes
<1>1. CASE ReturnAndWatch(l)
  <2>1. /\ mode[l] # "off" /\ mode' = [mode EXCEPT ![l] = "off"]
        /\ UNCHANGED <<plan, attempted, applied, undone>>
      BY <1>1 DEF ReturnAndWatch, Finishes, Engine!Return, Engine!Exhausted
  <2>2. UNCHANGED <<session, process, store, seen, abandoned>>
      BY <1>1 DEF ReturnAndWatch, Finishes, diskVars
  <2>3. Starting(l) \/ watch' = [watch EXCEPT ![l] = "none"]
      BY <1>1 DEF ReturnAndWatch, Engine!Verdict, Starting
  <2>4. Starting(l) \/ \A k \in Launchers : watch[k] = "none" => watch'[k] = "none"
      BY <2>3 DEF MemoryOK
  <2> QED BY <2>1, <2>2, <2>4, EndedBesides DEF NoApp
<1>2. CASE Kill(l)
  <2>1. /\ mode[l] # "off" /\ mode' = [mode EXCEPT ![l] = "off"]
        /\ UNCHANGED <<plan, attempted, applied, undone>>
      BY <1>2 DEF Kill, Engine!Kill
  <2>2. abandoned => abandoned'
      BY <1>2 DEF Kill
  <2>3. /\ \A k \in Launchers : watch[k] = "none" => watch'[k] = "none"
        /\ seen'[l] = Unread /\ \A k \in Launchers \ {l} : seen'[k] = seen[k]
      BY <1>2 DEF Kill, MemoryOK
  <2> QED BY <1>2, <2>1, <2>2, <2>3, DeathBesides DEF Kill
<1>3. CASE SignalMonitor(l)
  <2>1. PICK m \in OtherMonitor(l) :
            /\ watch' = [watch EXCEPT ![m] = "none"]
            /\ IF mode[m] = "off"
               THEN UNCHANGED <<engineVars, session, process, diskVars>>
               ELSE Engine!Kill(m) /\ DiesInside(m)
      BY <1>3 DEF SignalMonitor
  <2>2. m \in Launchers /\ watch[m] # "none" /\ UNCHANGED <<seen, abandoned>>
      BY <1>3, <2>1 DEF SignalMonitor, OtherMonitor, observationVars
  <2>3. CASE mode[m] = "off"
      BY <2>1, <2>2, <2>3, AsideBesides DEF NoApp, diskVars
  <2>4. CASE mode[m] # "off"
    <3>1. \A k \in Launchers : watch[k] = "none" => watch'[k] = "none"
        BY <2>1 DEF MemoryOK
    <3> QED BY <2>1, <2>2, <2>4, <3>1, DeathBesides DEF Engine!Kill
  <2> QED BY <2>3, <2>4
<1> QED BY <1>1, <1>2, <1>3

LEMMA BeginsBesides ==
    ASSUME Ground, Undisturbed, NEW l \in Launchers,
           StartWithId(l) \/ (l \in Stoppers /\ StopIsolatedApp(l)) \/ RecoveryCleans(l)
    PROVE  MonitorSafe'
<1> USE GroundTypes
<1>1. StartSteps # {} /\ StopSteps # {} /\ CleanupSteps # {}
    BY StartPlanMembers, StopPlanMembers, CleanupPlanMembers
<1>2. ASSUME NEW kind, NEW steps, Begins(l, kind, steps)
      PROVE  /\ Engine!Begin(l, kind, steps)
             /\ UNCHANGED <<session, process, store, abandoned, watch>>
             /\ seen'[l] = Unread /\ \A k \in Launchers \ {l} : seen'[k] = seen[k]
    BY <1>2 DEF Begins, diskVars, observationVars, MemoryOK
<1>3. CASE StartWithId(l)
    BY <1>1, <1>2, <1>3, BegunBesides DEF StartWithId, StartIsolatedApp, Undisturbed
<1>4. CASE l \in Stoppers /\ StopIsolatedApp(l)
    BY <1>1, <1>2, <1>4, BegunBesides DEF StopIsolatedApp
<1>5. CASE RecoveryCleans(l)
    BY <1>1, <1>2, <1>5, BegunBesides, RecoveryWaits DEF RecoveryCleans, CleanupIsolatedApp
<1> QED BY <1>3, <1>4, <1>5

LEMMA MonitorSafeStep ==
    ASSUME Ground, Undisturbed, [MonitorNext]_vars
    PROVE  MonitorSafe'
<1>1. ASSUME NEW l \in Launchers, Step(l) PROVE MonitorSafe'
    BY <1>1, StartStepBesides, StopStepBesides, CleanupStepBesides, FailureBesides,
        UndoStepBesides
    DEF Step
<1>2. CASE UNCHANGED vars
    BY <1>2, GroundTypes, AsideBesides DEF vars, diskVars, memoryVars, observationVars, NoApp
<1>3. Stoppers \subseteq Launchers
    BY MonitorAssumption
<1> QED
    BY <1>1, <1>2, <1>3, WatchingBesides, EnvironmentBesides, EndsBesides, BeginsBesides
       DEF MonitorNext, RunStep

LEMMA MonitorSafeHolds ==
    ASSUME Undisturbed
    PROVE  MonitorSpec => []MonitorSafe
<1>1. Init => MonitorSafe
    BY DEF Init, Engine!Init, MonitorSafe, OneStart, NothingYet, Preparation, Alone, Rollbacks,
           Stops, StopInv, OutOfReach, Starting, Preparing, Unwritten, NoApp, Absent, Unread,
           Clear, ClearOfNames, NoWSTunnel
<1>2. EngineInv /\ MonitorTypes /\ MonitorSafe /\ [MonitorNext]_vars => MonitorSafe'
    BY MonitorSafeStep DEF Ground
<1> QED BY <1>1, <1>2, MonitorEngineInv, MonitorTypesHold, PTL DEF MonitorSpec

\* With any number of monitors, stops and recoveries beside a start, all of them
\* killed or failing at any point, the application has no way out of a namespace
\* without its kill switch before somebody turned to ending it: unless a recovery
\* may clean up beside the start of another launcher, which does break it.
THEOREM MonitorFailClosedHolds ==
    ASSUME Undisturbed
    PROVE  MonitorSpec => []FailClosed
<1>1. MonitorSafe => FailClosed
    BY DEF MonitorSafe, OutOfReach, NoApp, FailClosed, InNamespace
<1> QED BY <1>1, MonitorSafeHolds, PTL

-------------------------------------------------------------------------------
\* What steps other than those of a start do to the host

\* Nothing comes to be of what the session's names stand for, and no wstunnel.
Shrinks ==
    /\ session'.netns => session.netns
    /\ session'.veth # "none" => session.veth # "none"
    /\ session'.dns => session.dns
    /\ session'.wg => session.wg
    /\ session'.routes # "none" => session.routes # "none"
    /\ session'.killSwitch => session.killSwitch
    /\ \A p \in Pids : process'[p] = "wstunnel" => process[p] = "wstunnel"

LEMMA NetnsDeletedShrinks ==
    ASSUME HostOK, NEW veth, veth # "none" => session.veth # "none", NetnsDeleted(veth)
    PROVE  Shrinks
<1>1. session' = [NoSession EXCEPT !.dns = session.dns, !.veth = VethAfter(veth, process', FALSE)]
    BY DEF NetnsDeleted
<1>2. VethAfter(veth, process', FALSE) \in {veth, "none"}
    BY DEF VethAfter
<1>3. \A p \in Pids : process'[p] = "wstunnel" => process[p] = "wstunnel"
    BY DEF NetnsDeleted
<1> QED BY <1>1, <1>2, <1>3 DEF Shrinks, NoSession

\* A part of a step, but for the three steps of a start that make names.
LEMMA InterruptedShrinks ==
    ASSUME HostOK, NEW l \in Launchers, NEW s, Interrupted(l, s),
           s \notin {"create-veth-pair", "configure-namespace-dns", "apply-namespace-client-routes"}
    PROVE  Shrinks
<1> USE DEF Shrinks, HostOK
<1>1. CASE s = "store-isolated-runtime-state"
    BY <1>1 DEF Interrupted
<1>2. CASE s = "stop-isolated-app"
    BY <1>2 DEF Interrupted
<1>3. CASE s = "remove-namespace-client-routes"
  <2>1. CASE Known(l).file = "whole"
    <3>1. PICK left \in SomeRoutesLeft \cup (IF session.routes = "part" THEN {"none"} ELSE {}) :
              session' = [session EXCEPT !.routes = left]
        BY <1>3, <2>1 DEF Interrupted
    <3>2. left # "none" => session.routes # "none"
        BY <3>1 DEF SomeRoutesLeft
    <3>3. process' = process
        BY <1>3, <2>1 DEF Interrupted
    <3> QED BY <3>1, <3>2, <3>3 DEF Session
  <2>2. CASE Known(l).file # "whole"
      BY <1>3, <2>2 DEF Interrupted
  <2> QED BY <2>1, <2>2
<1>4. CASE s = "delete-netns"
    BY <1>4 DEF Interrupted, Session
<1>5. CASE s = "clear-isolated-runtime-state"
    BY <1>5 DEF Interrupted
<1>6. CASE s = "cleanup-isolated-processes"
    BY <1>6 DEF Interrupted
<1>7. CASE s = "cleanup-netns"
    BY <1>7 DEF Interrupted, Session
<1>8. CASE s \notin {"store-isolated-runtime-state", "stop-isolated-app", "remove-namespace-client-routes",
                     "delete-netns", "clear-isolated-runtime-state", "cleanup-isolated-processes",
                     "cleanup-netns"}
    BY <1>8 DEF Interrupted
<1> QED BY <1>1, <1>2, <1>3, <1>4, <1>5, <1>6, <1>7, <1>8

\* A rollback that is not finished.
LEMMA UndoInterruptedShrinks ==
    ASSUME HostOK, NEW l, UndoInterrupted(l)
    PROVE  Shrinks /\ store' \in {store, Absent} /\ root' = root
<1>1. CASE RootPartlyRemoved /\ UNCHANGED <<session, process>>
    BY <1>1 DEF RootPartlyRemoved, Shrinks
<1>2. CASE /\ \E left \in SomeRoutesLeft : session' = [session EXCEPT !.routes = left]
           /\ UNCHANGED <<process, diskVars>>
    BY <1>2 DEF SomeRoutesLeft, Shrinks, HostOK, Session, diskVars
<1> QED BY <1>1, <1>2 DEF UndoInterrupted

LEMMA StopStepShrinks ==
    ASSUME HostOK, NEW l \in Launchers, StopStep(l)
    PROVE  Shrinks
<1>1. ASSUME UNCHANGED <<session, process>> PROVE Shrinks
    BY <1>1 DEF Shrinks
<1>2. ASSUME ReadRuntimeState(l) \/ StopMonitor(l) \/ ClearRuntimeState(l) PROVE Shrinks
    BY <1>1, <1>2 DEF ReadRuntimeState, StopMonitor, ClearRuntimeState
<1>3. ASSUME StopApp(l) PROVE Shrinks
    BY <1>3 DEF StopApp, NamespaceStopped, Shrinks
<1>4. ASSUME NEW s, NEW new, Removes(l, s, new),
             new \in {Flushed, [session EXCEPT !.routes = "none"], InterfaceDeleted, [session EXCEPT !.dns = FALSE]}
      PROVE  Shrinks
    BY <1>4 DEF Removes, Shrinks, Flushed, InterfaceDeleted, HostOK, Session
<1>5. ASSUME StopWSTunnelControl(l) PROVE Shrinks
    BY <1>5 DEF StopWSTunnelControl, Stopped, Shrinks
<1>6. ASSUME DeleteNetns(l) PROVE Shrinks
    BY <1>1, <1>6, NetnsDeletedShrinks DEF DeleteNetns
<1> QED BY <1>2, <1>3, <1>4, <1>5, <1>6 DEF StopStep, RemoveKillSwitch, RemoveClientRoutes,
           RemoveWireGuard, RemoveNamespaceDNS

LEMMA CleanupStepShrinks ==
    ASSUME HostOK, NEW l \in Launchers, CleanupStep(l)
    PROVE  Shrinks
<1>1. ASSUME UNCHANGED <<session, process>> PROVE Shrinks
    BY <1>1 DEF Shrinks
<1>2. ASSUME CleanupProcesses(l) PROVE Shrinks
  <2>1. NamespaceStopped({}) /\ UNCHANGED session => Shrinks
      BY DEF NamespaceStopped, Shrinks
  <2> QED BY <1>1, <1>2, <2>1 DEF CleanupProcesses, IgnoredOr
<1>3. ASSUME process' = process, session' \in {Flushed, InterfaceDeleted, [session EXCEPT !.dns = FALSE],
                                                [session EXCEPT !.veth = "none"]}
      PROVE  Shrinks
    BY <1>3 DEF Shrinks, Flushed, InterfaceDeleted, HostOK, Session
<1>4. ASSUME CleanupKillSwitch(l) \/ CleanupWireGuard(l) \/ CleanupDNS(l) PROVE Shrinks
    BY <1>1, <1>3, <1>4 DEF CleanupKillSwitch, CleanupWireGuard, CleanupDNS, IgnoredOr, Changes
<1>5. ASSUME CleanupNetns(l) PROVE Shrinks
  <2>1. ASSUME NEW veth \in {"none", session.veth}, NetnsDeleted(veth) PROVE Shrinks
      BY <2>1, NetnsDeletedShrinks
  <2>2. ASSUME NEW veth \in {"none", session.veth}, session' = [session EXCEPT !.veth = veth], process' = process
        PROVE  Shrinks
      BY <2>2 DEF Shrinks, HostOK, Session
  <2> QED BY <1>1, <1>5, <2>1, <2>2 DEF CleanupNetns, IgnoredOr
<1>6. ASSUME CleanupRuntimeRoot(l) PROVE Shrinks
    BY <1>1, <1>6 DEF CleanupRuntimeRoot
<1> QED BY <1>2, <1>4, <1>5, <1>6 DEF CleanupStep

LEMMA UndoStepShrinks ==
    ASSUME HostOK, NEW l \in Launchers, UndoStep(l)
    PROVE  Shrinks
<1>1. ASSUME UNCHANGED <<session, process>> PROVE Shrinks
    BY <1>1 DEF Shrinks
<1>2. ASSUME UndoNothing(l) \/ UndoRuntimeRoot(l) PROVE Shrinks
    BY <1>1, <1>2 DEF UndoNothing, UndoRuntimeRoot
<1>3. ASSUME UndoNetns(l) PROVE Shrinks
    BY <1>1, <1>3, NetnsDeletedShrinks DEF UndoNetns
<1>4. ASSUME NEW s, NEW there, NEW new, Undoes(l, s, there, new),
             new \in {Flushed, InterfaceDeleted, [session EXCEPT !.dns = FALSE], [session EXCEPT !.veth = "none"]}
      PROVE  Shrinks
  <2>1. session' \in {session, new} /\ process' = process
      BY <1>4 DEF Undoes
  <2>2. new.veth # "none" => session.veth # "none"
      BY <1>4 DEF Flushed, InterfaceDeleted, HostOK, Session
  <2>3. new.routes # "none" => session.routes # "none"
      BY <1>4 DEF Flushed, InterfaceDeleted, HostOK, Session
  <2>4. /\ new.netns => session.netns
        /\ new.dns => session.dns
        /\ new.wg => session.wg
        /\ new.killSwitch => session.killSwitch
      BY <1>4 DEF Flushed, InterfaceDeleted, HostOK, Session
  <2> QED BY <2>1, <2>2, <2>3, <2>4 DEF Shrinks
<1>5. ASSUME UndoClientRoutes(l) PROVE Shrinks
  <2>1. PICK left \in SomeRoutesLeft \cup {"none"} : session' = [session EXCEPT !.routes = left]
      BY <1>5 DEF UndoClientRoutes
  <2>2. process' = process
      BY <1>5 DEF UndoClientRoutes
  <2> QED BY <2>1, <2>2 DEF SomeRoutesLeft, Shrinks, HostOK, Session
<1>6. ASSUME NEW s, NEW pid, NEW kinds, UndoProcess(l, s, pid, kinds) PROVE Shrinks
    BY <1>6 DEF UndoProcess, Stopped, Shrinks
<1> QED BY <1>2, <1>3, <1>4, <1>5, <1>6 DEF UndoStep, UndoVeth, UndoDNS, UndoWireGuard, UndoKillSwitch,
           UndoWSTunnel, UndoLaunch

LEMMA EnvironmentShrinks ==
    ASSUME HostOK, Environment
    PROVE  Shrinks
<1>1. ASSUME NEW p \in Pids, AppExecs(p) PROVE Shrinks
    BY <1>1 DEF AppExecs, Shrinks, HostOK
<1>2. ASSUME NEW p \in Pids, NEW q \in Pids, AppForks(p, q) PROVE Shrinks
    BY <1>2 DEF AppForks, Shrinks, HostOK
<1>3. ASSUME NEW p \in Pids, Exits(p) PROVE Shrinks
  <2>1. session' = [session EXCEPT !.veth = VethAfter(@, process', session.netns)]
      BY <1>3 DEF Exits
  <2>2. VethAfter(session.veth, process', session.netns) \in {session.veth, "none"}
      BY DEF VethAfter
  <2>3. \A q \in Pids : process'[q] = "wstunnel" => process[q] = "wstunnel"
      BY <1>3 DEF Exits, HostOK
  <2> QED BY <2>1, <2>2, <2>3 DEF Shrinks, HostOK, Session
<1> QED BY <1>1, <1>2, <1>3 DEF Environment

-------------------------------------------------------------------------------
\* What accounts for a session that is there

\* A start that has not configured the host end of its veth pair has not come to
\* its record.
EarlyIsUnwritten ==
    \A l \in Launchers :
        Starting(l) /\ "configure-host-veth" \notin applied[l] => Unwritten(l)

Standing(l, s) == s \in applied[l] /\ s \notin undone[l]

\* What such a start has made is what it applied and has not undone.
Bare(l) ==
    /\ \A p \in Pids : process[p] = "free"
    /\ ~session.dns /\ ~session.wg /\ session.routes = "none" /\ ~session.killSwitch
    /\ session.netns => Standing(l, "create-netns")
    /\ session.veth # "none" => Standing(l, "create-veth-pair")
    /\ root => Standing(l, "create-isolated-runtime-root")
    /\ mode[l] = "connect" /\ "create-netns" \in applied[l] => session.netns

Bares ==
    \A l \in Launchers :
        Starting(l) /\ "configure-host-veth" \notin applied[l] /\ stuck[l] = {} => Bare(l)

\* A rollback from the host end on deletes the pair twice: not without an error.
Twice(l) ==
    mode[l] = "rollback" /\ "configure-host-veth" \in applied[l] /\ stuck[l] = {} =>
        /\ Standing(l, "create-veth-pair")
        /\ "configure-host-veth" \in undone[l] => session.veth = "none"

\* A stop works from what its first step read.
Reads(k) ==
    mode[k] = "disconnect" /\ plan[k] = StopSteps =>
        /\ "read-isolated-runtime-state" \notin attempted[k] => seen[k].file = "unread"
        /\ "read-isolated-runtime-state" \in applied[k] => seen[k].file \in {"absent", "whole"}

\* There is one wstunnel, that of the one start: every record names it.
OneWSTunnel ==
    \A p \in Pids : process[p] = "wstunnel" =>
        /\ store.file = "whole" => store.wstunnel = p
        /\ \A k \in Launchers : seen[k].file = "whole" => seen[k].wstunnel = p
        /\ \A l \in Launchers : Unwritten(l) =>
              handle[l].wstunnel = p /\ "start-wstunnel-control" \in attempted[l]

Nameless ==
    ~session.netns /\ session.veth = "none" /\ ~session.wg /\ session.routes = "none" /\ ~session.killSwitch

\* What a stop has removed stays away.
Removed(k) ==
    mode[k] = "disconnect" /\ ~Skipped(k) =>
        /\ "remove-namespace-dns" \in applied[k] => ~session.dns
        /\ "delete-netns" \in applied[k] => Nameless
        /\ "stop-wstunnel-control" \in applied[k] => NoWSTunnel

\* A stop that goes by the record, and has cleared it only for good.
Removing(k) ==
    /\ mode[k] = "disconnect" /\ plan[k] = StopSteps /\ seen[k].file = "whole"
    /\ root => "clear-isolated-runtime-state" \notin applied[k]

\* Who will bring the session to a record, or to its end, or will say that it is dirty.
Answers(k) ==
    \/ Unwritten(k) \/ mode[k] = "rollback"
    \/ mode[k] = "disconnect" /\ (plan[k] = CleanupSteps \/ failed[k] # {})
    \/ Removing(k)

OnRecord ==
    \/ store.file = "whole"
    \/ store.file = "torn" /\ \E m \in Launchers : watch[m] = "saving"

Settled == disclosed \/ Clear \/ OnRecord \/ \E k \in Launchers : Answers(k)

Ledger ==
    /\ EarlyIsUnwritten
    /\ Bares
    /\ \A k \in Launchers : Twice(k) /\ Reads(k) /\ Removed(k)
    /\ OneWSTunnel
    /\ Settled

Books == Ground /\ Ledger

LEMMA BooksTypes == Books => Ground /\ EngineInv /\ Engine!TypeOK /\ MonitorTypes /\ HostOK /\ DiskOK /\ MemoryOK
BY GroundTypes DEF Books, Ground

\* The parts of the ledger by name.
LEMMA LedgerParts ==
    ASSUME EarlyIsUnwritten', Bares', \A k \in Launchers : Twice(k)' /\ Reads(k)' /\ Removed(k)',
           OneWSTunnel', Settled'
    PROVE  Ledger'
BY DEF Ledger

\* Beside a start without a record a stop has done nothing that counts.
LEMMA NothingRemovedBeside ==
    ASSUME Ground, NEW l \in Launchers, Unwritten(l), NEW k \in Launchers,
           mode[k] = "disconnect", ~Skipped(k)
    PROVE  attempted[k] = {} /\ applied[k] = {}
<1>1. plan[k] = StopSteps /\ "read-isolated-runtime-state" \notin attempted[k]
    BY DEF Ground, MonitorSafe, Alone, AsksInVain
<1>2. attempted[k] \subseteq StopSteps /\ applied[k] \subseteq attempted[k]
    BY <1>1 DEF Ground, EngineInv, Engine!Bookkeeping
<1>3. ASSUME NEW s \in attempted[k] PROVE FALSE
    BY <1>1, <1>2, <1>3, RecordRanks, StopPlanMembers DEF Ground, EngineInv, Engine!InPlanOrder
<1> QED BY <1>2, <1>3

\* A step of a start comes before its record.
LEMMA ReadyIsUnwritten ==
    ASSUME Ground, NEW l \in Launchers, NEW s \in StartSteps, Engine!Ready(l, s)
    PROVE  Unwritten(l) /\ mode[l] = "connect" /\ plan[l] = StartSteps
<1>1. mode[l] = "connect" /\ plan[l] = StartSteps
    BY PlanOfStepBesides
<1>2. "store-isolated-runtime-state" \notin attempted[l]
    BY <1>1, RecordRanks, StartPlanMembers DEF Engine!Ready, Ground, EngineInv, Engine!InPlanOrder
<1> QED BY <1>1, <1>2 DEF Unwritten, Starting

\* What comes after the host end of the veth pair finds it configured, and that
\* the pair.
LEMMA HostEndBeside ==
    ASSUME Ground, NEW l \in Launchers, NEW s \in StartSteps, Engine!Ready(l, s)
    PROVE  /\ s \notin {"validate-linux-prerequisites", "create-isolated-runtime-root", "create-netns",
                        "create-veth-pair", "configure-host-veth"} => "configure-host-veth" \in applied[l]
           /\ s = "create-veth-pair" => "create-netns" \in applied[l]
<1>1. mode[l] = "connect" /\ plan[l] = StartSteps
    BY ReadyIsUnwritten
<1>2. attempted[l] = applied[l]
    BY <1>1, AttemptedIsApplied DEF Ground
<1> QED BY <1>1, <1>2, AccountRanks, EarlierAttempted, StartPlanMembers DEF Ground

LEMMA OnlyStart ==
    ASSUME Ground, NEW l \in Launchers, Starting(l)
    PROVE  \A k \in Launchers : (Starting(k) => k = l) /\ (Unwritten(k) => k = l)
BY DEF Ground, MonitorSafe, OneStart, Unwritten
-------------------------------------------------------------------------------
\* The ledger, kept by a start and its rollback

\* An apply of a start that succeeded.
LEMMA StartAppliedOnLedger ==
    ASSUME Books, NEW l \in Launchers, NEW s \in StartSteps, Engine!ApplyOk(l, s),
           s \notin {"start-wstunnel-control", "launch-app-in-netns"} => UNCHANGED <<process, handle>>,
           \A p \in Pids : process'[p] = "wstunnel" =>
               process[p] = "wstunnel" \/ (s = "start-wstunnel-control" /\ p = handle'[l].wstunnel),
           s # "start-wstunnel-control" => handle'[l].wstunnel = handle[l].wstunnel,
           s \in {"validate-linux-prerequisites", "create-isolated-runtime-root"} => session' = session,
           s = "create-netns" => session' = [session EXCEPT !.netns = TRUE],
           s = "create-veth-pair" => session' = [session EXCEPT !.veth = "moved"],
           s \notin {"create-isolated-runtime-root", "store-isolated-runtime-state"} => root' = root,
           store' = IF s = "store-isolated-runtime-state" THEN RecordOf(l) ELSE store,
           UNCHANGED <<seen, disclosed>>
    PROVE  Ledger'
<1> USE BooksTypes
<1>1. Engine!Ready(l, s)
    BY DEF Engine!ApplyOk
<1>2. Unwritten(l) /\ mode[l] = "connect" /\ plan[l] = StartSteps
    BY <1>1, ReadyIsUnwritten
<1>3. attempted[l] = applied[l] /\ undone[l] = {} /\ s \notin attempted[l]
    BY <1>1, <1>2, AttemptedIsApplied DEF Engine!Ready
<1>4. /\ mode' = mode /\ plan' = plan /\ undone' = undone /\ failed' = failed /\ stuck' = stuck
      /\ attempted'[l] = attempted[l] \cup {s} /\ applied'[l] = applied[l] \cup {s}
      /\ \A k \in Launchers \ {l} : attempted'[k] = attempted[k] /\ applied'[k] = applied[k]
    BY DEF Engine!ApplyOk, Engine!TypeOK
<1>5. \A k \in Launchers : Starting(k) => k = l
    BY <1>2, OnlyStart DEF Starting
<1>6. store.file = "absent" /\ \A k \in Launchers : seen[k].file # "whole"
    BY <1>2 DEF Ground, MonitorSafe, Alone
<1>7. EarlyIsUnwritten'
  <2>1. ASSUME "configure-host-veth" \notin applied'[l] PROVE s # "store-isolated-runtime-state"
      BY <1>1, <1>4, <2>1, HostEndBeside
  <2> QED BY <1>2, <1>4, <1>5, <2>1 DEF EarlyIsUnwritten, Unwritten, Starting
<1>8. Bares'
  <2> SUFFICES ASSUME "configure-host-veth" \notin applied'[l], stuck[l] = {} PROVE Bare(l)'
      BY <1>4, <1>5 DEF Bares, Starting
  <2>1. Bare(l)
      BY <1>2, <1>4 DEF Books, Ledger, Bares, Starting
  <2>2. s \in {"validate-linux-prerequisites", "create-isolated-runtime-root", "create-netns",
               "create-veth-pair"}
      BY <1>1, <1>4, HostEndBeside
  <2>3. process' = process /\ (root' => root \/ s = "create-isolated-runtime-root")
      BY <2>2
  <2>4. \/ session' = session /\ s # "create-netns"
        \/ session' = [session EXCEPT !.netns = TRUE] /\ s = "create-netns"
        \/ session' = [session EXCEPT !.veth = "moved"] /\ s = "create-veth-pair"
      BY <2>2
  <2>5. /\ session'.dns = session.dns /\ session'.wg = session.wg
        /\ session'.routes = session.routes /\ session'.killSwitch = session.killSwitch
        /\ session.netns => session'.netns
        /\ session'.netns => session.netns \/ s = "create-netns"
        /\ s = "create-netns" => session'.netns
        /\ session'.veth # "none" => session.veth # "none" \/ s = "create-veth-pair"
      BY <2>4 DEF HostOK, Session
  <2> QED BY <1>2, <1>3, <1>4, <2>1, <2>3, <2>5 DEF Bare, Standing
<1>9. \A k \in Launchers : Twice(k)'
    BY <1>2, <1>4, <1>5 DEF Twice, Starting
<1>10. \A k \in Launchers : Reads(k)'
    BY <1>2, <1>4 DEF Books, Ledger, Reads
<1>11. \A k \in Launchers : Removed(k)'
  <2> SUFFICES ASSUME NEW k \in Launchers, mode[k] = "disconnect", ~Skipped(k)
               PROVE  applied'[k] = {}
      BY <1>4 DEF Removed, Skipped
  <2> QED BY <1>2, <1>4, NothingRemovedBeside
<1>12. OneWSTunnel'
  <2> SUFFICES ASSUME NEW p \in Pids, process'[p] = "wstunnel"
               PROVE  /\ store'.file = "whole" => store'.wstunnel = p
                      /\ Unwritten(l)' =>
                            handle'[l].wstunnel = p /\ "start-wstunnel-control" \in attempted'[l]
      BY <1>2, <1>4, <1>5, <1>6 DEF OneWSTunnel, Unwritten, Starting
  <2>1. process[p] = "wstunnel" =>
            handle[l].wstunnel = p /\ "start-wstunnel-control" \in attempted[l]
      BY <1>2 DEF Books, Ledger, OneWSTunnel
  <2>2. handle'[l].wstunnel = p /\ "start-wstunnel-control" \in attempted'[l]
      BY <1>3, <1>4, <2>1
  <2>3. s = "store-isolated-runtime-state" => store'.wstunnel = p
      BY <1>3, <2>1 DEF RecordOf
  <2> QED BY <1>6, <2>2, <2>3
<1>13. Settled'
  <2>1. s # "store-isolated-runtime-state" => Unwritten(l)'
      BY <1>2, <1>4 DEF Unwritten, Starting
  <2> QED BY <2>1 DEF Settled, OnRecord, Answers, RecordOf
<1> QED BY <1>7, <1>8, <1>9, <1>10, <1>11, <1>12, <1>13, LedgerParts

LEMMA StartStepOnLedger ==
    ASSUME Books, NEW l \in Launchers, StartStep(l)
    PROVE  Ledger'
<1> USE BooksTypes, StartPlanMembers
<1>1. ASSUME NEW s \in StartSteps, NEW new, Changes(l, s, new),
             s \notin {"create-isolated-runtime-root", "store-isolated-runtime-state",
                      "start-wstunnel-control", "launch-app-in-netns"},
             s = "validate-linux-prerequisites" => new = session,
             s = "create-netns" => new = [session EXCEPT !.netns = TRUE],
             s = "create-veth-pair" => new = [session EXCEPT !.veth = "moved"]
      PROVE  Ledger'
    BY <1>1, StartAppliedOnLedger DEF Changes, Done, diskVars, memoryVars, observationVars
<1>2. ASSUME OnlyConfigures(l) PROVE Ledger'
    BY <1>1, <1>2 DEF OnlyConfigures
<1>3. ASSUME CreateRuntimeRoot(l) PROVE Ledger'
    BY <1>3, StartAppliedOnLedger DEF CreateRuntimeRoot, Done, memoryVars, observationVars
<1>4. ASSUME CreateNetns(l) \/ CreateVethPair(l) \/ ConfigureNamespaceDNS(l) \/ CreateWireGuard(l)
             \/ ApplyClientRoutes(l) \/ ApplyKillSwitch(l)
      PROVE  Ledger'
    BY <1>1, <1>4
    DEF CreateNetns, CreateVethPair, ConfigureNamespaceDNS, CreateWireGuard, ApplyClientRoutes,
       ApplyKillSwitch
<1>5. ASSUME NEW p \in Pids, StartWSTunnelControl(l, p) PROVE Ledger'
  <2>1. handle'[l].wstunnel = p
      BY <1>5 DEF StartWSTunnelControl, MemoryOK
  <2>2. \A q \in Pids : process'[q] = "wstunnel" => process[q] = "wstunnel" \/ q = p
      BY <1>5 DEF StartWSTunnelControl, HostOK
  <2> QED BY <1>5, <2>1, <2>2, StartAppliedOnLedger DEF StartWSTunnelControl, Done, diskVars, observationVars
<1>6. ASSUME NEW p \in Pids, LaunchApp(l, p) PROVE Ledger'
  <2>1. handle'[l].wstunnel = handle[l].wstunnel
      BY <1>6 DEF LaunchApp, MemoryOK
  <2>2. \A q \in Pids : process'[q] = "wstunnel" => process[q] = "wstunnel"
      BY <1>6 DEF LaunchApp, HostOK
  <2> QED BY <1>6, <2>1, <2>2, StartAppliedOnLedger DEF LaunchApp, Done, diskVars
<1>7. ASSUME StoreRuntimeState(l) PROVE Ledger'
    BY <1>7, StartAppliedOnLedger DEF StoreRuntimeState, Done, memoryVars, observationVars
<1> QED BY <1>2, <1>3, <1>4, <1>5, <1>6, <1>7 DEF StartStep

\* A part of a step of a start writes nothing but the record, and touches no process.
LEMMA InterruptedStart ==
    ASSUME NEW l \in Launchers, NEW s \in StartSteps, Interrupted(l, s)
    PROVE  /\ process' = process
           /\ store' = store \/ (s = "store-isolated-runtime-state" /\ store' \in {Torn, RecordOf(l)})
           /\ s \in {"validate-linux-prerequisites", "create-isolated-runtime-root", "create-netns",
                     "configure-host-veth"} => UNCHANGED <<session, root>>
BY StartPlanMembers DEF Interrupted, diskVars

\* The pair of links can be made in the namespace of a start.
LEMMA PairIsMade ==
    ASSUME Books, "create-veth-pair" \notin Breaks, NEW l \in Launchers
    PROVE  ~StepFails(l, "create-veth-pair")
<1> USE BooksTypes
<1> SUFFICES ASSUME StepFails(l, "create-veth-pair") PROVE FALSE
    OBVIOUS
<1>1. Engine!Ready(l, "create-veth-pair")
    BY DEF StepFails, Engine!ApplyFail
<1>2. Unwritten(l) /\ mode[l] = "connect" /\ "create-netns" \in applied[l]
    BY <1>1, ReadyIsUnwritten, HostEndBeside, StartPlanMembers
<1>3. attempted[l] = applied[l] /\ "create-veth-pair" \notin applied[l] /\ stuck[l] = {}
    BY <1>1, <1>2, AttemptedIsApplied DEF Engine!Ready, EngineInv, Engine!Bookkeeping
<1>4. "configure-host-veth" \notin applied[l]
  <2>1. "configure-host-veth" \in attempted[l] => "create-veth-pair" \in attempted[l]
      BY <1>1, <1>2, ReadyIsUnwritten, AccountRanks, StartPlanMembers
      DEF EngineInv, Engine!InPlanOrder
  <2> QED BY <1>3, <2>1
<1>5. Bare(l)
    BY <1>2, <1>3, <1>4 DEF Books, Ledger, Bares, Starting
<1>6. Works(l, "create-veth-pair")
  <2>1. session.netns /\ session.veth = "none"
      BY <1>2, <1>3, <1>5 DEF Bare, Standing
  <2> QED BY <2>1, StopPlanMembers DEF Works
<1> QED BY <1>6 DEF StepFails, CanBreak

\* A step of a start that fails.
LEMMA StartFailureOnLedger ==
    ASSUME Books, "create-veth-pair" \notin Breaks, NEW l \in Launchers, mode[l] = "connect",
           NEW s \in plan[l], StepFails(l, s)
    PROVE  Ledger'
<1> USE BooksTypes
<1>1. Engine!Ready(l, s) /\ Interrupted(l, s) /\ UNCHANGED <<handle, watch, disclosed>>
    BY DEF StepFails, Engine!ApplyFail
<1>2. Unwritten(l) /\ plan[l] = StartSteps /\ s \in StartSteps
    BY <1>1, ReadyIsUnwritten DEF Ground, MonitorSafe, OneStart, Starting
<1>3. attempted[l] = applied[l] /\ undone[l] = {} /\ s \notin attempted[l]
    BY <1>1, AttemptedIsApplied DEF Engine!Ready
<1>4. /\ plan' = plan /\ applied' = applied /\ undone' = undone /\ stuck' = stuck
      /\ attempted'[l] = attempted[l] \cup {s} /\ mode'[l] = "rollback"
      /\ \A k \in Launchers \ {l} : attempted'[k] = attempted[k] /\ mode'[k] = mode[k]
    BY DEF StepFails, Engine!ApplyFail, Engine!ModeAfterError, Engine!TypeOK
<1>5. \A k \in Launchers : Starting(k) => k = l
    BY OnlyStart DEF Starting
<1>6. store.file = "absent" /\ \A k \in Launchers : seen[k].file # "whole"
    BY <1>2 DEF Ground, MonitorSafe, Alone
<1>7. seen' = seen
    BY <1>2, StartPlanMembers, StopPlanMembers DEF StepFails
<1>8. EarlyIsUnwritten'
  <2>1. ASSUME "configure-host-veth" \notin applied[l] PROVE s # "store-isolated-runtime-state"
      BY <1>1, <1>2, <2>1, HostEndBeside
  <2> QED BY <1>2, <1>4, <1>5, <2>1 DEF EarlyIsUnwritten, Unwritten, Starting
<1>9. Bares'
  <2> SUFFICES ASSUME "configure-host-veth" \notin applied[l], stuck[l] = {} PROVE Bare(l)'
      BY <1>4, <1>5 DEF Bares, Starting
  <2>1. Bare(l)
      BY DEF Books, Ledger, Bares, Starting
  <2>2. s \in {"validate-linux-prerequisites", "create-isolated-runtime-root", "create-netns",
               "configure-host-veth"}
      BY <1>1, <1>2, HostEndBeside, PairIsMade
  <2>3. UNCHANGED <<session, process, root>>
      BY <1>1, <1>2, <2>2, InterruptedStart
  <2> QED BY <1>4, <2>1, <2>3 DEF Bare, Standing
<1>10. \A k \in Launchers : Twice(k)'
  <2>1. "configure-host-veth" \in applied[l] => "create-veth-pair" \in applied[l]
      BY <1>2, <1>3, AccountRanks, StartPlanMembers DEF EngineInv, Engine!InPlanOrder
  <2> QED BY <1>3, <1>4, <1>5, <2>1 DEF Twice, Starting, Standing
<1>11. \A k \in Launchers : Reads(k)'
    BY <1>4, <1>7 DEF Books, Ledger, Reads
<1>12. \A k \in Launchers : Removed(k)'
  <2> SUFFICES ASSUME NEW k \in Launchers, mode[k] = "disconnect", ~Skipped(k)
               PROVE  applied'[k] = {}
      BY <1>4, <1>7 DEF Removed, Skipped
  <2> QED BY <1>2, <1>4, NothingRemovedBeside
<1>13. OneWSTunnel'
  <2> SUFFICES ASSUME NEW p \in Pids, process'[p] = "wstunnel"
               PROVE  /\ store'.file = "whole" => store'.wstunnel = p
                      /\ handle'[l].wstunnel = p /\ "start-wstunnel-control" \in attempted'[l]
      BY <1>4, <1>5, <1>6, <1>7 DEF OneWSTunnel, Unwritten, Starting
  <2>1. handle[l].wstunnel = p /\ "start-wstunnel-control" \in attempted[l]
      BY <1>1, <1>2, InterruptedStart DEF Books, Ledger, OneWSTunnel
  <2>2. store'.file = "whole" => store' = RecordOf(l)
      BY <1>1, <1>2, <1>6, InterruptedStart DEF Torn, Absent
  <2> QED BY <1>1, <1>4, <2>1, <2>2 DEF RecordOf
<1>14. Settled'
    BY <1>4 DEF Settled, Answers
<1> QED BY <1>8, <1>9, <1>10, <1>11, <1>12, <1>13, <1>14, LedgerParts
-------------------------------------------------------------------------------
\* The ledger, kept by what makes nothing

\* What was removed stays away from what only shrinks.
LEMMA RemovedStays ==
    ASSUME Shrinks, NEW k \in Launchers, Removed(k), mode'[k] = "disconnect" => mode[k] = "disconnect",
           applied'[k] = applied[k], seen'[k] = seen[k]
    PROVE  Removed(k)'
BY DEF Removed, Skipped, Shrinks, Nameless, NoWSTunnel

\* A record that names the wstunnel goes on naming it.
LEMMA OneWSTunnelStays ==
    ASSUME OneWSTunnel, \A p \in Pids : process'[p] = "wstunnel" => process[p] = "wstunnel",
           store'.file = "whole" =>
               \/ store.file = "whole" /\ store'.wstunnel = store.wstunnel
               \/ \E k \in Launchers : seen[k].file = "whole" /\ store'.wstunnel = seen[k].wstunnel
               \/ \E k \in Launchers : Unwritten(k) /\ store'.wstunnel = handle[k].wstunnel,
           \A k \in Launchers : seen'[k].file = "whole" =>
               seen'[k] = seen[k] \/ (store.file = "whole" /\ seen'[k] = store),
           \A k \in Launchers : Unwritten(k)' =>
               Unwritten(k) /\ handle'[k] = handle[k] /\ attempted[k] \subseteq attempted'[k]
    PROVE  OneWSTunnel'
<1> SUFFICES ASSUME NEW p \in Pids, process'[p] = "wstunnel"
             PROVE  /\ store'.file = "whole" => store'.wstunnel = p
                    /\ \A k \in Launchers : seen'[k].file = "whole" => seen'[k].wstunnel = p
                    /\ \A k \in Launchers : Unwritten(k)' =>
                          handle'[k].wstunnel = p /\ "start-wstunnel-control" \in attempted'[k]
    BY DEF OneWSTunnel
<1>1. /\ store.file = "whole" => store.wstunnel = p
      /\ \A k \in Launchers : seen[k].file = "whole" => seen[k].wstunnel = p
      /\ \A k \in Launchers : Unwritten(k) =>
            handle[k].wstunnel = p /\ "start-wstunnel-control" \in attempted[k]
    BY DEF OneWSTunnel
<1> QED BY <1>1

\* So does what a start has made, while the start stands by it.
LEMMA BareStays ==
    ASSUME Shrinks, NEW l \in Launchers, Bare(l), \A p \in Pids : process[p] = "free" => process'[p] = "free",
           root' => root, applied'[l] = applied[l], undone'[l] = undone[l],
           mode'[l] = "connect" => mode[l] = "connect" /\ session'.netns = session.netns
    PROVE  Bare(l)'
BY DEF Bare, Standing, Shrinks

\* Nothing stays nothing.
LEMMA ClearStays ==
    ASSUME HostOK', Shrinks, Clear, root' => root
    PROVE  Clear'
<1>1. ~session'.netns /\ session'.veth = "none" /\ ~session'.dns /\ ~session'.wg /\ session'.routes = "none"
      /\ ~session'.killSwitch /\ session' \in Session
    BY DEF Shrinks, Clear, ClearOfNames, NoSession, HostOK
<1>2. session' = NoSession
    BY <1>1 DEF Session, NoSession
<1> QED BY <1>2 DEF Shrinks, Clear, ClearOfNames, NoWSTunnel

\* Who answers for the session answers while it is left alone.
LEMMA AnswersStay ==
    ASSUME NEW k \in Launchers, Answers(k), mode'[k] = mode[k], plan'[k] = plan[k],
           attempted'[k] = attempted[k], applied'[k] = applied[k], failed'[k] = failed[k],
           seen'[k] = seen[k], root' => root
    PROVE  Answers(k)'
BY DEF Answers, Unwritten, Starting, Removing

-------------------------------------------------------------------------------
\* The ledger, kept by a rollback

LEMMA UndoneOnLedger ==
    ASSUME Books, NEW l \in Launchers, NEW s, Engine!UndoOk(l, s) \/ Engine!UndoFail(l, s), Shrinks,
           \A p \in Pids : process[p] = "free" => process'[p] = "free",
           root' => root, store' \in {store, Absent}, UNCHANGED <<handle, seen, watch, disclosed>>,
           Engine!UndoOk(l, s) =>
               /\ s = "create-isolated-runtime-root" => ~root'
               /\ s = "create-netns" => ~session'.netns
               /\ s \in {"create-veth-pair", "configure-host-veth"} =>
                     session.veth # "none" /\ session'.veth = "none"
    PROVE  Ledger'
<1> USE BooksTypes
<1>1. /\ mode' = mode /\ plan' = plan /\ attempted' = attempted /\ applied' = applied /\ failed' = failed
      /\ undone'[l] = undone[l] \cup {s} /\ stuck[l] \subseteq stuck'[l]
      /\ \A k \in Launchers \ {l} : undone'[k] = undone[k] /\ stuck'[k] = stuck[k]
    BY DEF Engine!UndoOk, Engine!UndoFail, Engine!TypeOK
<1>2. stuck'[l] = {} => Engine!UndoOk(l, s) /\ stuck[l] = {}
    BY <1>1 DEF Engine!UndoFail, Engine!TypeOK
<1>3. /\ mode[l] = "rollback" /\ s \in applied[l] /\ s \in Undoable /\ s \notin undone[l]
      /\ \A t \in applied[l] \cap Undoable : Rank[s] < Rank[t] => t \in undone[l]
  <2>1. applied[l] \subseteq Steps
      BY DEF Engine!TypeOK
  <2> QED BY <2>1, AccountRanks DEF Engine!UndoOk, Engine!UndoFail, Engine!ReadyToUndo, Engine!ToUndo
<1>4. \A k \in Launchers : Starting(k) => k = l
    BY <1>3, OnlyStart DEF Starting
<1>5. EarlyIsUnwritten'
    BY <1>1 DEF Books, Ledger, EarlyIsUnwritten, Unwritten, Starting
<1>6. Bares'
  <2> SUFFICES ASSUME "configure-host-veth" \notin applied[l], stuck'[l] = {} PROVE Bare(l)'
      BY <1>1, <1>4 DEF Bares, Starting
  <2>1. Bare(l)
      BY <1>2, <1>3 DEF Books, Ledger, Bares, Starting
  <2> QED BY <1>1, <1>2, <1>3, <2>1 DEF Bare, Standing, Shrinks
<1>7. \A k \in Launchers : Twice(k)'
  <2> SUFFICES ASSUME "configure-host-veth" \in applied[l], stuck'[l] = {} PROVE Twice(l)'
      BY <1>1, <1>4 DEF Twice, Starting
  <2>1. /\ Standing(l, "create-veth-pair")
        /\ "configure-host-veth" \in undone[l] => session.veth = "none"
      BY <1>2, <1>3 DEF Books, Ledger, Twice
  <2>2. s # "create-veth-pair"
    <3> SUFFICES ASSUME s = "create-veth-pair" PROVE FALSE
        OBVIOUS
    <3>1. "configure-host-veth" \in undone[l]
        BY <1>3, AccountRanks, StartPlanMembers DEF Undoable
    <3> QED BY <1>2, <2>1, <3>1
  <2> QED BY <1>1, <1>2, <2>1, <2>2 DEF Twice, Standing, Shrinks
<1>8. \A k \in Launchers : Reads(k)'
    BY <1>1 DEF Books, Ledger, Reads
<1>9. \A k \in Launchers : Removed(k)'
    BY <1>1, RemovedStays DEF Books, Ledger
<1>10. OneWSTunnel'
    BY <1>1, OneWSTunnelStays DEF Books, Ledger, Shrinks, Absent, Unwritten, Starting
<1>11. Settled'
    BY <1>1, <1>3 DEF Settled, Answers
<1> QED BY <1>5, <1>6, <1>7, <1>8, <1>9, <1>10, <1>11, LedgerParts

\* A rollback of a step has one result.
LEMMA UndoneOrNot ==
    ASSUME EngineInv, NEW l \in Launchers, NEW s, Engine!UndoFail(l, s)
    PROVE  ~Engine!UndoOk(l, s)
<1>1. s \notin undone[l] /\ stuck[l] \subseteq undone[l]
    BY DEF EngineInv, Engine!Bookkeeping, Engine!UndoFail, Engine!ReadyToUndo, Engine!ToUndo
<1> QED BY <1>1 DEF Engine!UndoOk, Engine!UndoFail, EngineInv, Engine!TypeOK

LEMMA UndoStepOnLedger ==
    ASSUME Books, NEW l \in Launchers, UndoStep(l)
    PROVE  Ledger'
<1> USE BooksTypes
<1>1. Shrinks
    BY UndoStepShrinks
<1> DEFINE made == {"create-isolated-runtime-root", "create-netns", "create-veth-pair",
                    "configure-host-veth"}
<1>2. ASSUME NEW s, Engine!UndoOk(l, s) \/ Engine!UndoFail(l, s), s \notin made,
             \A p \in Pids : process[p] = "free" => process'[p] = "free",
             UNCHANGED <<diskVars, memoryVars, disclosed>>
      PROVE  Ledger'
    BY <1>1, <1>2, UndoneOnLedger DEF diskVars, memoryVars
<1>3. ASSUME NEW s, NEW there, NEW new, Undoes(l, s, there, new), s \notin made
      PROVE  Ledger'
    BY <1>2, <1>3 DEF Undoes, observationVars
<1> HIDE DEF made
<1>4. ASSUME UndoNothing(l) PROVE Ledger'
    BY <1>2, <1>4 DEF UndoNothing, observationVars, made
<1>5. ASSUME UndoRuntimeRoot(l) PROVE Ledger'
  <2>1. CASE Engine!UndoOk(l, "create-isolated-runtime-root") /\ root' = FALSE /\ store' = Absent
      BY <1>1, <1>5, <2>1, UndoneOnLedger DEF UndoRuntimeRoot, memoryVars, observationVars
  <2>2. CASE Engine!UndoFail(l, "create-isolated-runtime-root") /\ RootPartlyRemoved
      BY <1>1, <1>5, <2>2, UndoneOrNot, UndoneOnLedger
      DEF UndoRuntimeRoot, RootPartlyRemoved, memoryVars, observationVars
  <2> QED BY <1>5, <2>1, <2>2 DEF UndoRuntimeRoot
<1>6. ASSUME UndoNetns(l) PROVE Ledger'
  <2>1. UNCHANGED <<root, store, handle, seen, watch, disclosed>>
      BY <1>6 DEF UndoNetns, diskVars, memoryVars, observationVars
  <2>2. CASE Engine!UndoOk(l, "create-netns") /\ NetnsDeleted(session.veth)
    <3>1. ~session'.netns /\ \A p \in Pids : process[p] = "free" => process'[p] = "free"
        BY <2>2 DEF NetnsDeleted, NoSession, InNamespace
    <3> QED BY <1>1, <2>1, <2>2, <3>1, UndoneOnLedger
  <2>3. CASE Engine!UndoFail(l, "create-netns") /\ UNCHANGED <<session, process>>
      BY <1>1, <2>1, <2>3, UndoneOrNot, UndoneOnLedger
  <2> QED BY <1>6, <2>2, <2>3 DEF UndoNetns
<1>7. ASSUME NEW s, UndoVeth(l, s) PROVE Ledger'
  <2>1. s \in {"create-veth-pair", "configure-host-veth"} /\ UNCHANGED <<process, root, store, handle, seen, watch, disclosed>>
      BY <1>7 DEF UndoVeth, Undoes, diskVars, memoryVars, observationVars
  <2>2. CASE Engine!UndoOk(l, s) /\ session.veth # "none"
             /\ session' = [session EXCEPT !.veth = "none"]
    <3>1. session'.veth = "none"
        BY <2>2 DEF HostOK, Session
    <3> QED BY <1>1, <2>1, <2>2, <3>1, UndoneOnLedger
  <2>3. CASE Engine!UndoFail(l, s) /\ UNCHANGED session
      BY <1>1, <2>1, <2>3, UndoneOrNot, UndoneOnLedger
  <2> QED BY <1>7, <2>2, <2>3 DEF UndoVeth, Undoes
<1>8. ASSUME NEW s, UndoWireGuard(l, s) PROVE Ledger'
    BY <1>3, <1>8 DEF UndoWireGuard, made
<1>9. ASSUME UndoDNS(l) \/ UndoKillSwitch(l) PROVE Ledger'
    BY <1>3, <1>9 DEF UndoDNS, UndoKillSwitch, made
<1>10. ASSUME UndoClientRoutes(l) PROVE Ledger'
    BY <1>2, <1>10 DEF UndoClientRoutes, observationVars, made
<1>11. ASSUME NEW s, s \notin made, NEW pid, NEW kinds, UndoProcess(l, s, pid, kinds) PROVE Ledger'
    BY <1>2, <1>11 DEF UndoProcess, Stopped
<1>12. ASSUME UndoWSTunnel(l) \/ UndoLaunch(l) PROVE Ledger'
    BY <1>11, <1>12 DEF UndoWSTunnel, UndoLaunch, made
<1> QED BY <1>4, <1>5, <1>6, <1>7, <1>8, <1>9, <1>10, <1>12 DEF UndoStep
-------------------------------------------------------------------------------
\* The ledger, kept by a stop and a cleanup

\* An apply of a stop or a cleanup that succeeded.
LEMMA StopAppliedOnLedger ==
    ASSUME Books, HostOK', NEW l \in Launchers, NEW s \in StopSteps \cup CleanupSteps,
           Engine!ApplyOk(l, s), Shrinks, root' => root, store' \in {store, Absent},
           s = "read-isolated-runtime-state" \/ (s \in StopSteps /\ Skipped(l)) =>
               UNCHANGED <<session, process>>,
           s \in StopSteps /\ (s # "clear-isolated-runtime-state" \/ Skipped(l)) => UNCHANGED <<root, store>>,
           s = "clear-isolated-runtime-state" => ~root' \/ Skipped(l),
           s = "remove-namespace-dns" => ~session'.dns \/ Skipped(l),
           s = "delete-netns" => Nameless' \/ Skipped(l),
           s = "stop-wstunnel-control" => NoWSTunnel' \/ Skipped(l),
           \A k \in Launchers \ {l} : seen'[k] = seen[k],
           IF s = "read-isolated-runtime-state"
           THEN seen'[l] = store /\ store.file \in {"absent", "whole"}
           ELSE seen'[l] = seen[l] \/ (seen[l].file = "unread" /\ store.file = "whole" /\ seen'[l] = store),
           UNCHANGED <<handle, watch, disclosed>>
    PROVE  Ledger'
<1> USE BooksTypes
<1>1. Engine!Ready(l, s)
    BY DEF Engine!ApplyOk
<1>2. /\ mode[l] = "disconnect"
      /\ (plan[l] = StopSteps /\ s \in StopSteps) \/ (plan[l] = CleanupSteps /\ s \notin StopSteps)
    BY <1>1, PlanOfStepBesides, StopPlanMembers, CleanupPlanMembers
<1>3. /\ mode' = mode /\ plan' = plan /\ undone' = undone /\ failed' = failed /\ stuck' = stuck
      /\ attempted'[l] = attempted[l] \cup {s} /\ applied'[l] = applied[l] \cup {s}
      /\ \A k \in Launchers \ {l} : attempted'[k] = attempted[k] /\ applied'[k] = applied[k]
    BY DEF Engine!ApplyOk, Engine!TypeOK
<1>4. "read-isolated-runtime-state" # s /\ s \in StopSteps => "read-isolated-runtime-state" \in attempted[l]
    BY <1>1, <1>2, RecordRanks, EarlierAttempted, StopPlanMembers
<1>5. s = "read-isolated-runtime-state" => attempted[l] = {} /\ applied[l] = {}
  <2> SUFFICES ASSUME s = "read-isolated-runtime-state" PROVE attempted[l] = {} /\ applied[l] = {}
      OBVIOUS
  <2>1. plan[l] = StopSteps /\ s \notin attempted[l]
      BY <1>1, <1>2, StopPlanMembers DEF Engine!Ready
  <2>2. attempted[l] \subseteq StopSteps /\ applied[l] \subseteq attempted[l]
      BY <2>1 DEF EngineInv, Engine!Bookkeeping
  <2>3. ASSUME NEW t \in attempted[l] PROVE FALSE
      BY <2>1, <2>2, <2>3, RecordRanks, StopPlanMembers DEF EngineInv, Engine!InPlanOrder
  <2> QED BY <2>2, <2>3
<1>6. \A k \in Launchers : Starting(k) => k # l
    BY <1>2 DEF Starting
<1>7. EarlyIsUnwritten'
    BY <1>3, <1>6 DEF Books, Ledger, EarlyIsUnwritten, Unwritten, Starting
<1>8. Bares'
  <2> SUFFICES ASSUME NEW k \in Launchers, Starting(k), "configure-host-veth" \notin applied'[k], stuck[k] = {}
               PROVE  Bare(k)'
      BY <1>3 DEF Bares, Starting
  <2>1. Bare(k) /\ Unwritten(k) /\ k # l
      BY <1>3, <1>6 DEF Books, Ledger, Bares, EarlyIsUnwritten
  <2>2. UNCHANGED <<session, process>>
      BY <1>1, <2>1, SkippedBeside
  <2> QED BY <1>3, <2>1, <2>2, BareStays
<1>9. \A k \in Launchers : Twice(k)'
    BY <1>2, <1>3 DEF Books, Ledger, Twice, Standing, Shrinks
<1>10. \A k \in Launchers : Reads(k)'
  <2>1. Reads(l)'
      BY <1>3, <1>4, <1>2 DEF Books, Ledger, Reads
  <2>2. ASSUME NEW k \in Launchers \ {l} PROVE Reads(k)'
      BY <1>3 DEF Books, Ledger, Reads
  <2> QED BY <2>1, <2>2
<1>11. \A k \in Launchers : Removed(k)'
  <2>1. Removed(l)'
    <3>1. CASE s = "read-isolated-runtime-state"
        BY <1>3, <1>5, <3>1 DEF Removed
    <3>2. CASE s # "read-isolated-runtime-state"
      <4> SUFFICES ASSUME ~Skipped(l)' PROVE Removed(l)'
          BY DEF Removed, Skipped
      <4>1. ~Skipped(l)
          BY <3>2 DEF Skipped
      <4>2. /\ "remove-namespace-dns" \in applied[l] => ~session.dns
            /\ "delete-netns" \in applied[l] => Nameless
            /\ "stop-wstunnel-control" \in applied[l] => NoWSTunnel
          BY <1>2, <4>1 DEF Books, Ledger, Removed
      <4>3. (~session.dns => ~session'.dns) /\ (Nameless => Nameless') /\ (NoWSTunnel => NoWSTunnel')
          BY DEF Shrinks, Nameless, NoWSTunnel
      <4> QED BY <1>3, <4>1, <4>2, <4>3 DEF Removed
    <3> QED BY <3>1, <3>2
  <2> QED BY <1>3, <2>1, RemovedStays DEF Books, Ledger
<1>12. OneWSTunnel'
    BY <1>3, <1>6, OneWSTunnelStays DEF Books, Ledger, Shrinks, Absent, Unwritten, Starting
<1>13. Settled'
  <2>1. CASE plan[l] = CleanupSteps
      BY <1>2, <1>3, <2>1 DEF Settled, Answers
  <2>2. CASE s = "clear-isolated-runtime-state" /\ ~Skipped(l)
    <3>1. "read-isolated-runtime-state" \in applied[l] \cup failed[l]
        BY <1>2, <1>4, <2>2, StopPlanMembers DEF EngineInv, Engine!Bookkeeping
    <3>2. CASE "read-isolated-runtime-state" \in failed[l]
        BY <1>2, <1>3, <3>2 DEF Settled, Answers
    <3>3. CASE "read-isolated-runtime-state" \in applied[l]
      <4>1. seen[l].file = "whole" /\ seen'[l] = seen[l]
          BY <1>2, <2>2, <3>3, StopPlanMembers DEF Books, Ledger, Reads, Skipped
      <4> QED BY <1>2, <1>3, <2>2, <4>1, StopPlanMembers DEF Settled, Answers, Removing
    <3> QED BY <3>1, <3>2, <3>3
  <2>3. CASE plan[l] = StopSteps /\ (s # "clear-isolated-runtime-state" \/ Skipped(l))
    <3>1. UNCHANGED <<root, store, watch, disclosed>>
        BY <1>2, <2>3
    <3>2. OnRecord => OnRecord'
        BY <3>1 DEF OnRecord
    <3>3. ASSUME NEW k \in Launchers, Answers(k), k # l PROVE Answers(k)'
        BY <1>3, <3>3, AnswersStay
    <3>4. ASSUME Answers(l) PROVE Answers(l)'
      <4>1. CASE failed[l] # {}
          BY <1>2, <1>3, <4>1 DEF Answers
      <4>2. CASE Removing(l)
        <5>1. s # "read-isolated-runtime-state"
            BY <1>1, <4>2 DEF Removing, Books, Ledger, Reads, Engine!Ready
        <5>2. seen'[l] = seen[l] /\ ~Skipped(l)
            BY <4>2, <5>1 DEF Removing, Skipped
        <5> QED BY <1>3, <2>3, <3>1, <4>2, <5>2 DEF Answers, Removing
      <4> QED BY <1>2, <2>3, <3>4, <4>1, <4>2, StopPlanMembers, CleanupPlanMembers DEF Answers, Unwritten, Starting
    <3>5. Clear => Clear'
        BY ClearStays
    <3> QED BY <3>1, <3>2, <3>3, <3>4, <3>5 DEF Books, Ledger, Settled
  <2> QED BY <1>2, <2>1, <2>2, <2>3
<1> QED BY <1>7, <1>8, <1>9, <1>10, <1>11, <1>12, <1>13, LedgerParts

LEMMA StopStepOnLedger ==
    ASSUME Books, NEW l \in Launchers, StopStep(l)
    PROVE  Ledger'
<1> USE BooksTypes, StopPlanMembers
<1>1. Shrinks /\ HostOK'
    BY StopStepShrinks, StopStepKeeps DEF Kept
<1>2. ASSUME ReadRuntimeState(l) PROVE Ledger'
  <2>1. store.file \in {"absent", "whole"}
      BY <1>2 DEF ReadRuntimeState, Done, Works, DiskOK, StateFile
  <2> QED BY <1>1, <1>2, <2>1, StopAppliedOnLedger
         DEF ReadRuntimeState, Done, diskVars, observationVars, MemoryOK
<1>3. ASSUME NEW s \in StopSteps, Dependent(l, s), s # "read-isolated-runtime-state",
             s # "clear-isolated-runtime-state", Skipped(l) => UNCHANGED <<session, process>>,
             s = "remove-namespace-dns" => ~session'.dns \/ Skipped(l),
             s = "delete-netns" => Nameless' \/ Skipped(l),
             s = "stop-wstunnel-control" => NoWSTunnel' \/ Skipped(l)
      PROVE  Ledger'
  <2>1. /\ seen'[l] = seen[l] \/ (seen[l].file = "unread" /\ store.file = "whole" /\ seen'[l] = store)
        /\ \A k \in Launchers \ {l} : seen'[k] = seen[k]
      BY <1>3 DEF Dependent, Remember, Known, MemoryOK
  <2> QED BY <1>1, <1>3, <2>1, StopAppliedOnLedger DEF Dependent, Done, diskVars
<1>4. ASSUME StopMonitor(l) PROVE Ledger'
    BY <1>3, <1>4 DEF StopMonitor
<1>5. ASSUME StopApp(l) PROVE Ledger'
    BY <1>3, <1>5 DEF StopApp
<1>6. ASSUME NEW s \in StopSteps, NEW new, Removes(l, s, new), s # "read-isolated-runtime-state",
             s # "clear-isolated-runtime-state", s # "delete-netns", s # "stop-wstunnel-control",
             s = "remove-namespace-dns" => ~new.dns
      PROVE  Ledger'
    BY <1>3, <1>6 DEF Removes
<1>7. ASSUME RemoveKillSwitch(l) \/ RemoveClientRoutes(l) \/ RemoveWireGuard(l) PROVE Ledger'
    BY <1>6, <1>7 DEF RemoveKillSwitch, RemoveClientRoutes, RemoveWireGuard
<1>8. ASSUME RemoveNamespaceDNS(l) PROVE Ledger'
    BY <1>6, <1>8 DEF RemoveNamespaceDNS, HostOK, Session
<1>9. ASSUME StopWSTunnelControl(l) PROVE Ledger'
  <2>1. NoWSTunnel' \/ Skipped(l)
    <3> SUFFICES ASSUME ~Skipped(l) PROVE NoWSTunnel'
        OBVIOUS
    <3>1. process' = Stopped(Known(l).wstunnel, {"wstunnel"})
        BY <1>9 DEF StopWSTunnelControl
    <3>2. Known(l).file = "whole"
        BY <1>9 DEF StopWSTunnelControl, Dependent, Done, Works
    <3>3. \A p \in Pids : process[p] = "wstunnel" => Known(l).wstunnel = p
        BY <3>2 DEF Books, Ledger, OneWSTunnel, Known
    <3> QED BY <3>1, <3>3 DEF Stopped, NoWSTunnel
  <2> QED BY <1>3, <1>9, <2>1 DEF StopWSTunnelControl
<1>10. ASSUME DeleteNetns(l) PROVE Ledger'
  <2>1. Nameless' \/ Skipped(l)
      BY <1>10 DEF DeleteNetns, NetnsDeleted, Nameless, NoSession, VethAfter
  <2> QED BY <1>3, <1>10, <2>1 DEF DeleteNetns
<1>11. ASSUME ClearRuntimeState(l) PROVE Ledger'
    BY <1>1, <1>11, StopAppliedOnLedger
    DEF ClearRuntimeState, Done, diskVars, memoryVars, observationVars
<1> QED BY <1>2, <1>4, <1>5, <1>7, <1>8, <1>9, <1>10, <1>11 DEF StopStep

LEMMA CleanupStepOnLedger ==
    ASSUME Books, NEW l \in Launchers, CleanupStep(l)
    PROVE  Ledger'
<1> USE BooksTypes, StopPlanMembers, CleanupPlanMembers
<1>1. Shrinks /\ HostOK'
    BY CleanupStepShrinks, CleanupStepKeeps DEF Kept
<1>2. ASSUME NEW s \in CleanupSteps, Engine!ApplyOk(l, s), UNCHANGED <<memoryVars, disclosed>>,
             root' => root, store' \in {store, Absent}
      PROVE  Ledger'
    BY <1>1, <1>2, StopAppliedOnLedger DEF memoryVars
<1>3. ASSUME NEW s \in CleanupSteps, NEW change, IgnoredOr(l, s, change) PROVE Ledger'
    BY <1>2, <1>3 DEF IgnoredOr, Done, diskVars
<1>4. ASSUME CleanupProcesses(l) PROVE Ledger'
    BY <1>3, <1>4 DEF CleanupProcesses
<1>5. ASSUME CleanupKillSwitch(l) PROVE Ledger'
    BY <1>3, <1>5 DEF CleanupKillSwitch
<1>6. ASSUME CleanupWireGuard(l) PROVE Ledger'
    BY <1>3, <1>6 DEF CleanupWireGuard
<1>7. ASSUME CleanupNetns(l) PROVE Ledger'
    BY <1>3, <1>7 DEF CleanupNetns
<1>8. ASSUME CleanupDNS(l) PROVE Ledger'
    BY <1>2, <1>8 DEF CleanupDNS, Changes, Done, diskVars, observationVars
<1>9. ASSUME CleanupRuntimeRoot(l) PROVE Ledger'
    BY <1>2, <1>9 DEF CleanupRuntimeRoot, Done, observationVars
<1> QED BY <1>4, <1>5, <1>6, <1>7, <1>8, <1>9 DEF CleanupStep
\* A step of a stop or a cleanup that fails: there is no start without a record.
LEMMA StopFailureOnLedger ==
    ASSUME Books, Undisturbed, NEW l \in Launchers, mode[l] = "disconnect",
           NEW s \in plan[l], StepFails(l, s)
    PROVE  Ledger'
<1> USE BooksTypes
<1>1. Engine!Ready(l, s) /\ Interrupted(l, s) /\ UNCHANGED <<handle, watch, disclosed>>
    BY DEF StepFails, Engine!ApplyFail
<1>2. plan[l] \in {StopSteps, CleanupSteps} /\ s \in StopSteps \cup CleanupSteps
    BY DEF Ground, MonitorSafe, Stops, StopInv
<1>3. /\ mode' = mode /\ plan' = plan /\ applied' = applied /\ undone' = undone /\ stuck' = stuck
      /\ attempted'[l] = attempted[l] \cup {s} /\ s \in failed'[l]
      /\ \A k \in Launchers \ {l} : attempted'[k] = attempted[k]
    BY DEF StepFails, Engine!ApplyFail, Engine!ModeAfterError, Engine!TypeOK
<1>4. \A k \in Launchers : ~Unwritten(k)
    BY NoFailureBeside
<1>5. Shrinks /\ store' \in {store, Absent}
    BY <1>1, <1>2, InterruptedShrinks, InterruptedStore, StopPlanMembers, CleanupPlanMembers
<1>6. /\ seen'[l] = seen[l] \/ (seen[l].file = "unread" /\ store.file = "whole" /\ seen'[l] = store)
      /\ \A k \in Launchers \ {l} : seen'[k] = seen[k]
    BY DEF StepFails, Remember, Known, MemoryOK
<1>7. EarlyIsUnwritten' /\ Bares'
    BY <1>3, <1>4 DEF Books, Ledger, EarlyIsUnwritten, Bares, Unwritten, Starting
<1>8. \A k \in Launchers : Twice(k)'
    BY <1>3, <1>5 DEF Books, Ledger, Twice, Standing, Shrinks
<1>9. \A k \in Launchers : Reads(k)'
  <2>1. ASSUME plan[l] = StopSteps, s # "read-isolated-runtime-state"
        PROVE  "read-isolated-runtime-state" \in attempted[l]
      BY <1>1, <2>1, RecordRanks, EarlierAttempted, StopPlanMembers
  <2>2. Reads(l)'
      BY <1>3, <1>6, <2>1 DEF Books, Ledger, Reads
  <2> QED BY <1>3, <1>6, <2>2 DEF Books, Ledger, Reads
<1>10. \A k \in Launchers : Removed(k)'
  <2>1. Removed(l)'
    <3>1. Skipped(l) => Skipped(l)'
        BY <1>6 DEF Skipped
    <3>2. (~session.dns => ~session'.dns) /\ (Nameless => Nameless') /\ (NoWSTunnel => NoWSTunnel')
        BY <1>5 DEF Shrinks, Nameless, NoWSTunnel
    <3> QED BY <1>3, <3>1, <3>2 DEF Books, Ledger, Removed
  <2> QED BY <1>3, <1>5, <1>6, <2>1, RemovedStays DEF Books, Ledger
<1>11. OneWSTunnel'
  <2>1. \A k \in Launchers : ~Unwritten(k)'
      BY <1>3, <1>4 DEF Unwritten, Starting
  <2> QED BY <1>5, <1>6, <2>1, OneWSTunnelStays DEF Books, Ledger, Shrinks, Absent
<1>12. Settled'
    BY <1>3 DEF Settled, Answers
<1> QED BY <1>7, <1>8, <1>9, <1>10, <1>11, <1>12, LedgerParts

-------------------------------------------------------------------------------
\* The ledger, at the beginning and the end of a run

\* A first start finds nothing; a stop or a cleanup has removed nothing yet.
LEMMA BegunOnLedger ==
    ASSUME Books, NEW l \in Launchers, NEW kind, NEW steps, Engine!Begin(l, kind, steps),
           \/ kind = "connect" /\ steps = StartSteps /\ \A k \in Launchers : plan[k] = {}
           \/ kind = "disconnect",
           UNCHANGED <<session, process, root, store, disclosed>>,
           \A m \in Launchers : watch[m] = "saving" => watch'[m] = "saving",
           seen'[l] = Unread, \A k \in Launchers \ {l} : seen'[k] = seen[k] /\ handle'[k] = handle[k]
    PROVE  Ledger'
<1> USE BooksTypes
<1>1. /\ mode[l] = "off" /\ mode'[l] = kind /\ plan'[l] = steps
      /\ attempted'[l] = {} /\ applied'[l] = {} /\ undone'[l] = {} /\ failed'[l] = {}
      /\ \A k \in Launchers \ {l} :
            /\ mode'[k] = mode[k] /\ plan'[k] = plan[k] /\ attempted'[k] = attempted[k]
            /\ applied'[k] = applied[k] /\ undone'[k] = undone[k] /\ failed'[k] = failed[k]
            /\ stuck'[k] = stuck[k]
    BY DEF Engine!Begin, Engine!TypeOK
<1>2. Shrinks
    BY DEF Shrinks
<1>3. \A k \in Launchers \ {l} :
          /\ Starting(k)' <=> Starting(k)
          /\ Unwritten(k)' <=> Unwritten(k)
    BY <1>1 DEF Unwritten, Starting
<1>4. EarlyIsUnwritten'
    BY <1>1, <1>3 DEF Books, Ledger, EarlyIsUnwritten, Unwritten, Starting
<1>5. Bares'
  <2>1. ASSUME kind = "connect" PROVE Bare(l)'
    <3>1. Clear /\ \A p \in Pids : process[p] = "free"
        BY <1>1, <2>1 DEF Ground, MonitorSafe, NothingYet, Engine!Begin
    <3> QED BY <1>1, <3>1 DEF Bare, Clear, ClearOfNames, NoSession
  <2>2. ASSUME NEW k \in Launchers \ {l}, Starting(k), "configure-host-veth" \notin applied[k], stuck[k] = {}
        PROVE  Bare(k)'
      BY <1>1, <1>2, <2>2, BareStays DEF Books, Ledger, Bares
  <2>3. kind # "connect" => ~Starting(l)'
      BY <1>1 DEF Starting, Engine!Begin
  <2> QED BY <1>1, <1>3, <2>1, <2>2, <2>3 DEF Bares
<1>6. \A k \in Launchers : Twice(k)'
    BY <1>1 DEF Books, Ledger, Twice, Standing, Engine!Begin
<1>7. \A k \in Launchers : Reads(k)'
    BY <1>1 DEF Books, Ledger, Reads, Unread, Absent
<1>8. \A k \in Launchers : Removed(k)'
  <2>1. Removed(l)'
      BY <1>1 DEF Removed
  <2> QED BY <1>1, <1>2, <2>1, RemovedStays DEF Books, Ledger
<1>9. OneWSTunnel'
  <2>1. CASE kind = "connect"
    <3>1. \A p \in Pids : process[p] = "free"
        BY <1>1, <2>1 DEF Ground, MonitorSafe, NothingYet, Engine!Begin
    <3> QED BY <3>1 DEF OneWSTunnel
  <2>2. CASE kind # "connect"
    <3>1. ~Unwritten(l)'
        BY <1>1, <2>2 DEF Unwritten, Starting, Engine!Begin
    <3> QED BY <1>1, <1>3, <3>1, OneWSTunnelStays DEF Books, Ledger, Unread, Absent
  <2> QED BY <2>1, <2>2
<1>10. Settled'
  <2>1. ASSUME NEW k \in Launchers, Answers(k) PROVE Answers(k)'
    <3>1. k # l
        BY <1>1, <2>1 DEF Answers, Unwritten, Starting, Removing
    <3> QED BY <1>1, <2>1, <3>1, AnswersStay
  <2>2. (Clear => Clear') /\ (OnRecord => OnRecord')
      BY DEF Clear, ClearOfNames, NoWSTunnel, OnRecord
  <2> QED BY <2>1, <2>2 DEF Books, Ledger, Settled
<1> QED BY <1>4, <1>5, <1>6, <1>7, <1>8, <1>9, <1>10, LedgerParts
\* A run that ends or dies: what it was in the middle of, if anything, removes, or
\* is of a start without a record.
LEMMA EndedOnLedger ==
    ASSUME Books, NEW l \in Launchers, mode[l] # "off", mode' = [mode EXCEPT ![l] = "off"],
           UNCHANGED <<plan, attempted, applied, failed, undone, stuck>>,
           Unwritten(l) \/ (Shrinks /\ store' \in {store, Absent}),
           \A p \in Pids : process'[p] = "wstunnel" => process[p] = "wstunnel",
           (\E k \in Launchers \ {l} : Unwritten(k)) => UNCHANGED <<session, process, root>>,
           store' \in {store, Absent, Torn} \/ (Unwritten(l) /\ store' = RecordOf(l)),
           seen'[l] \in {seen[l], Unread},
           \A k \in Launchers \ {l} : seen'[k] = seen[k] /\ handle'[k] = handle[k],
           Settled'
    PROVE  Ledger'
<1> USE BooksTypes
<1>1. mode'[l] = "off" /\ \A k \in Launchers \ {l} : mode'[k] = mode[k]
    BY DEF Engine!TypeOK
<1>2. ~Starting(l)' /\ \A k \in Launchers \ {l} : (Starting(k)' <=> Starting(k)) /\ (Unwritten(k)' <=> Unwritten(k))
    BY <1>1 DEF Unwritten, Starting
<1>3. EarlyIsUnwritten'
    BY <1>2 DEF Books, Ledger, EarlyIsUnwritten
<1>4. Bares'
  <2> SUFFICES ASSUME NEW k \in Launchers \ {l}, Starting(k), "configure-host-veth" \notin applied[k], stuck[k] = {}
               PROVE  Bare(k)'
      BY <1>2 DEF Bares
  <2>1. Bare(k) /\ Unwritten(k)
      BY DEF Books, Ledger, Bares, EarlyIsUnwritten
  <2>2. UNCHANGED <<session, process, root>>
      BY <2>1
  <2>3. Shrinks
      BY <2>2 DEF Shrinks
  <2> QED BY <1>1, <2>1, <2>2, <2>3, BareStays
<1>5. \A k \in Launchers : Twice(k)'
  <2> SUFFICES ASSUME NEW k \in Launchers \ {l}, mode[k] = "rollback" PROVE Twice(k)'
      BY <1>1 DEF Twice
  <2>1. ~Unwritten(l)
      BY OnlyStart DEF Starting
  <2> QED BY <1>1, <2>1 DEF Books, Ledger, Twice, Standing, Shrinks
<1>6. \A k \in Launchers : Reads(k)'
    BY <1>1 DEF Books, Ledger, Reads
<1>7. \A k \in Launchers : Removed(k)'
  <2> SUFFICES ASSUME NEW k \in Launchers \ {l}, mode[k] = "disconnect", ~Skipped(k) PROVE Removed(k)'
      BY <1>1 DEF Removed, Skipped
  <2>1. CASE Unwritten(l)
      BY <2>1, NothingRemovedBeside DEF Removed
  <2>2. CASE ~Unwritten(l)
      BY <1>1, <2>2, RemovedStays DEF Books, Ledger
  <2> QED BY <2>1, <2>2
<1>8. OneWSTunnel'
    BY <1>2, OneWSTunnelStays DEF Books, Ledger, Unwritten, Unread, Absent, Torn, RecordOf
<1> QED BY <1>3, <1>4, <1>5, <1>6, <1>7, <1>8, LedgerParts

\* What a run did that answers for the session and returns without a word of dirt:
\* a rollback undid all there was, a stop removed it.
LEMMA AnsweredIsClear ==
    ASSUME Books, NEW l \in Launchers, Answers(l), Engine!Exhausted(l),
           plan[l] # CleanupSteps, Engine!Verdict(l) # "FailedDirty"
    PROVE  Clear
<1> USE BooksTypes
<1>1. CASE mode[l] = "connect"
  <2>1. plan[l] = StartSteps /\ Unwritten(l)
      BY <1>1 DEF Ground, MonitorSafe, OneStart, Starting, Answers, Removing
  <2> QED BY <1>1, <2>1, StartPlanMembers DEF Engine!Exhausted, Unwritten
<1>2. CASE mode[l] = "rollback"
  <2>1. stuck[l] = {} /\ applied[l] \cap Undoable \subseteq undone[l]
      BY <1>2 DEF Engine!Verdict, Engine!Exhausted, Engine!ToUndo
  <2>2. "configure-host-veth" \notin applied[l]
      BY <1>2, <2>1, StartPlanMembers DEF Books, Ledger, Twice, Standing, Undoable
  <2>3. Bare(l)
      BY <1>2, <2>1, <2>2 DEF Books, Ledger, Bares, Starting
  <2>4. /\ ~Standing(l, "create-netns") /\ ~Standing(l, "create-veth-pair")
        /\ ~Standing(l, "create-isolated-runtime-root")
      BY <2>1, StartPlanMembers DEF Standing, Undoable
  <2>5. session = NoSession
      BY <2>3, <2>4 DEF Bare, HostOK, Session, NoSession
  <2> QED BY <2>3, <2>4, <2>5 DEF Bare, Clear, ClearOfNames, NoWSTunnel
<1>3. CASE mode[l] = "disconnect"
  <2>1. failed[l] = {} /\ plan[l] \subseteq attempted[l]
      BY <1>3 DEF Engine!Verdict, Engine!Exhausted
  <2>2. Removing(l)
      BY <1>3, <2>1 DEF Answers, Unwritten, Starting
  <2>3. StopSteps \subseteq applied[l]
      BY <2>1, <2>2 DEF Removing, EngineInv, Engine!Bookkeeping
  <2>4. Removed(l) /\ ~Skipped(l)
      BY <2>2 DEF Books, Ledger, Removing, Skipped
  <2>5. ~root /\ ~session.dns /\ Nameless /\ NoWSTunnel
      BY <1>3, <2>2, <2>3, <2>4, StopPlanMembers DEF Removing, Removed
  <2>6. session = NoSession
      BY <2>5 DEF Nameless, HostOK, Session, NoSession
  <2> QED BY <2>5, <2>6 DEF Clear, ClearOfNames
<1> QED BY <1>1, <1>2, <1>3 DEF Engine!Exhausted

LEMMA ReturnOnLedger ==
    ASSUME Books, NEW l \in Launchers, ReturnAndWatch(l)
    PROVE  Ledger'
<1> USE BooksTypes
<1>1. /\ Engine!Exhausted(l) /\ mode[l] # "off" /\ mode' = [mode EXCEPT ![l] = "off"]
      /\ UNCHANGED <<plan, attempted, applied, failed, undone, stuck>>
    BY DEF ReturnAndWatch, Finishes, Engine!Return, Engine!Exhausted
<1>2. UNCHANGED <<session, process, root, store, handle, seen>>
    BY DEF ReturnAndWatch, Finishes, diskVars
<1>3. disclosed' = (~Clear /\ (disclosed \/ plan[l] = CleanupSteps \/ Engine!Verdict(l) = "FailedDirty"))
    BY DEF ReturnAndWatch, Finishes
<1>4. \A m \in Launchers : watch[m] = "saving" => watch'[m] = "saving"
  <2>1. watch[l] # "saving"
      BY <1>1 DEF Ground, MonitorTypes, WatchersAreIdle
  <2>2. CASE watch' = [watch EXCEPT ![l] = "none"]
      BY <2>1, <2>2 DEF MemoryOK
  <2>3. CASE Spawns
      BY <2>3, SpawnsIdle DEF Idle
  <2> QED BY <2>2, <2>3 DEF ReturnAndWatch
<1>5. Shrinks
    BY <1>2 DEF Shrinks
<1>6. Settled'
  <2>1. Clear => Clear'
      BY <1>2 DEF Clear, ClearOfNames, NoWSTunnel
  <2>2. OnRecord => OnRecord'
      BY <1>2, <1>4 DEF OnRecord
  <2>3. ASSUME NEW k \in Launchers, k # l, Answers(k) PROVE Answers(k)'
    <3>1. mode'[k] = mode[k]
        BY <1>1, <2>3 DEF Engine!TypeOK
    <3> QED BY <1>1, <1>2, <2>3, <3>1, AnswersStay
  <2>4. Answers(l) => Clear \/ plan[l] = CleanupSteps \/ Engine!Verdict(l) = "FailedDirty"
      BY <1>1, AnsweredIsClear
  <2> QED BY <1>3, <2>1, <2>2, <2>3, <2>4 DEF Books, Ledger, Settled
<1> QED BY <1>1, <1>2, <1>5, <1>6, EndedOnLedger

\* A part of a step that is skipped, or only reads, is nothing.
LEMMA InterruptedInVain ==
    ASSUME NEW l \in Launchers, NEW s \in StopSteps, Interrupted(l, s),
           s = "read-isolated-runtime-state" \/ Skipped(l)
    PROVE  UNCHANGED <<session, process, diskVars>>
BY StopPlanMembers DEF Interrupted, Skipped, Known, diskVars

\* A process that dies, wherever it is.
LEMMA DeathOnLedger ==
    ASSUME Books, NEW l \in Launchers, DiesInside(l), mode[l] # "off",
           mode' = [mode EXCEPT ![l] = "off"],
           UNCHANGED <<plan, attempted, applied, failed, undone, stuck>>, Settled',
           seen'[l] \in {seen[l], Unread},
           \A k \in Launchers \ {l} : seen'[k] = seen[k] /\ handle'[k] = handle[k]
    PROVE  Ledger'
<1> USE BooksTypes
<1>1. CASE UNCHANGED <<session, process, diskVars>>
  <2>1. Shrinks
      BY <1>1 DEF Shrinks
  <2> QED BY <1>1, <2>1, EndedOnLedger DEF diskVars
<1>2. ASSUME NEW s \in plan[l], Engine!Ready(l, s), Interrupted(l, s) PROVE Ledger'
  <2>1. s \in StartSteps \cup StopSteps \cup CleanupSteps
      BY InSteps DEF Engine!TypeOK
  <2>2. CASE s \in StartSteps
    <3>1. Unwritten(l) /\ process' = process
          /\ (store' = store \/ store' \in {Torn, RecordOf(l)})
        BY <1>2, <2>2, ReadyIsUnwritten, InterruptedStart
    <3>2. \A k \in Launchers \ {l} : ~Unwritten(k)
        BY <3>1, OnlyStart DEF Unwritten
    <3> QED BY <3>1, <3>2, EndedOnLedger
  <2>3. CASE s \in StopSteps \cup CleanupSteps
    <3>1. Shrinks /\ store' \in {store, Absent}
        BY <1>2, <2>3, InterruptedShrinks, InterruptedStore, StopPlanMembers, CleanupPlanMembers
    <3>2. ASSUME NEW k \in Launchers \ {l}, Unwritten(k) PROVE UNCHANGED <<session, process, root>>
      <4>1. s = "read-isolated-runtime-state" \/ (s \in StopSteps /\ Skipped(l))
          BY <1>2, <2>3, <3>2, SkippedBeside
      <4> QED BY <1>2, <4>1, InterruptedInVain, StopPlanMembers DEF diskVars
    <3>3. \A p \in Pids : process'[p] = "wstunnel" => process[p] = "wstunnel"
        BY <3>1 DEF Shrinks
    <3> QED BY <3>1, <3>2, <3>3, EndedOnLedger
  <2> QED BY <2>1, <2>2, <2>3
<1>3. CASE UndoInterrupted(l)
  <2>1. Shrinks /\ store' \in {store, Absent}
      BY <1>3, UndoInterruptedShrinks
  <2>2. Starting(l)
      BY <1>3 DEF UndoInterrupted, Engine!ReadyToUndo, Starting
  <2>3. \A k \in Launchers \ {l} : ~Unwritten(k)
      BY <2>2, OnlyStart
  <2>4. \A p \in Pids : process'[p] = "wstunnel" => process[p] = "wstunnel"
      BY <2>1 DEF Shrinks
  <2> QED BY <2>1, <2>3, <2>4, EndedOnLedger
<1> QED BY <1>1, <1>2, <1>3 DEF DiesInside

LEMMA KillOnLedger ==
    ASSUME Books, NEW l \in Launchers, Kill(l)
    PROVE  Ledger'
<1> USE BooksTypes
<1>1. /\ mode[l] # "off" /\ mode' = [mode EXCEPT ![l] = "off"]
      /\ UNCHANGED <<plan, attempted, applied, failed, undone, stuck>>
    BY DEF Kill, Engine!Kill
<1>2. Settled'
    BY DEF Kill, Settled
<1>3. /\ seen'[l] = Unread
      /\ \A k \in Launchers \ {l} : seen'[k] = seen[k] /\ handle'[k] = handle[k]
    BY DEF Kill, MemoryOK
<1> QED BY <1>1, <1>2, <1>3, DeathOnLedger DEF Kill

-------------------------------------------------------------------------------
\* The ledger, kept beside the runs

\* What happens between the turns of runs.
LEMMA AsideOnLedger ==
    ASSUME Books, UNCHANGED <<engineVars, handle>>, Shrinks, session'.netns = session.netns,
           (\A p \in Pids : process[p] = "free") => \A p \in Pids : process'[p] = "free",
           root' = root \/ \E m \in Launchers : watch[m] # "none",
           store'.file = "whole" =>
               \/ store.file = "whole" /\ store'.wstunnel = store.wstunnel
               \/ \E k \in Launchers : seen[k].file = "whole" /\ store'.wstunnel = seen[k].wstunnel,
           \A k \in Launchers :
               seen'[k] = seen[k] \/ (mode[k] = "off" /\ seen'[k] = store),
           Settled'
    PROVE  Ledger'
<1> USE BooksTypes
<1>1. UNCHANGED <<mode, plan, attempted, applied, failed, undone, stuck>>
    BY DEF engineVars
<1>2. EarlyIsUnwritten'
    BY <1>1 DEF Books, Ledger, EarlyIsUnwritten, Unwritten, Starting
<1>3. Bares'
  <2> SUFFICES ASSUME NEW k \in Launchers, Starting(k), "configure-host-veth" \notin applied[k], stuck[k] = {}
               PROVE  Bare(k)'
      BY <1>1 DEF Bares, Starting
  <2>1. Bare(k) /\ Unwritten(k)
      BY DEF Books, Ledger, Bares, EarlyIsUnwritten
  <2>2. root' = root
      BY <2>1 DEF Ground, MonitorSafe, Alone
  <2>3. \A p \in Pids : process'[p] = "free"
      BY <2>1 DEF Bare
  <2> QED BY <1>1, <2>1, <2>2, <2>3, BareStays
<1>4. \A k \in Launchers : Twice(k)'
    BY <1>1 DEF Books, Ledger, Twice, Standing, Shrinks
<1>5. \A k \in Launchers : Reads(k)'
    BY <1>1 DEF Books, Ledger, Reads
<1>6. \A k \in Launchers : Removed(k)'
  <2> SUFFICES ASSUME NEW k \in Launchers, mode[k] = "disconnect" PROVE Removed(k)'
      BY <1>1 DEF Removed
  <2> QED BY <1>1, RemovedStays DEF Books, Ledger
<1>7. OneWSTunnel'
    BY <1>1, OneWSTunnelStays DEF Books, Ledger, Shrinks, Unwritten, Starting
<1> QED BY <1>2, <1>3, <1>4, <1>5, <1>6, <1>7, LedgerParts

LEMMA AsideSettles ==
    ASSUME Books, HostOK', UNCHANGED <<engineVars, root, store, disclosed>>, Shrinks,
           \A k \in Launchers : mode[k] # "off" => seen'[k] = seen[k],
           \A m \in Launchers : watch[m] = "saving" => watch'[m] = "saving" \/ store.file = "absent"
    PROVE  Settled'
<1>1. ASSUME NEW k \in Launchers, Answers(k) PROVE Answers(k)'
  <2>1. mode[k] # "off"
      BY <1>1 DEF Answers, Unwritten, Starting, Removing
  <2> QED BY <1>1, <2>1, AnswersStay DEF engineVars
<1>2. OnRecord => OnRecord'
    BY DEF OnRecord
<1> QED BY <1>1, <1>2, ClearStays DEF Books, Ledger, Settled
\* A stop signals the monitor before it clears the record.
LEMMA SignalRanks == Rank["stop-isolated-monitor"] < Rank["clear-isolated-runtime-state"]
<1>1. Place("stop-isolated-monitor") = 2 /\ Place("clear-isolated-runtime-state") = 10
  <2>1. Place("stop-isolated-monitor") = 2
      BY PlaceIs DEF StartPlan, StopPlan, CleanupPlan
  <2>2. Place("clear-isolated-runtime-state") = 10
      BY PlaceIs DEF StartPlan, StopPlan, CleanupPlan
  <2> QED BY <2>1, <2>2
<1> QED BY <1>1, InSteps DEF Rank

\* Who signals a monitor answers for the session in its place.
LEMMA SignallerAnswers ==
    ASSUME Books, NEW l \in Launchers, Engine!Ready(l, "stop-isolated-monitor"), ~Skipped(l)
    PROVE  Answers(l)
<1> USE BooksTypes, StopPlanMembers
<1>1. mode[l] = "disconnect" /\ plan[l] = StopSteps
    BY PlanOfStepBesides
<1>2. "read-isolated-runtime-state" \in attempted[l]
    BY <1>1, RecordRanks, EarlierAttempted
<1>3. "clear-isolated-runtime-state" \notin attempted[l]
    BY <1>1, SignalRanks DEF Engine!Ready, EngineInv, Engine!InPlanOrder
<1>4. CASE failed[l] # {}
    BY <1>1, <1>4 DEF Answers
<1>5. CASE failed[l] = {}
  <2>1. "read-isolated-runtime-state" \in applied[l] /\ "clear-isolated-runtime-state" \notin applied[l]
      BY <1>2, <1>3, <1>5 DEF EngineInv, Engine!Bookkeeping
  <2>2. seen[l].file = "whole"
      BY <1>1, <2>1 DEF Books, Ledger, Reads, Skipped
  <2> QED BY <1>1, <2>1, <2>2 DEF Answers, Removing
<1> QED BY <1>4, <1>5

LEMMA SignalOnLedger ==
    ASSUME Books, NEW l \in Launchers, SignalMonitor(l)
    PROVE  Ledger'
<1> USE BooksTypes
<1>1. Answers(l) /\ mode[l] # "off"
    BY SignallerAnswers DEF SignalMonitor, Engine!Ready
<1>2. UNCHANGED <<handle, seen, disclosed>>
    BY DEF SignalMonitor, observationVars
<1>3. PICK m \in Launchers \ {l} :
          /\ watch[m] # "none"
          /\ IF mode[m] = "off"
             THEN UNCHANGED <<engineVars, session, process, diskVars>>
             ELSE Engine!Kill(m) /\ DiesInside(m)
    BY DEF SignalMonitor, OtherMonitor
<1>4. CASE mode[m] = "off"
  <2>1. Answers(l)'
      BY <1>1, <1>2, <1>3, <1>4, AnswersStay DEF engineVars, diskVars
  <2>2. Shrinks
      BY <1>3, <1>4 DEF Shrinks
  <2> QED BY <1>2, <1>3, <1>4, <2>1, <2>2, AsideOnLedger DEF Settled, diskVars
<1>5. CASE mode[m] # "off"
  <2>1. /\ mode' = [mode EXCEPT ![m] = "off"]
        /\ UNCHANGED <<plan, attempted, applied, failed, undone, stuck>>
      BY <1>3, <1>5 DEF Engine!Kill
  <2>2. root' => root
    <3>1. ~Unwritten(m)
        BY <1>3 DEF Ground, MonitorSafe, Alone
    <3>2. ASSUME NEW s, Engine!Ready(m, s), Interrupted(m, s) PROVE root' = root
      <4>1. s # "store-isolated-runtime-state"
          BY <3>1, <3>2, ReadyIsUnwritten, StartPlanMembers
      <4> QED BY <3>2, <4>1 DEF Interrupted, RootPartlyRemoved, diskVars
    <3> QED BY <1>3, <1>5, <3>2, UndoInterruptedShrinks DEF DiesInside, diskVars
  <2>3. Answers(l)'
      BY <1>1, <1>2, <1>3, <2>1, <2>2, AnswersStay DEF Engine!TypeOK
  <2> QED BY <1>2, <1>3, <1>5, <2>1, <2>3, DeathOnLedger DEF Settled
<1> QED BY <1>4, <1>5

\* What a monitor loses of the record it has truncated, or the recovery adds a
\* monitor to.
LEMMA WatchingOnLedger ==
    ASSUME Books, HostOK', NEW m \in Launchers,
           MonitorStep(m) \/ MonitorDies(m) \/ RecoveryRestartsMonitor(m)
    PROVE  Ledger'
<1> USE BooksTypes
<1>1. CASE MonitorLoads(m)
  <2>1. /\ UNCHANGED <<engineVars, handle, session, process, root, store, disclosed>>
        /\ mode[m] = "off" /\ seen' = [seen EXCEPT ![m] = store]
      BY <1>1 DEF MonitorLoads, diskVars, observationVars, Ground, MonitorTypes, WatchersAreIdle
  <2>2. /\ \A k \in Launchers : seen'[k] = seen[k] \/ (mode[k] = "off" /\ seen'[k] = store)
        /\ \A k \in Launchers : mode[k] # "off" => seen'[k] = seen[k]
      BY <2>1 DEF MemoryOK
  <2>3. \A k \in Launchers : watch[k] = "saving" => watch'[k] = "saving"
      BY <1>1 DEF MonitorLoads, MemoryOK
  <2>4. Shrinks
      BY <2>1 DEF Shrinks
  <2> QED BY <2>1, <2>2, <2>3, <2>4, AsideSettles, AsideOnLedger
<1>2. CASE MonitorTruncates(m)
  <2>1. /\ UNCHANGED <<engineVars, handle, session, process, seen>> /\ store' = Torn
        /\ watch[m] = "loaded" /\ watch'[m] = "saving"
      BY <1>2 DEF MonitorTruncates, MemoryOK
  <2>2. Settled'
      BY <2>1 DEF Settled, OnRecord, Torn
  <2>3. Shrinks
      BY <2>1 DEF Shrinks
  <2> QED BY <2>1, <2>2, <2>3, AsideOnLedger DEF Torn
<1>3. CASE MonitorWrites(m)
  <2>1. UNCHANGED <<engineVars, handle, session, process, root, seen, disclosed>> /\ watch[m] = "saving"
      BY <1>3 DEF MonitorWrites, observationVars
  <2>2. Shrinks
      BY <2>1 DEF Shrinks
  <2>3. CASE store.file = "absent"
      BY <1>3, <2>1, <2>2, <2>3, AsideSettles, AsideOnLedger DEF MonitorWrites
  <2>4. CASE store.file # "absent"
    <3>1. seen[m].file = "whole" /\ seen[m] \in StateFile
        BY <2>1 DEF Ground, MonitorTypes, SavesARecord, MemoryOK, Unread, Absent
    <3>2. store'.file = "whole" /\ store'.wstunnel = seen[m].wstunnel
        BY <1>3, <2>4, <3>1 DEF MonitorWrites, StateFile
    <3>3. Settled'
        BY <3>2 DEF Settled, OnRecord
    <3> QED BY <2>1, <2>2, <3>1, <3>2, <3>3, AsideOnLedger
  <2> QED BY <2>3, <2>4
<1>4. CASE MonitorStops(m)
  <2>1. /\ Engine!Begin(m, "disconnect", StopSteps) /\ watch[m] = "waiting"
        /\ UNCHANGED <<session, process, root, store, disclosed>>
      BY <1>4 DEF MonitorStops, diskVars, observationVars
  <2>2. /\ \A k \in Launchers : watch[k] = "saving" => watch'[k] = "saving"
        /\ seen'[m] = Unread
        /\ \A k \in Launchers \ {m} : seen'[k] = seen[k] /\ handle'[k] = handle[k]
      BY <1>4 DEF MonitorStops, MemoryOK
  <2> QED BY <2>1, <2>2, BegunOnLedger
<1>5. CASE MonitorGivesUp(m) \/ RecoveryRestartsMonitor(m)
  <2>1. UNCHANGED <<engineVars, handle, session, process, root, store, seen, disclosed>>
      BY <1>5 DEF MonitorGivesUp, RecoveryRestartsMonitor, diskVars, observationVars
  <2>2. \A k \in Launchers : watch[k] = "saving" => watch'[k] = "saving"
    <3>1. CASE MonitorGivesUp(m)
        BY <3>1 DEF MonitorGivesUp, MemoryOK
    <3>2. CASE RecoveryRestartsMonitor(m)
        BY <3>2, SpawnsIdle DEF RecoveryRestartsMonitor, Idle
    <3> QED BY <1>5, <3>1, <3>2
  <2>3. Shrinks
      BY <2>1 DEF Shrinks
  <2> QED BY <2>1, <2>2, <2>3, AsideSettles, AsideOnLedger
<1>6. CASE MonitorDies(m)
  <2>1. UNCHANGED <<engineVars, handle, session, process, root, store, seen>> /\ Settled'
      BY <1>6 DEF MonitorDies, diskVars, Settled
  <2>2. Shrinks
      BY <2>1 DEF Shrinks
  <2> QED BY <2>1, <2>2, AsideOnLedger
<1> QED BY <1>1, <1>2, <1>3, <1>4, <1>5, <1>6 DEF MonitorStep

LEMMA EnvironmentOnLedger ==
    ASSUME Books, HostOK', Environment
    PROVE  Ledger'
<1> USE BooksTypes
<1>1. UNCHANGED <<engineVars, root, store, handle, seen, watch, disclosed>> /\ Shrinks
    BY EnvironmentShrinks
    DEF Environment, AppExecs, AppForks, Exits, diskVars, memoryVars, observationVars
<1>2. session'.netns = session.netns /\ \E p \in Pids : process[p] # "free"
    BY DEF Environment, AppExecs, AppForks, Exits, HostOK, Session
<1> QED BY <1>1, <1>2, AsideSettles, AsideOnLedger

LEMMA BeginsOnLedger ==
    ASSUME Books, Undisturbed, NEW l \in Launchers,
           StartWithId(l) \/ StopIsolatedApp(l) \/ RecoveryCleans(l)
    PROVE  Ledger'
<1> USE BooksTypes
<1>1. ASSUME NEW kind, NEW steps, Begins(l, kind, steps),
             \/ kind = "connect" /\ steps = StartSteps /\ \A k \in Launchers : plan[k] = {}
             \/ kind = "disconnect"
      PROVE  Ledger'
  <2>1. /\ seen'[l] = Unread
        /\ \A k \in Launchers \ {l} : seen'[k] = seen[k] /\ handle'[k] = handle[k]
      BY <1>1 DEF Begins, MemoryOK
  <2> QED BY <1>1, <2>1, BegunOnLedger DEF Begins, diskVars, observationVars
<1> QED BY <1>1 DEF StartWithId, StartIsolatedApp, StopIsolatedApp, RecoveryCleans, CleanupIsolatedApp, Undisturbed

LEMMA LedgerStep ==
    ASSUME Books, Undisturbed, "create-veth-pair" \notin Breaks, HostOK', [MonitorNext]_vars
    PROVE  Ledger'
<1> USE BooksTypes
<1>1. ASSUME NEW l \in Launchers, NEW s \in plan[l], StepFails(l, s) PROVE Ledger'
  <2>1. mode[l] \in {"connect", "disconnect"}
      BY <1>1 DEF StepFails, Engine!ApplyFail, Engine!Ready
  <2> QED BY <1>1, <2>1, StartFailureOnLedger, StopFailureOnLedger
<1>2. ASSUME NEW l \in Launchers, Step(l) PROVE Ledger'
    BY <1>1, <1>2, StartStepOnLedger, StopStepOnLedger, CleanupStepOnLedger, UndoStepOnLedger
    DEF Step
<1>3. ASSUME NEW l \in Launchers, RunStep(l) \/ Kill(l) PROVE Ledger'
    BY <1>2, <1>3, SignalOnLedger, ReturnOnLedger, KillOnLedger DEF RunStep
<1>4. CASE UNCHANGED vars
  <2>1. UNCHANGED <<engineVars, handle, session, process, root, store, seen, watch, disclosed>>
      BY <1>4 DEF vars, diskVars, memoryVars, observationVars
  <2>2. Shrinks
      BY <2>1 DEF Shrinks
  <2> QED BY <2>1, <2>2, AsideSettles, AsideOnLedger
<1>5. Stoppers \subseteq Launchers
    BY MonitorAssumption
<1> QED BY <1>3, <1>4, <1>5, WatchingOnLedger, EnvironmentOnLedger, BeginsOnLedger DEF MonitorNext

LEMMA LedgerHolds ==
    ASSUME Undisturbed, "create-veth-pair" \notin Breaks
    PROVE  MonitorSpec => []Ledger
<1>1. Init => Ledger
    BY DEF Init, Engine!Init, Ledger, EarlyIsUnwritten, Bares, Twice, Reads, Removed, OneWSTunnel,
        Settled,
           Clear, ClearOfNames, NoWSTunnel, Starting
<1>2. EngineInv /\ MonitorTypes /\ MonitorSafe /\ Ledger /\ MonitorTypes' /\ [MonitorNext]_vars => Ledger'
    BY LedgerStep DEF Books, Ground, MonitorTypes
<1> QED BY <1>1, <1>2, MonitorEngineInv, MonitorTypesHold, MonitorSafeHolds, PTL DEF MonitorSpec

\* When no launcher and no monitor runs any more, the host is clear of the session
\* or its record is there whole, unless a run died or said FailedDirty: however
\* many monitors saved the record late, and whoever stopped the session meanwhile.
\* The one thing a failed start can leave without a record or a word is the half
\* of a veth pair (create-veth-pair has no rollback of its own failure), so that
\* step is taken to fail for no reason of its own.
THEOREM NothingForgottenHolds ==
    ASSUME Undisturbed, "create-veth-pair" \notin Breaks
    PROVE  MonitorSpec => []NothingForgotten
<1>1. Ledger => NothingForgotten
    BY DEF Ledger, Settled, OnRecord, Answers, Unwritten, Starting, Removing, NothingForgotten,
        AllOff
<1> QED BY <1>1, LedgerHolds, PTL

-------------------------------------------------------------------------------
\* What is left of a session is listed, or somebody says that a step failed

\* Nobody asks for a stop, and "ip netns delete" of a cleanup works.
Unattended == Stoppers = {} /\ "cleanup-netns" \notin Breaks

\* Who has failed, and will not forget it in a run to come.
Accuses(l) == failed[l] # {} /\ watch[l] \notin {"spawned", "loaded", "saving", "waiting"}

\* A start is by itself,
ByItself ==
    \A l \in Launchers : Starting(l) =>
        \A k \in Launchers : mode[k] # "disconnect" /\ watch[k] = "none"

\* and builds in a runtime root.
Rooted ==
    \A l \in Launchers :
        mode[l] = "connect" /\ "create-isolated-runtime-root" \in applied[l] => root

\* What a stop or a cleanup takes away before the runtime root stays away.
Gone(k) ==
    mode[k] = "disconnect" =>
        /\ ~Skipped(k) =>
              /\ "remove-namespace-dns" \in applied[k] => ~session.dns
              /\ "delete-netns" \in applied[k] => Nameless
        /\ "cleanup-namespace-dns" \in applied[k] => ~session.dns
        /\ "cleanup-netns" \in applied[k] => Nameless

Listed == session = NoSession \/ root \/ \E l \in Launchers : Accuses(l)

Listing == ByItself /\ Rooted /\ (\A k \in Launchers : Gone(k)) /\ Listed

Listings == Ground /\ Listing

LEMMA ListingsTypes ==
    Listings => /\ Ground /\ EngineInv /\ Engine!TypeOK /\ MonitorTypes /\ HostOK /\ DiskOK /\ MemoryOK
                /\ ByItself /\ Rooted /\ Listed
BY GroundTypes DEF Listings, Listing, Ground

\* The parts by name.
LEMMA ListingParts ==
    ASSUME ByItself', Rooted', \A k \in Launchers : Gone(k)', Listed'
    PROVE  Listing'
BY DEF Listing

LEMMA NoSessionStays ==
    ASSUME HostOK', Shrinks, session = NoSession
    PROVE  session' = NoSession
<1>1. ~session'.netns /\ session'.veth = "none" /\ ~session'.dns /\ ~session'.wg /\ session'.routes = "none"
      /\ ~session'.killSwitch /\ session' \in Session
    BY DEF Shrinks, NoSession, HostOK
<1> QED BY <1>1 DEF Session, NoSession

LEMMA NamelessIsNothing ==
    ASSUME HostOK, Nameless, ~session.dns
    PROVE  session = NoSession
BY DEF Nameless, HostOK, Session, NoSession

LEMMA GoneStays ==
    ASSUME Shrinks, NEW k \in Launchers, Gone(k), mode'[k] = "disconnect" => mode[k] = "disconnect",
           applied'[k] = applied[k], Skipped(k) => Skipped(k)'
    PROVE  Gone(k)'
BY DEF Gone, Shrinks, Nameless

\* The runtime root is the last thing a stop or a cleanup removes.
LEMMA RootIsLast ==
    /\ Rank["remove-namespace-dns"] < Rank["clear-isolated-runtime-state"]
    /\ Rank["delete-netns"] < Rank["clear-isolated-runtime-state"]
    /\ Rank["cleanup-netns"] < Rank["cleanup-isolated-runtime-root"]
    /\ Rank["cleanup-namespace-dns"] < Rank["cleanup-isolated-runtime-root"]
<1>1. Place("remove-namespace-dns") = 8
    BY PlaceIs DEF StartPlan, StopPlan, CleanupPlan
<1>2. Place("delete-netns") = 9
    BY PlaceIs DEF StartPlan, StopPlan, CleanupPlan
<1>3. Place("clear-isolated-runtime-state") = 10
    BY PlaceIs DEF StartPlan, StopPlan, CleanupPlan
<1>4. Place("cleanup-netns") = 4
    BY PlaceIs DEF StartPlan, StopPlan, CleanupPlan
<1>5. Place("cleanup-namespace-dns") = 5
    BY PlaceIs DEF StartPlan, StopPlan, CleanupPlan
<1>6. Place("cleanup-isolated-runtime-root") = 6
    BY PlaceIs DEF StartPlan, StopPlan, CleanupPlan
<1>7. \A s \in Steps : Rank[s] = Place(s)
    BY DEF Rank
<1>8. {"remove-namespace-dns", "delete-netns", "clear-isolated-runtime-state", "cleanup-netns",
       "cleanup-namespace-dns", "cleanup-isolated-runtime-root"} \subseteq Steps
    BY StopPlanMembers, CleanupPlanMembers DEF Steps
<1> QED BY <1>1, <1>2, <1>3, <1>4, <1>5, <1>6, <1>7, <1>8

\* Beside a start nobody ends anything, and the other way round.
LEMMA NobodyStarts ==
    ASSUME Listings, NEW k \in Launchers, mode[k] = "disconnect" \/ watch[k] # "none"
    PROVE  \A l \in Launchers : ~Starting(l)
BY ListingsTypes DEF ByItself

\* A start that comes to anything to make has its runtime root.
LEMMA StartHasRoot ==
    ASSUME Listings, NEW l \in Launchers,
           NEW s \in StartSteps \ {"validate-linux-prerequisites", "create-isolated-runtime-root"},
           Engine!Ready(l, s)
    PROVE  root
<1>1. mode[l] = "connect" /\ plan[l] = StartSteps
    BY ListingsTypes, ReadyIsUnwritten
<1>2. "create-isolated-runtime-root" \in applied[l]
    BY <1>1, ListingsTypes, RecordRanks, StartPlanMembers, EarlierAttempted, AttemptedIsApplied
<1> QED BY <1>1, <1>2, ListingsTypes DEF Rooted

\* Who runs a plan and has failed accuses.
LEMMA FailedAccuses ==
    ASSUME MonitorTypes, NEW l \in Launchers, mode[l] # "off", failed[l] # {}
    PROVE  Accuses(l)
BY DEF Accuses, MonitorTypes, WatchersAreIdle

\* An apply of a start that succeeded.
LEMMA StartAppliedListed ==
    ASSUME Listings, NEW l \in Launchers, NEW s \in StartSteps, Engine!ApplyOk(l, s),
           root => root', s = "create-isolated-runtime-root" => root',
           s = "validate-linux-prerequisites" => session' = session, watch' = watch
    PROVE  Listing'
<1> USE ListingsTypes
<1>1. mode[l] = "connect" /\ plan[l] = StartSteps /\ Starting(l)
    BY ReadyIsUnwritten DEF Engine!ApplyOk, Starting
<1>2. /\ mode' = mode /\ failed' = failed
      /\ applied'[l] = applied[l] \cup {s}
      /\ \A k \in Launchers \ {l} : applied'[k] = applied[k]
    BY DEF Engine!ApplyOk, Engine!TypeOK
<1>3. ByItself'
    BY <1>2 DEF ByItself, Starting
<1>4. \A k \in Launchers : Starting(k) => k = l
    BY <1>1, OnlyStart
<1>5. Rooted'
    BY <1>2, <1>4 DEF Rooted, Starting
<1>6. \A k \in Launchers : Gone(k)'
    BY <1>1, <1>2 DEF ByItself, Gone
<1>7. Listed'
  <2>1. s # "validate-linux-prerequisites" => root'
      BY StartHasRoot DEF Engine!ApplyOk
  <2> QED BY <1>2, <2>1 DEF Listed, Accuses
<1> QED BY <1>3, <1>5, <1>6, <1>7, ListingParts
\* An apply of a stop or a cleanup that succeeded.
LEMMA StopAppliedListed ==
    ASSUME Listings, HostOK', NEW l \in Launchers, NEW s \in StopSteps \cup CleanupSteps,
           Engine!ApplyOk(l, s), Shrinks, watch' = watch,
           \/ root => root'
           \/ /\ s = "cleanup-isolated-runtime-root" \/ (s = "clear-isolated-runtime-state" /\ ~Skipped(l))
              /\ session' = session,
           s = "remove-namespace-dns" => ~session'.dns \/ Skipped(l),
           s = "delete-netns" => Nameless' \/ Skipped(l),
           s = "cleanup-namespace-dns" => ~session'.dns,
           s = "cleanup-netns" => Nameless',
           \A k \in Launchers \ {l} : seen'[k] = seen[k],
           s # "read-isolated-runtime-state" => (Skipped(l) => Skipped(l)')
    PROVE  Listing'
<1> USE ListingsTypes
<1>1. Engine!Ready(l, s)
    BY DEF Engine!ApplyOk
<1>2. /\ mode[l] = "disconnect"
      /\ (plan[l] = StopSteps /\ s \in StopSteps) \/ (plan[l] = CleanupSteps /\ s \in CleanupSteps)
    BY <1>1, PlanOfStepBesides
<1>3. /\ mode' = mode /\ failed' = failed
      /\ applied'[l] = applied[l] \cup {s}
      /\ \A k \in Launchers \ {l} : applied'[k] = applied[k]
    BY DEF Engine!ApplyOk, Engine!TypeOK
<1>4. ByItself'
    BY <1>3 DEF ByItself, Starting
<1>5. Rooted'
    BY <1>2, <1>3, NobodyStarts DEF Rooted, Starting
<1>6. \A k \in Launchers \ {l} : Gone(k)'
    BY <1>3, GoneStays DEF Listings, Listing, Skipped
<1>7. Gone(l)'
  <2>1. CASE s = "read-isolated-runtime-state"
    <3>1. plan[l] = StopSteps /\ s \notin attempted[l]
        BY <1>1, <1>2, <2>1, StopPlanMembers, CleanupPlanMembers DEF Engine!Ready
    <3>2. attempted[l] \subseteq StopSteps /\ applied[l] \subseteq attempted[l]
        BY <3>1 DEF EngineInv, Engine!Bookkeeping
    <3>3. ASSUME NEW t \in attempted[l] PROVE FALSE
        BY <2>1, <3>1, <3>2, <3>3, RecordRanks, StopPlanMembers DEF EngineInv, Engine!InPlanOrder
    <3> QED BY <1>3, <2>1, <3>2, <3>3 DEF Gone
  <2>2. CASE s # "read-isolated-runtime-state"
    <3>1. (~session.dns => ~session'.dns) /\ (Nameless => Nameless')
        BY DEF Shrinks, Nameless
    <3>2. Gone(l)
        BY DEF Listings, Listing
    <3> QED BY <1>2, <1>3, <2>2, <3>1, <3>2 DEF Gone
  <2> QED BY <2>1, <2>2
<1>8. \A k \in Launchers : Accuses(k) => Accuses(k)'
    BY <1>3 DEF Accuses
<1>9. ASSUME root => root' PROVE Listed'
    BY <1>8, <1>9, NoSessionStays DEF Listed
<1>10. ASSUME failed[l] # {} PROVE Listed'
  <2>1. Accuses(l)
      BY <1>2, <1>10, FailedAccuses
  <2> QED BY <1>8, <2>1 DEF Listed
<1>11. ASSUME failed[l] = {}, s \in {"clear-isolated-runtime-state", "cleanup-isolated-runtime-root"},
              s = "clear-isolated-runtime-state" => ~Skipped(l), session' = session
       PROVE  Listed'
  <2>1. attempted[l] \subseteq applied[l]
      BY <1>11 DEF EngineInv, Engine!Bookkeeping
  <2>2. Gone(l)
      BY DEF Listings, Listing
  <2>3. CASE s = "clear-isolated-runtime-state"
    <3>1. {"remove-namespace-dns", "delete-netns"} \subseteq applied[l]
        BY <1>1, <1>2, <2>1, <2>3, RootIsLast, EarlierAttempted, StopPlanMembers, CleanupPlanMembers
    <3>2. session = NoSession
        BY <1>2, <1>11, <2>2, <2>3, <3>1, NamelessIsNothing DEF Gone
    <3> QED BY <1>11, <3>2 DEF Listed
  <2>4. CASE s = "cleanup-isolated-runtime-root"
    <3>1. {"cleanup-netns", "cleanup-namespace-dns"} \subseteq applied[l]
        BY <1>1, <1>2, <2>1, <2>4, RootIsLast, EarlierAttempted, StopPlanMembers, CleanupPlanMembers
    <3>2. session = NoSession
        BY <1>2, <2>2, <3>1, NamelessIsNothing DEF Gone
    <3> QED BY <1>11, <3>2 DEF Listed
  <2> QED BY <1>11, <2>3, <2>4
<1>12. Listed'
    BY <1>9, <1>11, <1>10
<1> QED BY <1>4, <1>5, <1>6, <1>7, <1>12, ListingParts

LEMMA StartStepListed ==
    ASSUME Listings, NEW l \in Launchers, StartStep(l)
    PROVE  Listing'
<1> USE ListingsTypes, StartPlanMembers
<1>1. ASSUME NEW s \in StartSteps, NEW new, Changes(l, s, new), s # "create-isolated-runtime-root",
             s = "validate-linux-prerequisites" => new = session
      PROVE  Listing'
    BY <1>1, StartAppliedListed DEF Changes, Done, diskVars, memoryVars
<1>2. ASSUME OnlyConfigures(l) PROVE Listing'
    BY <1>1, <1>2 DEF OnlyConfigures
<1>3. ASSUME CreateRuntimeRoot(l) PROVE Listing'
    BY <1>3, StartAppliedListed DEF CreateRuntimeRoot, Done, memoryVars
<1>4. ASSUME CreateNetns(l) \/ CreateVethPair(l) \/ ConfigureNamespaceDNS(l) \/ CreateWireGuard(l)
             \/ ApplyClientRoutes(l) \/ ApplyKillSwitch(l)
      PROVE  Listing'
    BY <1>1, <1>4
    DEF CreateNetns, CreateVethPair, ConfigureNamespaceDNS, CreateWireGuard, ApplyClientRoutes,
       ApplyKillSwitch
<1>5. ASSUME NEW p \in Pids, StartWSTunnelControl(l, p) \/ LaunchApp(l, p) PROVE Listing'
    BY <1>5, StartAppliedListed DEF StartWSTunnelControl, LaunchApp, Done, diskVars
<1>6. ASSUME StoreRuntimeState(l) PROVE Listing'
    BY <1>6, StartAppliedListed DEF StoreRuntimeState, Done, memoryVars
<1> QED BY <1>2, <1>3, <1>4, <1>5, <1>6 DEF StartStep

LEMMA StopStepListed ==
    ASSUME Listings, NEW l \in Launchers, StopStep(l)
    PROVE  Listing'
<1> USE ListingsTypes, StopPlanMembers, CleanupPlanMembers
<1>1. Shrinks /\ HostOK'
    BY StopStepShrinks, StopStepKeeps DEF Kept
<1>2. ASSUME ReadRuntimeState(l) PROVE Listing'
    BY <1>1, <1>2, StopAppliedListed DEF ReadRuntimeState, Done, diskVars, MemoryOK
<1>3. ASSUME NEW s \in StopSteps, Dependent(l, s),
             s = "remove-namespace-dns" => ~session'.dns \/ Skipped(l),
             s = "delete-netns" => Nameless' \/ Skipped(l)
      PROVE  Listing'
  <2>1. (Skipped(l) => Skipped(l)') /\ \A k \in Launchers \ {l} : seen'[k] = seen[k]
      BY <1>3, RememberKeepsSkipped DEF Dependent, Remember, MemoryOK
  <2> QED BY <1>1, <1>3, <2>1, StopAppliedListed DEF Dependent, Done, diskVars
<1>4. ASSUME StopMonitor(l) \/ StopApp(l) \/ StopWSTunnelControl(l) PROVE Listing'
    BY <1>3, <1>4 DEF StopMonitor, StopApp, StopWSTunnelControl
<1>5. ASSUME RemoveKillSwitch(l) \/ RemoveClientRoutes(l) \/ RemoveWireGuard(l) PROVE Listing'
    BY <1>3, <1>5 DEF RemoveKillSwitch, RemoveClientRoutes, RemoveWireGuard, Removes
<1>6. ASSUME RemoveNamespaceDNS(l) PROVE Listing'
  <2>1. ~session'.dns \/ Skipped(l)
      BY <1>6 DEF RemoveNamespaceDNS, Removes, HostOK, Session
  <2> QED BY <1>3, <1>6, <2>1 DEF RemoveNamespaceDNS, Removes
<1>7. ASSUME DeleteNetns(l) PROVE Listing'
  <2>1. Nameless' \/ Skipped(l)
      BY <1>7 DEF DeleteNetns, NetnsDeleted, Nameless, NoSession, VethAfter
  <2> QED BY <1>3, <1>7, <2>1 DEF DeleteNetns
<1>8. ASSUME ClearRuntimeState(l) PROVE Listing'
    BY <1>1, <1>8, StopAppliedListed DEF ClearRuntimeState, Done, diskVars, memoryVars, Skipped
<1> QED BY <1>2, <1>4, <1>5, <1>6, <1>7, <1>8 DEF StopStep

\* With the name of the namespace goes all that is in it.
LEMMA DeletedIsNameless ==
    ASSUME HostOK, NetnsDeleted("none") \/ (~session.netns /\ session' = [session EXCEPT !.veth = "none"])
    PROVE  Nameless'
<1>1. CASE NetnsDeleted("none")
    BY <1>1 DEF NetnsDeleted, Nameless, NoSession, VethAfter
<1>2. CASE ~session.netns /\ session' = [session EXCEPT !.veth = "none"]
  <2>1. session \in Session /\ ~session.wg /\ ~session.killSwitch /\ session.routes = "none"
      BY <1>2 DEF HostOK, Session
  <2> QED BY <1>2, <2>1 DEF Nameless, Session
<1> QED BY <1>1, <1>2

LEMMA CleanupStepListed ==
    ASSUME Listings, Unattended, NEW l \in Launchers, CleanupStep(l)
    PROVE  Listing'
<1> USE ListingsTypes, StopPlanMembers, CleanupPlanMembers
<1>1. Shrinks /\ HostOK'
    BY CleanupStepShrinks, CleanupStepKeeps DEF Kept
<1>2. ASSUME NEW s \in CleanupSteps, Engine!ApplyOk(l, s), UNCHANGED memoryVars,
             root' = root \/ (s = "cleanup-isolated-runtime-root" /\ session' = session),
             s = "cleanup-namespace-dns" => ~session'.dns, s = "cleanup-netns" => Nameless'
      PROVE  Listing'
    BY <1>1, <1>2, StopAppliedListed DEF memoryVars, Skipped
<1>3. ASSUME NEW s \in CleanupSteps \ {"cleanup-namespace-dns"}, NEW change, IgnoredOr(l, s, change),
             s = "cleanup-netns" => Nameless'
      PROVE  Listing'
    BY <1>2, <1>3 DEF IgnoredOr, Done, diskVars
<1>4. ASSUME CleanupProcesses(l) PROVE Listing'
    BY <1>3, <1>4 DEF CleanupProcesses
<1>5. ASSUME CleanupKillSwitch(l) \/ CleanupWireGuard(l) PROVE Listing'
    BY <1>3, <1>5 DEF CleanupKillSwitch, CleanupWireGuard
<1>6. ASSUME CleanupNetns(l) PROVE Listing'
  <2>1. NetnsDeleted("none") \/ (~session.netns /\ session' = [session EXCEPT !.veth = "none"])
      BY <1>6 DEF CleanupNetns, IgnoredOr, Unattended
  <2>2. Nameless'
      BY <2>1, DeletedIsNameless
  <2> QED BY <1>3, <1>6, <2>2 DEF CleanupNetns
<1>7. ASSUME CleanupDNS(l) PROVE Listing'
  <2>1. ~session'.dns
      BY <1>7 DEF CleanupDNS, Changes, HostOK, Session
  <2> QED BY <1>2, <1>7, <2>1 DEF CleanupDNS, Changes, Done, diskVars
<1>8. ASSUME CleanupRuntimeRoot(l) PROVE Listing'
    BY <1>2, <1>8 DEF CleanupRuntimeRoot, Done
<1> QED BY <1>4, <1>5, <1>6, <1>7, <1>8 DEF CleanupStep

\* A step that fails: its launcher says so.
LEMMA FailureListed ==
    ASSUME Listings, NEW l \in Launchers, NEW s \in plan[l], StepFails(l, s)
    PROVE  Listing'
<1> USE ListingsTypes
<1>1. Engine!Ready(l, s) /\ mode[l] \in {"connect", "disconnect"} /\ Interrupted(l, s) /\ watch' = watch
    BY DEF StepFails, Engine!ApplyFail, Engine!Ready
<1>2. /\ applied' = applied /\ s \in failed'[l]
      /\ mode'[l] = IF mode[l] = "connect" THEN "rollback" ELSE mode[l]
      /\ \A k \in Launchers \ {l} : mode'[k] = mode[k]
    BY DEF StepFails, Engine!ApplyFail, Engine!ModeAfterError, Engine!TypeOK
<1>3. Listed'
  <2>1. watch[l] \notin {"spawned", "loaded", "saving", "waiting"}
      BY <1>1 DEF MonitorTypes, WatchersAreIdle
  <2> QED BY <1>1, <1>2, <2>1 DEF Listed, Accuses
<1>4. ByItself'
    BY <1>1, <1>2 DEF ByItself, Starting
<1>5. CASE mode[l] = "connect"
  <2>1. \A k \in Launchers : (Starting(k) => k = l) /\ mode[k] # "disconnect"
      BY <1>5, OnlyStart DEF ByItself, Starting
  <2>2. Rooted'
      BY <1>2, <1>5, <2>1 DEF Rooted, Starting
  <2>3. \A k \in Launchers : Gone(k)'
      BY <1>2, <1>5, <2>1 DEF Gone
  <2> QED BY <1>3, <1>4, <2>2, <2>3, ListingParts
<1>6. CASE mode[l] = "disconnect"
  <2>1. Rooted'
      BY <1>2, <1>6, NobodyStarts DEF Rooted, Starting
  <2>2. s \in StopSteps \cup CleanupSteps
      BY <1>6 DEF Ground, MonitorSafe, Stops, StopInv
  <2>3. Shrinks
      BY <1>1, <2>2, InterruptedShrinks, StopPlanMembers, CleanupPlanMembers
  <2>4. \A k \in Launchers : Skipped(k) => Skipped(k)'
      BY RememberKeepsSkipped DEF StepFails, Remember, Skipped, MemoryOK
  <2>5. \A k \in Launchers : Gone(k)'
      BY <1>2, <1>6, <2>3, <2>4, GoneStays DEF Listings, Listing
  <2> QED BY <1>3, <1>4, <2>1, <2>5, ListingParts
<1> QED BY <1>1, <1>5, <1>6

\* A rollback accuses, whatever it takes away.
LEMMA UndoStepListed ==
    ASSUME Listings, NEW l \in Launchers, UndoStep(l)
    PROVE  Listing'
<1> USE ListingsTypes
<1>1. PICK s : Engine!UndoOk(l, s) \/ Engine!UndoFail(l, s)
    BY DEF UndoStep, UndoNothing, UndoRuntimeRoot, UndoNetns, UndoVeth, UndoDNS, UndoWireGuard,
       UndoClientRoutes, UndoKillSwitch, UndoWSTunnel, UndoLaunch, Undoes, UndoProcess
<1>2. mode[l] = "rollback" /\ mode' = mode /\ applied' = applied /\ failed' = failed
    BY <1>1 DEF Engine!UndoOk, Engine!UndoFail, Engine!ReadyToUndo
<1>3. watch' = watch
    BY StepTurns DEF Step
<1>4. failed[l] # {}
    BY <1>2 DEF EngineInv, Engine!Bookkeeping
<1>5. Listed'
    BY <1>2, <1>3, <1>4, FailedAccuses DEF Listed, Accuses
<1>6. ByItself'
    BY <1>2, <1>3 DEF ByItself, Starting
<1>7. \A k \in Launchers : (Starting(k) => k = l) /\ mode[k] # "disconnect"
    BY <1>2, OnlyStart DEF ByItself, Starting
<1>8. Rooted'
    BY <1>2, <1>7 DEF Rooted, Starting
<1>9. \A k \in Launchers : Gone(k)'
    BY <1>2, <1>7 DEF Gone
<1> QED BY <1>5, <1>6, <1>8, <1>9, ListingParts

LEMMA StepListed ==
    ASSUME Listings, Unattended, NEW l \in Launchers, Step(l)
    PROVE  Listing'
BY StartStepListed, StopStepListed, CleanupStepListed, FailureListed, UndoStepListed DEF Step

\* What happens between the turns of runs: a monitor that stops waiting has not
\* accused, and what it knows is not what a stop goes by.
LEMMA AsideListed ==
    ASSUME Listings, HostOK', engineVars' = engineVars, Shrinks, root => root',
           \A k \in Launchers : /\ watch[k] = "none" => watch'[k] = "none"
                                /\ Accuses(k) => watch'[k] \in {watch[k], "none"}
                                /\ mode[k] = "disconnect" => seen'[k] = seen[k]
    PROVE  Listing'
<1> USE ListingsTypes
<1>1. mode' = mode /\ applied' = applied /\ failed' = failed
    BY DEF engineVars
<1>2. ByItself'
    BY <1>1 DEF ByItself, Starting
<1>3. Rooted'
    BY <1>1 DEF Rooted
<1>4. \A k \in Launchers : Gone(k)'
  <2> SUFFICES ASSUME NEW k \in Launchers, mode[k] = "disconnect" PROVE Gone(k)'
      BY <1>1 DEF Gone
  <2>1. Gone(k) /\ (Skipped(k) => Skipped(k)')
      BY DEF Listings, Listing, Skipped
  <2> QED BY <1>1, <2>1, GoneStays
<1>5. Listed'
  <2>1. \A k \in Launchers : Accuses(k) => Accuses(k)'
      BY <1>1 DEF Accuses
  <2> QED BY <2>1, NoSessionStays DEF Listed
<1> QED BY <1>2, <1>3, <1>4, <1>5, ListingParts

\* The recovery is no start, and finds none beside it.
LEMMA RecoveryIsAlone ==
    ASSUME Ground, Undisturbed, NEW l \in Recoverers, mode[l] = "off"
    PROVE  \A k \in Launchers : ~Starting(k)
BY DEF Ground, MonitorSafe, OneStart, Undisturbed, Starting

LEMMA WatchingListed ==
    ASSUME Listings, HostOK', Undisturbed, NEW m \in Launchers,
           MonitorStep(m) \/ MonitorDies(m) \/ RecoveryRestartsMonitor(m)
    PROVE  Listing'
<1> USE ListingsTypes
<1>1. CASE MonitorLoads(m) \/ MonitorTruncates(m) \/ MonitorWrites(m) \/ MonitorGivesUp(m) \/ MonitorDies(m)
  <2>1. /\ engineVars' = engineVars /\ UNCHANGED <<session, process>> /\ (root => root')
        /\ watch[m] # "none"
      BY <1>1
      DEF MonitorLoads, MonitorTruncates, MonitorWrites, MonitorGivesUp, MonitorDies, diskVars
  <2>2. /\ watch[m] \in {"spawned", "loaded", "saving", "waiting"} \/ watch'[m] = "none"
        /\ \A k \in Launchers \ {m} : watch'[k] = watch[k]
      BY <1>1
      DEF MonitorLoads, MonitorTruncates, MonitorWrites, MonitorGivesUp, MonitorDies, MemoryOK
  <2>3. mode[m] = "off" /\ \A k \in Launchers \ {m} : seen'[k] = seen[k]
      BY <1>1
      DEF MonitorLoads, MonitorTruncates, MonitorWrites, MonitorGivesUp, MonitorDies, MemoryOK,
          MonitorTypes, WatchersAreIdle
  <2>4. Shrinks
      BY <2>1 DEF Shrinks
  <2>5. \A k \in Launchers : /\ watch[k] = "none" => watch'[k] = "none"
                             /\ Accuses(k) => watch'[k] \in {watch[k], "none"}
                             /\ mode[k] = "disconnect" => seen'[k] = seen[k]
      BY <2>1, <2>2, <2>3 DEF Accuses
  <2> QED BY <2>1, <2>4, <2>5, AsideListed
<1>2. CASE MonitorStops(m)
  <2>1. /\ watch[m] = "waiting" /\ mode'[m] = "disconnect" /\ applied'[m] = {}
        /\ \A k \in Launchers \ {m} :
              /\ mode'[k] = mode[k] /\ applied'[k] = applied[k] /\ failed'[k] = failed[k]
              /\ watch'[k] = watch[k] /\ seen'[k] = seen[k]
      BY <1>2 DEF MonitorStops, Engine!Begin, Engine!TypeOK, MemoryOK
  <2>2. UNCHANGED <<session, process, root>>
      BY <1>2 DEF MonitorStops, diskVars
  <2>3. ByItself' /\ Rooted'
      BY <2>1, NobodyStarts DEF ByItself, Rooted, Starting
  <2>4. \A k \in Launchers : Gone(k)'
    <3>1. Shrinks
        BY <2>2 DEF Shrinks
    <3>2. ASSUME NEW k \in Launchers \ {m} PROVE Gone(k)'
        BY <2>1, <3>1, GoneStays DEF Listings, Listing, Skipped
    <3> QED BY <2>1, <3>2 DEF Gone
  <2>5. Listed'
      BY <2>1, <2>2 DEF Listed, Accuses
  <2> QED BY <2>3, <2>4, <2>5, ListingParts
<1>3. CASE RecoveryRestartsMonitor(m)
  <2>1. UNCHANGED <<mode, applied, session, root, seen>>
      BY <1>3 DEF RecoveryRestartsMonitor, engineVars, diskVars
  <2>2. root
      BY <1>3 DEF RecoveryRestartsMonitor, NeedsMonitor, DiskOK
  <2>3. \A k \in Launchers : ~Starting(k)
      BY <1>3, RecoveryIsAlone DEF RecoveryRestartsMonitor, Idle
  <2>4. ByItself' /\ Rooted'
      BY <2>1, <2>3 DEF ByItself, Rooted, Starting
  <2>5. \A k \in Launchers : Gone(k)'
      BY <2>1 DEF Listings, Listing, Gone, Skipped, Nameless
  <2> QED BY <2>1, <2>2, <2>4, <2>5, ListingParts DEF Listed
<1> QED BY <1>1, <1>2, <1>3 DEF MonitorStep

LEMMA EnvironmentListed ==
    ASSUME Listings, HostOK', Environment
    PROVE  Listing'
<1> USE ListingsTypes
<1>1. /\ engineVars' = engineVars /\ root' = root
      /\ \A k \in Launchers : watch'[k] = watch[k] /\ seen'[k] = seen[k]
    BY DEF Environment, AppExecs, AppForks, Exits, diskVars, memoryVars
<1> QED BY <1>1, EnvironmentShrinks, AsideListed

\* A start that returns has its root, and so has the session of the monitor it
\* spawns.
LEMMA ReturnListed ==
    ASSUME Listings, NEW l \in Launchers, ReturnAndWatch(l)
    PROVE  Listing'
<1> USE ListingsTypes
<1>1. /\ Engine!Exhausted(l) /\ mode'[l] = "off" /\ applied' = applied /\ failed' = failed
      /\ \A k \in Launchers \ {l} : mode'[k] = mode[k]
    BY DEF ReturnAndWatch, Finishes, Engine!Return, Engine!TypeOK
<1>2. UNCHANGED <<session, process, root, seen>>
    BY DEF ReturnAndWatch, Finishes, diskVars
<1>3. \A k \in Launchers : Starting(k)' => Starting(k) /\ k # l
    BY <1>1 DEF Starting
<1>4. Rooted'
    BY <1>1, <1>2 DEF Rooted
<1>5. \A k \in Launchers : Gone(k)'
    BY <1>1, <1>2 DEF Listings, Listing, Gone, Skipped, Nameless
<1>6. CASE watch' = [watch EXCEPT ![l] = "none"]
  <2>1. watch'[l] = "none" /\ \A k \in Launchers \ {l} : watch'[k] = watch[k]
      BY <1>6 DEF MemoryOK
  <2>2. ByItself'
      BY <1>1, <1>3, <2>1 DEF ByItself
  <2>3. \A k \in Launchers : Accuses(k) => Accuses(k)'
      BY <1>1, <2>1 DEF Accuses
  <2>4. Listed'
      BY <1>2, <2>3 DEF Listed
  <2> QED BY <1>4, <1>5, <2>2, <2>4, ListingParts
<1>7. CASE Spawns /\ Engine!Verdict(l) = "Connected"
  <2>1. mode[l] = "connect"
      BY <1>1, <1>7 DEF Engine!Verdict, Engine!Exhausted
  <2>2. plan[l] = StartSteps /\ \A k \in Launchers : Starting(k) => k = l
      BY <2>1, OnlyStart DEF Ground, MonitorSafe, OneStart, Starting
  <2>3. "create-isolated-runtime-root" \in applied[l]
      BY <1>1, <2>1, <2>2, AttemptedIsApplied, StartPlanMembers DEF Engine!Exhausted
  <2>4. ByItself'
      BY <1>3, <2>2 DEF ByItself
  <2>5. Listed'
      BY <1>2, <2>1, <2>3 DEF Listed, Rooted
  <2> QED BY <1>4, <1>5, <2>4, <2>5, ListingParts
<1> QED BY <1>6, <1>7 DEF ReturnAndWatch

\* Half of a step removes no runtime root.
LEMMA InterruptedRoot ==
    ASSUME NEW l \in Launchers, NEW s, Interrupted(l, s), root
    PROVE  root'
BY DEF Interrupted, RootPartlyRemoved, diskVars

\* A process that dies, wherever it is, goes on accusing, if it did.
LEMMA DeathListed ==
    ASSUME Listings, NEW l \in Launchers, DiesInside(l), mode'[l] = "off",
           UNCHANGED <<applied, failed>>, watch'[l] = "none",
           \A k \in Launchers \ {l} :
               mode'[k] = mode[k] /\ watch'[k] = watch[k] /\ seen'[k] = seen[k]
    PROVE  Listing'
<1> USE ListingsTypes
<1>1. root => root'
    BY InterruptedRoot, UndoInterruptedShrinks DEF DiesInside, diskVars
<1>2. ByItself'
    BY DEF ByItself, Starting
<1>3. Rooted'
    BY <1>1 DEF Rooted
<1>4. \A k \in Launchers : Accuses(k) => Accuses(k)'
    BY DEF Accuses
<1>5. ASSUME Shrinks PROVE Listing'
  <2>1. HostOK'
      BY DeathKeeps
  <2>2. Listed'
      BY <1>1, <1>4, <1>5, <2>1, NoSessionStays DEF Listed
  <2>3. ASSUME NEW k \in Launchers \ {l} PROVE Gone(k)'
      BY <1>5, GoneStays DEF Listings, Listing, Skipped
  <2>4. Gone(l)'
      BY DEF Gone
  <2> QED BY <1>2, <1>3, <2>2, <2>3, <2>4, ListingParts
<1>6. CASE UNCHANGED <<session, process>>
    BY <1>5, <1>6 DEF Shrinks
<1>7. ASSUME NEW s \in plan[l], Engine!Ready(l, s), Interrupted(l, s),
             s \notin {"create-veth-pair", "configure-namespace-dns", "apply-namespace-client-routes"}
      PROVE  Listing'
    BY <1>5, <1>7, InterruptedShrinks
<1>8. ASSUME NEW s \in {"create-veth-pair", "configure-namespace-dns", "apply-namespace-client-routes"},
             Engine!Ready(l, s)
      PROVE  Listing'
  <2>1. mode[l] = "connect"
      BY <1>8, ReadyIsUnwritten, StartPlanMembers
  <2>2. root
      BY <1>8, StartHasRoot, StartPlanMembers
  <2>3. \A k \in Launchers : Gone(k)'
      BY <2>1 DEF Gone, ByItself, Starting
  <2> QED BY <1>1, <1>2, <1>3, <2>2, <2>3, ListingParts DEF Listed
<1>9. CASE UndoInterrupted(l)
    BY <1>5, <1>9, UndoInterruptedShrinks
<1> QED BY <1>6, <1>7, <1>8, <1>9 DEF DiesInside

LEMMA SignalListed ==
    ASSUME Listings, NEW l \in Launchers, SignalMonitor(l)
    PROVE  Listing'
<1> USE ListingsTypes
<1>1. PICK m \in Launchers \ {l} :
          /\ watch' = [watch EXCEPT ![m] = "none"]
          /\ IF mode[m] = "off"
             THEN UNCHANGED <<engineVars, session, process, diskVars>>
             ELSE Engine!Kill(m) /\ DiesInside(m)
    BY DEF SignalMonitor, OtherMonitor
<1>2. seen' = seen
    BY DEF SignalMonitor
<1>3. watch'[m] = "none" /\ \A k \in Launchers \ {m} : watch'[k] = watch[k]
    BY <1>1 DEF MemoryOK
<1>4. CASE mode[m] = "off"
  <2>1. UNCHANGED <<mode, applied, failed, session, process, root>>
      BY <1>1, <1>4 DEF engineVars, diskVars
  <2>2. ByItself'
      BY <1>3, <2>1 DEF ByItself, Starting
  <2>3. Rooted' /\ \A k \in Launchers : Gone(k)'
      BY <1>2, <2>1 DEF Listings, Listing, Rooted, Gone, Skipped, Nameless
  <2>4. Listed'
      BY <1>3, <2>1 DEF Listed, Accuses
  <2> QED BY <2>2, <2>3, <2>4, ListingParts
<1>5. CASE mode[m] # "off"
  <2>1. /\ mode'[m] = "off" /\ UNCHANGED <<applied, failed>>
        /\ \A k \in Launchers \ {m} : mode'[k] = mode[k]
      BY <1>1, <1>5 DEF Engine!Kill, Engine!TypeOK
  <2> QED BY <1>1, <1>2, <1>3, <1>5, <2>1, DeathListed
<1> QED BY <1>4, <1>5

LEMMA KillListed ==
    ASSUME Listings, NEW l \in Launchers, Kill(l)
    PROVE  Listing'
<1> USE ListingsTypes
<1>1. /\ mode'[l] = "off" /\ UNCHANGED <<applied, failed>>
      /\ \A k \in Launchers \ {l} : mode'[k] = mode[k]
    BY DEF Kill, Engine!Kill, Engine!TypeOK
<1>2. watch'[l] = "none" /\ \A k \in Launchers \ {l} : watch'[k] = watch[k] /\ seen'[k] = seen[k]
    BY DEF Kill, MemoryOK
<1> QED BY <1>1, <1>2, DeathListed DEF Kill

\* The one start finds nothing, and the recovery a runtime root.
LEMMA BeginsListed ==
    ASSUME Listings, Undisturbed, NEW l \in Launchers, StartWithId(l) \/ RecoveryCleans(l)
    PROVE  Listing'
<1> USE ListingsTypes
<1>1. PICK kind, steps : Begins(l, kind, steps)
    BY DEF StartWithId, StartIsolatedApp, RecoveryCleans, CleanupIsolatedApp
<1>2. /\ mode[l] = "off" /\ applied'[l] = {} /\ UNCHANGED <<session, process, root, watch>>
      /\ \A k \in Launchers \ {l} :
            mode'[k] = mode[k] /\ applied'[k] = applied[k] /\ seen'[k] = seen[k]
    BY <1>1 DEF Begins, Engine!Begin, Engine!TypeOK, MemoryOK, diskVars
<1>3. CASE StartWithId(l)
  <2>1. \A k \in Launchers : plan[k] = {}
      BY <1>3 DEF StartWithId, Undisturbed
  <2>2. session = NoSession /\ \A k \in Launchers : mode[k] = "off" /\ watch[k] = "none"
      BY <2>1 DEF Ground, MonitorSafe, NothingYet, Clear, ClearOfNames
  <2>3. mode'[l] = "connect"
      BY <1>3 DEF StartWithId, StartIsolatedApp, Begins, Engine!Begin, Engine!TypeOK
  <2>4. ByItself' /\ Rooted' /\ \A k \in Launchers : Gone(k)'
      BY <1>2, <2>2, <2>3 DEF ByItself, Rooted, Gone
  <2> QED BY <1>2, <2>2, <2>4, ListingParts DEF Listed
<1>4. CASE RecoveryCleans(l)
  <2>1. root
      BY <1>4 DEF RecoveryCleans, Dirty
  <2>2. mode'[l] = "disconnect"
      BY <1>4 DEF RecoveryCleans, CleanupIsolatedApp, Begins, Engine!Begin, Engine!TypeOK
  <2>3. \A k \in Launchers : ~Starting(k) /\ ~Starting(k)'
      BY <1>2, <1>4, <2>2, RecoveryIsAlone DEF RecoveryCleans, Starting
  <2>4. ByItself' /\ Rooted'
      BY <2>3 DEF ByItself, Rooted, Starting
  <2>5. ASSUME NEW k \in Launchers \ {l} PROVE Gone(k)'
    <3>1. Shrinks
        BY <1>2 DEF Shrinks
    <3> QED BY <1>2, <3>1, GoneStays DEF Listings, Listing, Skipped
  <2>6. Gone(l)'
      BY <1>2 DEF Gone
  <2> QED BY <1>2, <2>1, <2>4, <2>5, <2>6, ListingParts DEF Listed
<1> QED BY <1>3, <1>4

LEMMA ListingStep ==
    ASSUME Listings, Undisturbed, Unattended, HostOK', [MonitorNext]_vars
    PROVE  Listing'
<1> USE ListingsTypes
<1>1. CASE UNCHANGED vars
  <2>1. engineVars' = engineVars /\ UNCHANGED <<session, process, root, seen, watch>>
      BY <1>1 DEF vars, diskVars, memoryVars
  <2>2. Shrinks
      BY <2>1 DEF Shrinks
  <2> QED BY <2>1, <2>2, AsideListed
<1>2. ASSUME NEW l \in Launchers, RunStep(l) \/ Kill(l) PROVE Listing'
    BY <1>2, StepListed, SignalListed, ReturnListed, KillListed DEF RunStep
<1>3. Stoppers = {}
    BY DEF Unattended
<1> QED BY <1>1, <1>2, <1>3, WatchingListed, EnvironmentListed, BeginsListed DEF MonitorNext

LEMMA ListingHolds ==
    ASSUME Undisturbed, Unattended
    PROVE  MonitorSpec => []Listing
<1>1. Init => Listing
    BY DEF Init, Engine!Init, Listing, ByItself, Rooted, Gone, Listed, Starting
<1>2. EngineInv /\ MonitorTypes /\ MonitorSafe /\ Listing /\ MonitorTypes' /\ [MonitorNext]_vars => Listing'
    BY ListingStep DEF Listings, Ground, MonitorTypes
<1> QED BY <1>1, <1>2, MonitorEngineInv, MonitorTypesHold, MonitorSafeHolds, PTL DEF MonitorSpec

\* What is left of a session when nothing runs any more has its runtime directory,
\* so that isolated-sessions lists it and a recovery finds it, or a step of the
\* last run of some process had failed: wherever the start, its monitor or a
\* recovery was killed, and whichever of their commands failed, but for the
\* errors of "ip link delete" and "ip netns delete" that a cleanup ignores.
\* Nobody stops the session by hand: the next stop by the same process would find
\* no record and forget that the one before had failed.
THEOREM LeftoversAreListedHolds ==
    ASSUME Undisturbed, Unattended
    PROVE  MonitorSpec => []LeftoversAreListed
<1>1. Listing => LeftoversAreListed
    BY DEF Listing, Listed, Accuses, LeftoversAreListed
<1> QED BY <1>1, ListingHolds, PTL

===============================================================================
