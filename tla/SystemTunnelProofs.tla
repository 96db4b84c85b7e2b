-------------------------- MODULE SystemTunnelProofs --------------------------
(***************************************************************************)
(* What holds of the system tunnel for every number of launchers,          *)
(* endpoints, client routes and PIDs.  Every step is a step of the plan    *)
(* engine, so that what StepEngineProofs proves of any plan holds of the   *)
(* two plans of the tunnel; the order of their steps then carries the      *)
(* proofs about the host.  With launchers one at a time: the route loop    *)
(* never happens (LoopInv), and what a run says when it returns, and what  *)
(* status says between runs, is true (Accounted says at every moment what  *)
(* accounts for what is on the host).                                      *)
(***************************************************************************)
EXTENDS SystemTunnel, TLAPS

EngineProofs == INSTANCE StepEngineProofs WITH Deferred <- {}

-------------------------------------------------------------------------------
\* The tunnel runs the engine

LEMMA EngineAssumed == Engine!EngineAssumption
BY DEF Engine!EngineAssumption, Rank, Steps, Undoable, ConnectSteps, DisconnectSteps

\* Every action of the tunnel is the engine's action of one step, with an effect.
LEMMA StepOfEngine ==
    ASSUME Engine!TypeOK, [Next]_vars
    PROVE  [Engine!Next]_engineVars
<1>1. ASSUME NEW l \in Launchers, NEW ips \in SUBSET Endpoints, NEW withDNS \in BOOLEAN, StartConnect(l, ips, withDNS)
       PROVE  [Engine!Next]_engineVars
    BY <1>1 DEF StartConnect, Engine!Next, Steps, ConnectSteps, DisconnectSteps
<1>2. ASSUME NEW l \in Launchers, StartDisconnect(l)
       PROVE  [Engine!Next]_engineVars
    BY <1>2 DEF StartDisconnect, Engine!Next, Steps, ConnectSteps, DisconnectSteps
<1>3. ASSUME NEW l \in Launchers, ValidatePrerequisites(l)
       PROVE  [Engine!Next]_engineVars
    BY <1>3 DEF ValidatePrerequisites, Engine!Next, Steps, ConnectSteps, DisconnectSteps
<1>4. ASSUME NEW l \in Launchers, NEW e \in Endpoints, AddRouteExclusion(l, e)
       PROVE  [Engine!Next]_engineVars
    BY <1>4 DEF AddRouteExclusion, Engine!Next, Steps, ConnectSteps, DisconnectSteps
<1>5. ASSUME NEW l \in Launchers, NEW p \in Pids, StartWSTunnel(l, p)
       PROVE  [Engine!Next]_engineVars
    BY <1>5 DEF StartWSTunnel, Engine!Next, Steps, ConnectSteps, DisconnectSteps
<1>6. ASSUME NEW l \in Launchers, CreateInterface(l)
       PROVE  [Engine!Next]_engineVars
    BY <1>6 DEF CreateInterface, Engine!Next, Steps, ConnectSteps, DisconnectSteps
<1>7. ASSUME NEW l \in Launchers, ConfigureInterface(l)
       PROVE  [Engine!Next]_engineVars
    BY <1>7 DEF ConfigureInterface, Engine!Next, Steps, ConnectSteps, DisconnectSteps
<1>8. ASSUME NEW l \in Launchers, ApplyClientRoutes(l)
       PROVE  [Engine!Next]_engineVars
    BY <1>8 DEF ApplyClientRoutes, Engine!Next, Steps, ConnectSteps, DisconnectSteps
<1>9. ASSUME NEW l \in Launchers, ApplyDNS(l)
       PROVE  [Engine!Next]_engineVars
    BY <1>9 DEF ApplyDNS, Engine!Next, Steps, ConnectSteps, DisconnectSteps
<1>10. ASSUME NEW l \in Launchers, StoreRuntimeState(l)
       PROVE  [Engine!Next]_engineVars
    BY <1>10 DEF StoreRuntimeState, Engine!Next, Steps, ConnectSteps, DisconnectSteps
<1>11. ASSUME NEW l \in Launchers, ReadRuntimeState(l)
       PROVE  [Engine!Next]_engineVars
    BY <1>11 DEF ReadRuntimeState, Engine!Next, Steps, ConnectSteps, DisconnectSteps
<1>12. ASSUME NEW l \in Launchers, RestoreDNS(l)
       PROVE  [Engine!Next]_engineVars
    BY <1>12 DEF RestoreDNS, Dependent, Engine!Next, Steps, DisconnectSteps
<1>13. ASSUME NEW l \in Launchers, RemoveClientRoutes(l)
       PROVE  [Engine!Next]_engineVars
    BY <1>13 DEF RemoveClientRoutes, Dependent, Engine!Next, Steps, DisconnectSteps
<1>14. ASSUME NEW l \in Launchers, RemoveInterface(l)
       PROVE  [Engine!Next]_engineVars
    BY <1>14 DEF RemoveInterface, Dependent, Engine!Next, Steps, DisconnectSteps
<1>15. ASSUME NEW l \in Launchers, StopWSTunnel(l)
       PROVE  [Engine!Next]_engineVars
    BY <1>15 DEF StopWSTunnel, Dependent, Engine!Next, Steps, DisconnectSteps
<1>16. ASSUME NEW l \in Launchers, RemoveRouteExclusions(l)
       PROVE  [Engine!Next]_engineVars
    BY <1>16 DEF RemoveRouteExclusions, Dependent, Engine!Next, Steps, DisconnectSteps
<1>17. ASSUME NEW l \in Launchers, ClearRuntimeState(l)
       PROVE  [Engine!Next]_engineVars
    BY <1>17 DEF ClearRuntimeState, Engine!Next, Steps, ConnectSteps, DisconnectSteps
<1>18. ASSUME NEW l \in Launchers, NEW s \in plan[l], StepFails(l, s)
       PROVE  [Engine!Next]_engineVars
    BY <1>18 DEF StepFails, Engine!TypeOK, Engine!Next
<1>19. ASSUME NEW l \in Launchers, NEW e \in Endpoints, UndoRouteExclusion(l, e)
       PROVE  [Engine!Next]_engineVars
    BY <1>19 DEF UndoRouteExclusion, Engine!Next, Steps, ConnectSteps, DisconnectSteps
<1>20. ASSUME NEW l \in Launchers, UndoWSTunnel(l)
       PROVE  [Engine!Next]_engineVars
    BY <1>20 DEF UndoWSTunnel, Engine!Next, Steps, ConnectSteps, DisconnectSteps
<1>21. ASSUME NEW l \in Launchers, NEW s \in applied[l], UndoInterface(l, s)
       PROVE  [Engine!Next]_engineVars
    BY <1>21 DEF UndoInterface, Engine!Next, Steps, ConnectSteps, DisconnectSteps
<1>22. ASSUME NEW l \in Launchers, UndoClientRoutes(l)
       PROVE  [Engine!Next]_engineVars
    BY <1>22 DEF UndoClientRoutes, Engine!Next, Steps, ConnectSteps, DisconnectSteps
<1>23. ASSUME NEW l \in Launchers, UndoDNS(l)
       PROVE  [Engine!Next]_engineVars
    BY <1>23 DEF UndoDNS, Engine!Next, Steps, ConnectSteps, DisconnectSteps
<1>24. ASSUME NEW l \in Launchers, Return(l)
       PROVE  [Engine!Next]_engineVars
    BY <1>24 DEF Return, Engine!Next, Steps, ConnectSteps, DisconnectSteps
<1>25. ASSUME NEW l \in Launchers, Kill(l)
       PROVE  [Engine!Next]_engineVars
    BY <1>25 DEF Kill, Engine!Next, Steps, ConnectSteps, DisconnectSteps
<1>26. ASSUME NEW p \in Pids, ProcessChanges(p)
       PROVE  [Engine!Next]_engineVars
    BY <1>26 DEF ProcessChanges
<1>27. CASE UNCHANGED vars
    BY <1>27 DEF vars
<1> QED
    BY <1>1, <1>2, <1>3, <1>4, <1>5, <1>6, <1>7, <1>8, <1>9, <1>10, <1>11, <1>12, <1>13,
       <1>14, <1>15, <1>16, <1>17, <1>18, <1>19, <1>20, <1>21, <1>22, <1>23, <1>24, <1>25, <1>26, <1>27
       DEF Next, Step

\* The instance the tunnel is written with and the one the proofs come from are
\* the same definitions.
LEMMA SameEngine ==
    /\ Engine!Init => EngineProofs!Init
    /\ [Engine!Next]_engineVars => [EngineProofs!Next]_EngineProofs!engineVars
    /\ Engine!TypeOK <=> EngineProofs!TypeOK
    /\ Engine!Bookkeeping <=> EngineProofs!Bookkeeping
    /\ Engine!InPlanOrder <=> EngineProofs!InPlanOrder
    /\ Engine!NewestUndoneFirst <=> EngineProofs!NewestUndoneFirst
    /\ Engine!VerdictIsHonest <=> EngineProofs!VerdictIsHonest
<1>1. Engine!Init => EngineProofs!Init
    BY DEF Engine!Init, EngineProofs!Init
<1>2. [Engine!Next]_engineVars => [EngineProofs!Next]_EngineProofs!engineVars
    BY DEF Engine!Next, EngineProofs!Next, engineVars, EngineProofs!engineVars,
           Engine!Begin, EngineProofs!Begin, Engine!Skip, EngineProofs!Skip,
           Engine!ApplyOk, EngineProofs!ApplyOk, Engine!ApplyFail, EngineProofs!ApplyFail,
           Engine!Ready, EngineProofs!Ready,
           Engine!ModeAfterError, EngineProofs!ModeAfterError,
           Engine!UndoOk, EngineProofs!UndoOk, Engine!UndoFail, EngineProofs!UndoFail,
           Engine!ReadyToUndo, EngineProofs!ReadyToUndo, Engine!ToUndo, EngineProofs!ToUndo,
           Engine!Return, EngineProofs!Return, Engine!Exhausted, EngineProofs!Exhausted,
           Engine!Verdict, EngineProofs!Verdict, Engine!Kill, EngineProofs!Kill
<1>3. Engine!TypeOK <=> EngineProofs!TypeOK
    BY DEF Engine!TypeOK, EngineProofs!TypeOK, Engine!Modes, EngineProofs!Modes,
           Engine!Outcomes, EngineProofs!Outcomes
<1>4. Engine!Bookkeeping <=> EngineProofs!Bookkeeping
    BY DEF Engine!Bookkeeping, EngineProofs!Bookkeeping
<1>5. Engine!InPlanOrder <=> EngineProofs!InPlanOrder
    BY DEF Engine!InPlanOrder, EngineProofs!InPlanOrder
<1>6. Engine!NewestUndoneFirst <=> EngineProofs!NewestUndoneFirst
    BY DEF Engine!NewestUndoneFirst, EngineProofs!NewestUndoneFirst
<1>7. Engine!VerdictIsHonest <=> EngineProofs!VerdictIsHonest
    BY DEF Engine!VerdictIsHonest, EngineProofs!VerdictIsHonest
<1> QED BY <1>1, <1>2, <1>3, <1>4, <1>5, <1>6, <1>7

\* Whatever the launchers, the kills and the failures, a tunnel run is a run of
\* the plan engine: no executor reorders, repeats or drops a step.
THEOREM ImplementsEngine == Spec => Engine!Spec
<1>1. Init => Engine!Init
    BY DEF Init
<1>2. Engine!Init => Engine!TypeOK
    BY SameEngine, EngineProofs!TypeInit, EngineAssumed DEF Engine!EngineAssumption
<1>3. Engine!TypeOK /\ [Next]_vars => [Engine!Next]_engineVars
    BY StepOfEngine
<1>4. EngineProofs!TypeOK /\ [EngineProofs!Next]_EngineProofs!engineVars => EngineProofs!TypeOK'
    BY EngineProofs!TypeStep, EngineAssumed DEF Engine!EngineAssumption
<1> QED BY <1>1, <1>2, <1>3, <1>4, SameEngine, PTL DEF Spec, Engine!Spec, engineVars, Engine!engineVars

EngineInv ==
    /\ Engine!TypeOK
    /\ Engine!Bookkeeping
    /\ Engine!InPlanOrder
    /\ Engine!NewestUndoneFirst
    /\ Engine!VerdictIsHonest

\* What StepEngineProofs proves of any plan, for the plans of the tunnel.
LEMMA EngineInvHolds == Spec => []EngineInv
<1>1. EngineProofs!Spec => []EngineProofs!TypeOK
    BY EngineProofs!TypeCorrect, EngineAssumed DEF Engine!EngineAssumption
<1>2. EngineProofs!Spec => []EngineProofs!Bookkeeping
    BY EngineProofs!BookkeepingHolds, EngineAssumed DEF Engine!EngineAssumption
<1>3. EngineProofs!Spec => []EngineProofs!InPlanOrder
    BY EngineProofs!InPlanOrderHolds, EngineAssumed DEF Engine!EngineAssumption
<1>4. EngineProofs!Spec => []EngineProofs!NewestUndoneFirst
    BY EngineProofs!NewestUndoneFirstHolds, EngineAssumed DEF Engine!EngineAssumption
<1>5. EngineProofs!Spec => []EngineProofs!VerdictIsHonest
    BY EngineProofs!VerdictHolds, EngineAssumed DEF Engine!EngineAssumption
<1> QED
    BY <1>1, <1>2, <1>3, <1>4, <1>5, ImplementsEngine, SameEngine, PTL
       DEF EngineInv, Engine!Spec, EngineProofs!Spec, engineVars, Engine!engineVars

-------------------------------------------------------------------------------
\* Types of the host and of the launchers' memory

HostTypeOK ==
    /\ route \in [Endpoints -> Routes]
    /\ process \in [Pids -> {"free", "wstunnel", "other"}]
    /\ link \in BOOLEAN
    /\ clientRoutes \subseteq AllowedIPs
    /\ dns \in BOOLEAN
    /\ store \in StateFile
    /\ handle \in [Launchers -> Pids \cup {NoPid}]
    /\ seen \in [Launchers -> StateFile \cup {Unread}]
    /\ disclosed \in BOOLEAN
    /\ ~link => clientRoutes = {} /\ ~dns /\ \A e \in Endpoints : route[e] # "tunnel"

LEMMA TypeOKParts == TypeOK <=> Engine!TypeOK /\ HostTypeOK
BY DEF TypeOK, HostTypeOK

LEMMA AbsentIsState == Absent \in StateFile /\ Torn \in StateFile
BY DEF Absent, Torn, StateFile

LEMMA RecordIsState ==
    ASSUME HostTypeOK, NEW l \in Launchers
    PROVE  RecordOf(l) \in StateFile
BY DEF HostTypeOK, RecordOf, StateFile

LEMMA RememberKeepsType ==
    ASSUME HostTypeOK, NEW l \in Launchers, Remember(l)
    PROVE  seen' \in [Launchers -> StateFile \cup {Unread}]
BY DEF HostTypeOK, Remember, Known

\* Whatever part of a step was done, the host stays a host, and nothing of the
\* interface is left without it.
LEMMA InterruptedKeepsType ==
    ASSUME HostTypeOK, NEW l \in Launchers, NEW s, ApplyInterrupted(l, s)
    PROVE  /\ route' \in [Endpoints -> Routes]
           /\ process' = process /\ link' = link
           /\ clientRoutes' \subseteq AllowedIPs /\ dns' \in BOOLEAN /\ store' \in StateFile
           /\ ~link => clientRoutes' = {} /\ ~dns' /\ \A e \in Endpoints : route'[e] # "tunnel"
<1>1. CASE s = "store-runtime-state"
    BY <1>1, AbsentIsState, RecordIsState DEF ApplyInterrupted, HostTypeOK
<1>2. CASE s = "apply-client-routes"
    BY <1>2 DEF ApplyInterrupted, HostTypeOK
<1>3. CASE s = "apply-dns"
    BY <1>3 DEF ApplyInterrupted, HostTypeOK
<1>4. CASE s = "remove-client-routes" /\ Known(l).file = "whole"
    BY <1>4 DEF ApplyInterrupted, HostTypeOK, ClientRoutesPartlyDeleted, ClientRoutesDeleted
<1>5. CASE s = "remove-endpoint-route-exclusions" /\ Known(l).file = "whole"
    BY <1>5 DEF ApplyInterrupted, HostTypeOK, DeleteRoutes, Routes
<1>6. CASE /\ s \notin {"store-runtime-state", "apply-client-routes", "apply-dns"}
           /\ ~(s = "remove-client-routes" /\ Known(l).file = "whole")
           /\ ~(s = "remove-endpoint-route-exclusions" /\ Known(l).file = "whole")
    BY <1>6 DEF ApplyInterrupted, HostTypeOK, hostVars
<1> QED
    BY <1>1, <1>2, <1>3, <1>4, <1>5, <1>6

\* A process that dies in the middle of a run leaves such a host.
LEMMA DeathKeepsType ==
    ASSUME HostTypeOK, NEW l \in Launchers, DiesInside(l)
    PROVE  /\ route' \in [Endpoints -> Routes]
           /\ process' = process /\ link' = link
           /\ clientRoutes' \subseteq AllowedIPs /\ dns' \in BOOLEAN /\ store' \in StateFile
           /\ ~link => clientRoutes' = {} /\ ~dns' /\ \A e \in Endpoints : route'[e] # "tunnel"
<1>1. CASE UNCHANGED hostVars
    BY <1>1 DEF HostTypeOK, hostVars
<1>2. CASE \E s \in plan[l] : Engine!Ready(l, s) /\ ApplyInterrupted(l, s)
    BY <1>2, InterruptedKeepsType
<1>3. CASE ClientRoutesPartlyDeleted
    BY <1>3 DEF ClientRoutesPartlyDeleted, ClientRoutesDeleted, HostTypeOK
<1> QED BY <1>1, <1>2, <1>3 DEF DiesInside

LEMMA HostTypeStep ==
    ASSUME Engine!TypeOK, HostTypeOK, [Next]_vars
    PROVE  HostTypeOK'
<1>1. ASSUME NEW l \in Launchers, NEW ips \in SUBSET Endpoints, NEW withDNS \in BOOLEAN, StartConnect(l, ips, withDNS)
       PROVE  HostTypeOK'
    BY <1>1 DEF StartConnect, HostTypeOK, hostVars
<1>2. ASSUME NEW l \in Launchers, StartDisconnect(l)
       PROVE  HostTypeOK'
    BY <1>2 DEF StartDisconnect, HostTypeOK, hostVars
<1>3. ASSUME NEW l \in Launchers, ValidatePrerequisites(l)
       PROVE  HostTypeOK'
    BY <1>3 DEF ValidatePrerequisites, HostTypeOK, hostVars, memoryVars
<1>4. ASSUME NEW l \in Launchers, NEW e \in Endpoints, AddRouteExclusion(l, e)
       PROVE  HostTypeOK'
    BY <1>4 DEF AddRouteExclusion, Found, Routes, HostTypeOK, memoryVars
<1>5. ASSUME NEW l \in Launchers, NEW p \in Pids, StartWSTunnel(l, p)
       PROVE  HostTypeOK'
    BY <1>5 DEF StartWSTunnel, HostTypeOK
<1>6. ASSUME NEW l \in Launchers, CreateInterface(l)
       PROVE  HostTypeOK'
    BY <1>6 DEF CreateInterface, HostTypeOK, memoryVars, LinkAdded
<1>7. ASSUME NEW l \in Launchers, ConfigureInterface(l)
       PROVE  HostTypeOK'
    BY <1>7 DEF ConfigureInterface, HostTypeOK, hostVars, memoryVars, LinkConfigured
<1>8. ASSUME NEW l \in Launchers, ApplyClientRoutes(l)
       PROVE  HostTypeOK'
    BY <1>8 DEF ApplyClientRoutes, HostTypeOK, memoryVars, ClientRoutesReplaced
<1>9. ASSUME NEW l \in Launchers, ApplyDNS(l)
       PROVE  HostTypeOK'
    BY <1>9 DEF ApplyDNS, HostTypeOK, memoryVars, DNSSet
<1>10. ASSUME NEW l \in Launchers, StoreRuntimeState(l)
       PROVE  HostTypeOK'
    BY <1>10, RecordIsState DEF StoreRuntimeState, HostTypeOK, memoryVars
<1>11. ASSUME NEW l \in Launchers, ReadRuntimeState(l)
       PROVE  HostTypeOK'
    BY <1>11 DEF ReadRuntimeState, HostTypeOK, hostVars
<1>12. ASSUME NEW l \in Launchers, RestoreDNS(l)
       PROVE  HostTypeOK'
    BY <1>12, RememberKeepsType DEF RestoreDNS, Dependent, HostTypeOK, DNSReverted
<1>13. ASSUME NEW l \in Launchers, RemoveClientRoutes(l)
       PROVE  HostTypeOK'
    BY <1>13, RememberKeepsType DEF RemoveClientRoutes, Dependent, HostTypeOK, ClientRoutesDeleted
<1>14. ASSUME NEW l \in Launchers, RemoveInterface(l)
       PROVE  HostTypeOK'
    BY <1>14, RememberKeepsType DEF RemoveInterface, Dependent, HostTypeOK, LinkDeleted, Routes
<1>15. ASSUME NEW l \in Launchers, StopWSTunnel(l)
       PROVE  HostTypeOK'
    BY <1>15, RememberKeepsType DEF StopWSTunnel, Dependent, HostTypeOK, StopRecorded
<1>16. ASSUME NEW l \in Launchers, RemoveRouteExclusions(l)
       PROVE  HostTypeOK'
    BY <1>16, RememberKeepsType DEF RemoveRouteExclusions, Dependent, HostTypeOK, DeleteRoutes, Routes
<1>17. ASSUME NEW l \in Launchers, ClearRuntimeState(l)
       PROVE  HostTypeOK'
    BY <1>17, AbsentIsState DEF ClearRuntimeState, HostTypeOK, memoryVars
<1>18. ASSUME NEW l \in Launchers, NEW s \in plan[l], StepFails(l, s)
       PROVE  HostTypeOK'
  <2>1. /\ route' \in [Endpoints -> Routes]
        /\ process' = process /\ link' = link
        /\ clientRoutes' \subseteq AllowedIPs /\ dns' \in BOOLEAN /\ store' \in StateFile
        /\ ~link => clientRoutes' = {} /\ ~dns' /\ \A e \in Endpoints : route'[e] # "tunnel"
      BY <1>18, InterruptedKeepsType DEF StepFails
  <2>2. seen' \in [Launchers -> StateFile \cup {Unread}]
      BY <1>18, RememberKeepsType DEF StepFails, HostTypeOK
  <2> QED BY <1>18, <2>1, <2>2 DEF StepFails, HostTypeOK
<1>19. ASSUME NEW l \in Launchers, NEW e \in Endpoints, UndoRouteExclusion(l, e)
       PROVE  HostTypeOK'
    BY <1>19 DEF UndoRouteExclusion, HostTypeOK, memoryVars, DeleteRoutes, Routes
<1>20. ASSUME NEW l \in Launchers, UndoWSTunnel(l)
       PROVE  HostTypeOK'
    BY <1>20 DEF UndoWSTunnel, HostTypeOK
<1>21. ASSUME NEW l \in Launchers, NEW s \in applied[l], UndoInterface(l, s)
       PROVE  HostTypeOK'
  <2>1. link' \in BOOLEAN /\ dns' \in BOOLEAN /\ clientRoutes' \subseteq AllowedIPs
      BY <1>21 DEF UndoInterface, HostTypeOK, LinkDeleted
  <2>2. ~link' => clientRoutes' = {} /\ ~dns'
      BY <1>21 DEF UndoInterface, HostTypeOK, LinkDeleted
  <2>3. route' \in [Endpoints -> Routes] /\ (~link' => \A e \in Endpoints : route'[e] # "tunnel")
      BY <1>21 DEF UndoInterface, HostTypeOK, LinkDeleted, Routes
  <2> QED BY <1>21, <2>1, <2>2, <2>3 DEF UndoInterface, HostTypeOK, memoryVars
<1>22. ASSUME NEW l \in Launchers, UndoClientRoutes(l)
       PROVE  HostTypeOK'
    BY <1>22 DEF UndoClientRoutes, HostTypeOK, memoryVars, ClientRoutesPartlyDeleted, ClientRoutesDeleted
<1>23. ASSUME NEW l \in Launchers, UndoDNS(l)
       PROVE  HostTypeOK'
  <2>1. dns' \in {FALSE, dns}
      BY <1>23 DEF UndoDNS, DNSReverted
  <2>2. UNCHANGED <<route, process, link, clientRoutes, store, memoryVars, disclosed>>
      BY <1>23 DEF UndoDNS
  <2>3. dns' \in BOOLEAN
      BY <2>1 DEF HostTypeOK
  <2>4. ~dns => ~dns'
      BY <2>1
  <2> QED BY <2>2, <2>3, <2>4 DEF HostTypeOK, memoryVars
<1>24. ASSUME NEW l \in Launchers, Return(l)
       PROVE  HostTypeOK'
    BY <1>24 DEF Return, HostTypeOK, hostVars, memoryVars, Clean
<1>25. ASSUME NEW l \in Launchers, Kill(l)
       PROVE  HostTypeOK'
  <2>1. /\ route' \in [Endpoints -> Routes]
        /\ process' = process /\ link' = link
        /\ clientRoutes' \subseteq AllowedIPs /\ dns' \in BOOLEAN /\ store' \in StateFile
        /\ ~link => clientRoutes' = {} /\ ~dns' /\ \A e \in Endpoints : route'[e] # "tunnel"
      BY <1>25, DeathKeepsType DEF Kill
  <2> QED BY <1>25, <2>1 DEF Kill, HostTypeOK, Clean
<1>26. ASSUME NEW p \in Pids, ProcessChanges(p)
       PROVE  HostTypeOK'
    BY <1>26 DEF ProcessChanges, HostTypeOK, memoryVars
<1>27. CASE UNCHANGED vars
    BY <1>27 DEF vars, hostVars, memoryVars, HostTypeOK
<1> QED
    BY <1>1, <1>2, <1>3, <1>4, <1>5, <1>6, <1>7, <1>8, <1>9, <1>10, <1>11, <1>12, <1>13,
       <1>14, <1>15, <1>16, <1>17, <1>18, <1>19, <1>20, <1>21, <1>22, <1>23, <1>24, <1>25, <1>26, <1>27
       DEF Next, Step

\* Every variable of the tunnel keeps its type, and nothing of the interface
\* outlives it, for any number of launchers.
THEOREM TypeCorrect == Spec => []TypeOK
<1>1. Init => HostTypeOK
    BY AbsentIsState, TunnelAssumption DEF Init, HostTypeOK, Routes
<1>2. Engine!TypeOK /\ HostTypeOK /\ [Next]_vars => HostTypeOK'
    BY HostTypeStep
<1>3. EngineInv => Engine!TypeOK
    BY DEF EngineInv
<1> QED BY <1>1, <1>2, <1>3, EngineInvHolds, TypeOKParts, PTL DEF Spec

-------------------------------------------------------------------------------
\* What a launcher may do to a process

OwnStop ==
    \A p \in Pids : process'[p] # process[p] /\ engineVars' # engineVars =>
        \/ process[p] = "free" /\ process'[p] = "wstunnel"
        \/ /\ process[p] = "wstunnel" /\ process'[p] = "free"
           /\ \E l \in Launchers : p = handle[l] \/ p = Known(l).pid

LEMMA OwnStopStep ==
    ASSUME HostTypeOK, [Next]_vars
    PROVE  OwnStop
<1>1. ASSUME NEW l \in Launchers, NEW ips \in SUBSET Endpoints, NEW withDNS \in BOOLEAN, StartConnect(l, ips, withDNS)
       PROVE  OwnStop
    BY <1>1 DEF StartConnect, hostVars, OwnStop
<1>2. ASSUME NEW l \in Launchers, StartDisconnect(l)
       PROVE  OwnStop
    BY <1>2 DEF StartDisconnect, hostVars, OwnStop
<1>3. ASSUME NEW l \in Launchers, ValidatePrerequisites(l)
       PROVE  OwnStop
    BY <1>3 DEF ValidatePrerequisites, hostVars, OwnStop
<1>4. ASSUME NEW l \in Launchers, NEW e \in Endpoints, AddRouteExclusion(l, e)
       PROVE  OwnStop
    BY <1>4 DEF AddRouteExclusion, hostVars, OwnStop
<1>5. ASSUME NEW l \in Launchers, NEW p \in Pids, StartWSTunnel(l, p)
       PROVE  OwnStop
    BY <1>5 DEF StartWSTunnel, HostTypeOK, OwnStop
<1>6. ASSUME NEW l \in Launchers, CreateInterface(l)
       PROVE  OwnStop
    BY <1>6 DEF CreateInterface, hostVars, OwnStop
<1>7. ASSUME NEW l \in Launchers, ConfigureInterface(l)
       PROVE  OwnStop
    BY <1>7 DEF ConfigureInterface, hostVars, OwnStop, LinkConfigured
<1>8. ASSUME NEW l \in Launchers, ApplyClientRoutes(l)
       PROVE  OwnStop
    BY <1>8 DEF ApplyClientRoutes, hostVars, OwnStop
<1>9. ASSUME NEW l \in Launchers, ApplyDNS(l)
       PROVE  OwnStop
    BY <1>9 DEF ApplyDNS, hostVars, OwnStop
<1>10. ASSUME NEW l \in Launchers, StoreRuntimeState(l)
       PROVE  OwnStop
    BY <1>10 DEF StoreRuntimeState, hostVars, OwnStop
<1>11. ASSUME NEW l \in Launchers, ReadRuntimeState(l)
       PROVE  OwnStop
    BY <1>11 DEF ReadRuntimeState, hostVars, OwnStop
<1>12. ASSUME NEW l \in Launchers, RestoreDNS(l)
       PROVE  OwnStop
    BY <1>12 DEF RestoreDNS, OwnStop
<1>13. ASSUME NEW l \in Launchers, RemoveClientRoutes(l)
       PROVE  OwnStop
    BY <1>13 DEF RemoveClientRoutes, OwnStop
<1>14. ASSUME NEW l \in Launchers, RemoveInterface(l)
       PROVE  OwnStop
    BY <1>14 DEF RemoveInterface, OwnStop
<1>15. ASSUME NEW l \in Launchers, StopWSTunnel(l)
       PROVE  OwnStop
    BY <1>15 DEF StopWSTunnel, StopRecorded, HostTypeOK, OwnStop
<1>16. ASSUME NEW l \in Launchers, RemoveRouteExclusions(l)
       PROVE  OwnStop
    BY <1>16 DEF RemoveRouteExclusions, OwnStop
<1>17. ASSUME NEW l \in Launchers, ClearRuntimeState(l)
       PROVE  OwnStop
    BY <1>17 DEF ClearRuntimeState, hostVars, OwnStop
<1>18. ASSUME NEW l \in Launchers, NEW s \in plan[l], StepFails(l, s)
       PROVE  OwnStop
    BY <1>18, InterruptedKeepsType DEF StepFails, OwnStop
<1>19. ASSUME NEW l \in Launchers, NEW e \in Endpoints, UndoRouteExclusion(l, e)
       PROVE  OwnStop
    BY <1>19 DEF UndoRouteExclusion, hostVars, OwnStop
<1>20. ASSUME NEW l \in Launchers, UndoWSTunnel(l)
       PROVE  OwnStop
    BY <1>20 DEF UndoWSTunnel, HostTypeOK, OwnStop
<1>21. ASSUME NEW l \in Launchers, NEW s \in applied[l], UndoInterface(l, s)
       PROVE  OwnStop
    BY <1>21 DEF UndoInterface, hostVars, OwnStop
<1>22. ASSUME NEW l \in Launchers, UndoClientRoutes(l)
       PROVE  OwnStop
    BY <1>22 DEF UndoClientRoutes, ClientRoutesPartlyDeleted, OwnStop
<1>23. ASSUME NEW l \in Launchers, UndoDNS(l)
       PROVE  OwnStop
    BY <1>23 DEF UndoDNS, hostVars, OwnStop
<1>24. ASSUME NEW l \in Launchers, Return(l)
       PROVE  OwnStop
    BY <1>24 DEF Return, hostVars, OwnStop
<1>25. ASSUME NEW l \in Launchers, Kill(l)
       PROVE  OwnStop
    BY <1>25, DeathKeepsType DEF Kill, OwnStop
<1>26. ASSUME NEW p \in Pids, ProcessChanges(p)
       PROVE  OwnStop
    BY <1>26 DEF ProcessChanges, OwnStop
<1>27. CASE UNCHANGED vars
    BY <1>27 DEF vars, hostVars, OwnStop
<1> QED
    BY <1>1, <1>2, <1>3, <1>4, <1>5, <1>6, <1>7, <1>8, <1>9, <1>10, <1>11, <1>12, <1>13,
       <1>14, <1>15, <1>16, <1>17, <1>18, <1>19, <1>20, <1>21, <1>22, <1>23, <1>24, <1>25, <1>26, <1>27
       DEF Next, Step

\* No launcher ever stops a process that is not a wstunnel it started or read
\* from the record, for any number of launchers racing and any reuse of PIDs.
THEOREM StopsOnlyItsOwnHolds == Spec => StopsOnlyItsOwn
<1>1. TypeOK /\ [Next]_vars => [OwnStop]_vars
    BY OwnStopStep, TypeOKParts
<1> QED BY <1>1, TypeCorrect, PTL DEF Spec, StopsOnlyItsOwn, OwnStop

-------------------------------------------------------------------------------
\* Runs and the host: RunInv ties what a run has applied and undone to the host,
\* with kills, failures and dying processes.

StoreShape == store.file # "whole" => store.endpoints = {}

\* What a run knows of the host from what it has applied and undone.
RunInv ==
    \A l \in Launchers :
        /\ mode[l] \in {"connect", "rollback"} =>
              /\ ConnectSteps \ {"apply-dns"} \subseteq plan[l]
              /\ plan[l] \cap DisconnectSteps = {}
              /\ store.endpoints \subseteq plan[l]
              /\ seen[l] = Unread
              /\ mode[l] = "connect" =>
                    \A e \in applied[l] \cap Endpoints : route[e] \in {"own", "tunnel"}
              /\ "create-wireguard-interface" \in applied[l] =>
                    \A e \in (applied[l] \cap Endpoints) \ undone[l] : route[e] = "own"
              /\ "create-wireguard-interface" \in undone[l] \ stuck[l] => ~link
              /\ "apply-client-routes" \in attempted[l] =>
                    /\ plan[l] \cap Endpoints \subseteq applied[l]
                    /\ "create-wireguard-interface" \in applied[l]
        /\ mode[l] = "disconnect" => plan[l] = DisconnectSteps

-------------------------------------------------------------------------------
\* Lemmas about the plans

LEMMA RankFacts ==
    /\ \A e \in Endpoints : Rank[e] = 1
    /\ Rank["create-wireguard-interface"] = 3
    /\ Rank["apply-client-routes"] = 6
    /\ Rank["remove-wireguard-interface"] = 3
    /\ Rank["stop-wstunnel"] = 4
    /\ Rank["remove-endpoint-route-exclusions"] = 5
    /\ Rank["clear-runtime-state"] = 6
<1>1. \A e \in Endpoints : Rank[e] = 1
    BY TunnelAssumption DEF Rank, Steps, ConnectSteps, DisconnectSteps
<1>2. Rank["create-wireguard-interface"] = 3 /\ Rank["remove-wireguard-interface"] = 3
    BY TunnelAssumption DEF Rank, Steps, ConnectSteps, DisconnectSteps
<1>3. Rank["apply-client-routes"] = 6 /\ Rank["clear-runtime-state"] = 6
    BY TunnelAssumption DEF Rank, Steps, ConnectSteps, DisconnectSteps
<1>4. Rank["stop-wstunnel"] = 4 /\ Rank["remove-endpoint-route-exclusions"] = 5
    BY TunnelAssumption DEF Rank, Steps, ConnectSteps, DisconnectSteps
<1> QED BY <1>1, <1>2, <1>3, <1>4

\* Which parts of the host an interrupted step can have touched.
LEMMA InterruptedTouches ==
    ASSUME HostTypeOK, NEW l \in Launchers, NEW s, ApplyInterrupted(l, s)
    PROVE  /\ link' = link
           /\ s # "store-runtime-state" => store' = store
           /\ store' \in {store, Torn, RecordOf(l)}
           /\ s # "remove-endpoint-route-exclusions" => route' = route
           /\ s # "apply-client-routes" => clientRoutes' \subseteq clientRoutes
<1>1. CASE s = "store-runtime-state"
    BY <1>1 DEF ApplyInterrupted
<1>2. CASE s = "apply-client-routes"
    BY <1>2 DEF ApplyInterrupted
<1>3. CASE s = "apply-dns"
    BY <1>3 DEF ApplyInterrupted
<1>4. CASE s = "remove-client-routes" /\ Known(l).file = "whole"
    BY <1>4 DEF ApplyInterrupted, ClientRoutesPartlyDeleted, ClientRoutesDeleted
<1>5. CASE s = "remove-endpoint-route-exclusions" /\ Known(l).file = "whole"
    BY <1>5 DEF ApplyInterrupted
<1>6. CASE /\ s \notin {"store-runtime-state", "apply-client-routes", "apply-dns"}
           /\ ~(s = "remove-client-routes" /\ Known(l).file = "whole")
           /\ ~(s = "remove-endpoint-route-exclusions" /\ Known(l).file = "whole")
    BY <1>6 DEF ApplyInterrupted, hostVars
<1> QED
    BY <1>1, <1>2, <1>3, <1>4, <1>5, <1>6

\* A record that is not whole lists no endpoint.
LEMMA StoreShapeStep ==
    ASSUME HostTypeOK, StoreShape, [Next]_vars
    PROVE  StoreShape'
<1>1. ASSUME NEW l \in Launchers, NEW ips \in SUBSET Endpoints, NEW withDNS \in BOOLEAN, StartConnect(l, ips, withDNS)
       PROVE  StoreShape'
    BY <1>1 DEF StartConnect, StoreShape, hostVars
<1>2. ASSUME NEW l \in Launchers, StartDisconnect(l)
       PROVE  StoreShape'
    BY <1>2 DEF StartDisconnect, StoreShape, hostVars
<1>3. ASSUME NEW l \in Launchers, ValidatePrerequisites(l)
       PROVE  StoreShape'
    BY <1>3 DEF ValidatePrerequisites, StoreShape, hostVars
<1>4. ASSUME NEW l \in Launchers, NEW e \in Endpoints, AddRouteExclusion(l, e)
       PROVE  StoreShape'
    BY <1>4 DEF AddRouteExclusion, StoreShape, hostVars
<1>5. ASSUME NEW l \in Launchers, NEW p \in Pids, StartWSTunnel(l, p)
       PROVE  StoreShape'
    BY <1>5 DEF StartWSTunnel, StoreShape, hostVars
<1>6. ASSUME NEW l \in Launchers, CreateInterface(l)
       PROVE  StoreShape'
    BY <1>6 DEF CreateInterface, StoreShape, hostVars
<1>7. ASSUME NEW l \in Launchers, ConfigureInterface(l)
       PROVE  StoreShape'
    BY <1>7 DEF ConfigureInterface, StoreShape, hostVars, LinkConfigured
<1>8. ASSUME NEW l \in Launchers, ApplyClientRoutes(l)
       PROVE  StoreShape'
    BY <1>8 DEF ApplyClientRoutes, StoreShape, hostVars
<1>9. ASSUME NEW l \in Launchers, ApplyDNS(l)
       PROVE  StoreShape'
    BY <1>9 DEF ApplyDNS, StoreShape, hostVars
<1>10. ASSUME NEW l \in Launchers, StoreRuntimeState(l)
       PROVE  StoreShape'
    BY <1>10 DEF StoreRuntimeState, StoreShape, RecordOf
<1>11. ASSUME NEW l \in Launchers, ReadRuntimeState(l)
       PROVE  StoreShape'
    BY <1>11 DEF ReadRuntimeState, StoreShape, hostVars
<1>12. ASSUME NEW l \in Launchers, RestoreDNS(l)
       PROVE  StoreShape'
    BY <1>12 DEF RestoreDNS, Dependent, StoreShape
<1>13. ASSUME NEW l \in Launchers, RemoveClientRoutes(l)
       PROVE  StoreShape'
    BY <1>13 DEF RemoveClientRoutes, Dependent, StoreShape
<1>14. ASSUME NEW l \in Launchers, RemoveInterface(l)
       PROVE  StoreShape'
    BY <1>14 DEF RemoveInterface, Dependent, StoreShape
<1>15. ASSUME NEW l \in Launchers, StopWSTunnel(l)
       PROVE  StoreShape'
    BY <1>15 DEF StopWSTunnel, Dependent, StoreShape
<1>16. ASSUME NEW l \in Launchers, RemoveRouteExclusions(l)
       PROVE  StoreShape'
    BY <1>16 DEF RemoveRouteExclusions, Dependent, StoreShape
<1>17. ASSUME NEW l \in Launchers, ClearRuntimeState(l)
       PROVE  StoreShape'
    BY <1>17 DEF ClearRuntimeState, StoreShape, Absent
<1>18. ASSUME NEW l \in Launchers, NEW s \in plan[l], StepFails(l, s)
       PROVE  StoreShape'
    BY <1>18, InterruptedTouches DEF StepFails, StoreShape, RecordOf, Torn, Absent
<1>19. ASSUME NEW l \in Launchers, NEW e \in Endpoints, UndoRouteExclusion(l, e)
       PROVE  StoreShape'
    BY <1>19 DEF UndoRouteExclusion, StoreShape, hostVars
<1>20. ASSUME NEW l \in Launchers, UndoWSTunnel(l)
       PROVE  StoreShape'
    BY <1>20 DEF UndoWSTunnel, StoreShape, hostVars
<1>21. ASSUME NEW l \in Launchers, NEW s \in applied[l], UndoInterface(l, s)
       PROVE  StoreShape'
    BY <1>21 DEF UndoInterface, StoreShape, hostVars
<1>22. ASSUME NEW l \in Launchers, UndoClientRoutes(l)
       PROVE  StoreShape'
    BY <1>22 DEF UndoClientRoutes, ClientRoutesPartlyDeleted, StoreShape
<1>23. ASSUME NEW l \in Launchers, UndoDNS(l)
       PROVE  StoreShape'
    BY <1>23 DEF UndoDNS, StoreShape, hostVars
<1>24. ASSUME NEW l \in Launchers, Return(l)
       PROVE  StoreShape'
    BY <1>24 DEF Return, StoreShape, hostVars
<1>25. ASSUME NEW l \in Launchers, Kill(l)
       PROVE  StoreShape'
  <2>1. store' \in {store, Torn, RecordOf(l)}
      BY <1>25, InterruptedTouches DEF Kill, DiesInside, hostVars, ClientRoutesPartlyDeleted
  <2> QED BY <2>1 DEF StoreShape, RecordOf, Torn, Absent
<1>26. ASSUME NEW p \in Pids, ProcessChanges(p)
       PROVE  StoreShape'
    BY <1>26 DEF ProcessChanges, StoreShape, hostVars
<1>27. CASE UNCHANGED vars
    BY <1>27 DEF vars, hostVars, StoreShape
<1> QED
    BY <1>1, <1>2, <1>3, <1>4, <1>5, <1>6, <1>7, <1>8, <1>9, <1>10, <1>11, <1>12, <1>13,
       <1>14, <1>15, <1>16, <1>17, <1>18, <1>19, <1>20, <1>21, <1>22, <1>23, <1>24, <1>25, <1>26, <1>27
       DEF Next, Step

-------------------------------------------------------------------------------
\* Launchers that run one at a time

\* The launchers that run a plan: never two.
OneAtATime == \A k, l \in Launchers : mode[k] # "off" /\ mode[l] # "off" => k = l

\* What a launcher does.
Acts(l) ==
    \/ \E ips \in SUBSET Endpoints, withDNS \in BOOLEAN : StartConnect(l, ips, withDNS)
    \/ StartDisconnect(l)
    \/ Step(l)
    \/ Kill(l)

\* A launcher takes a step only in a run, and leaves the other runs alone.
LEMMA StepIsItsOwn ==
    ASSUME EngineInv, NEW l \in Launchers, Step(l)
    PROVE  mode[l] # "off" /\ \A k \in Launchers \ {l} : mode'[k] = mode[k]
<1>1. ASSUME \/ \E s : \/ Engine!ApplyOk(l, s) \/ Engine!ApplyFail(l, s)
                      \/ Engine!UndoOk(l, s) \/ Engine!UndoFail(l, s)
             \/ Engine!Return(l)
       PROVE  mode[l] # "off" /\ \A k \in Launchers \ {l} : mode'[k] = mode[k]
    BY <1>1 DEF Engine!ApplyOk, Engine!ApplyFail, Engine!UndoOk, Engine!UndoFail,
           Engine!Return, Engine!Exhausted, Engine!Ready, Engine!ReadyToUndo,
           EngineInv, Engine!TypeOK
<1>2. CASE Return(l)
    BY <1>1, <1>2 DEF Return
<1>3. CASE \/ ValidatePrerequisites(l) \/ \E e \in Endpoints : AddRouteExclusion(l, e)
           \/ \E p \in Pids : StartWSTunnel(l, p)
           \/ CreateInterface(l) \/ ConfigureInterface(l) \/ ApplyClientRoutes(l) \/ ApplyDNS(l)
           \/ StoreRuntimeState(l)
    BY <1>1, <1>3 DEF ValidatePrerequisites, AddRouteExclusion, StartWSTunnel, CreateInterface,
           ConfigureInterface, ApplyClientRoutes, ApplyDNS, StoreRuntimeState
<1>4. CASE \/ ReadRuntimeState(l) \/ RestoreDNS(l) \/ RemoveClientRoutes(l) \/ RemoveInterface(l)
           \/ StopWSTunnel(l) \/ RemoveRouteExclusions(l) \/ ClearRuntimeState(l)
    BY <1>1, <1>4 DEF ReadRuntimeState, RestoreDNS, RemoveClientRoutes, RemoveInterface,
           StopWSTunnel, RemoveRouteExclusions, ClearRuntimeState, Dependent
<1>5. CASE \/ \E s \in plan[l] : StepFails(l, s)
           \/ \E e \in Endpoints : UndoRouteExclusion(l, e)
           \/ UndoWSTunnel(l) \/ \E s \in applied[l] : UndoInterface(l, s)
           \/ UndoClientRoutes(l) \/ UndoDNS(l)
    BY <1>1, <1>5 DEF StepFails, UndoRouteExclusion, UndoWSTunnel, UndoInterface, UndoClientRoutes, UndoDNS
<1> QED BY <1>2, <1>3, <1>4, <1>5 DEF Step

\* The same of the beginning and the end of a run.
LEMMA BeginIsItsOwn ==
    ASSUME EngineInv, NEW l \in Launchers,
           \/ \E ips \in SUBSET Endpoints, withDNS \in BOOLEAN : StartConnect(l, ips, withDNS)
           \/ StartDisconnect(l)
    PROVE  mode'[l] # "off" /\ \A k \in Launchers \ {l} : mode'[k] = mode[k]
BY DEF StartConnect, StartDisconnect, Engine!Begin, EngineInv, Engine!TypeOK

LEMMA KillIsItsOwn ==
    ASSUME EngineInv, NEW l \in Launchers, Engine!Kill(l)
    PROVE  mode[l] # "off" /\ mode'[l] = "off" /\ \A k \in Launchers \ {l} : mode'[k] = mode[k]
BY DEF Engine!Kill, EngineInv, Engine!TypeOK

\* The one that acts is in a run before or after, so that the others are not.
LEMMA ActsAlone ==
    ASSUME EngineInv, OneAtATime, OneAtATime', NEW l \in Launchers, Acts(l)
    PROVE  \A k \in Launchers : k = l \/ (mode[k] = "off" /\ mode'[k] = "off")
<1>1. /\ mode[l] # "off" \/ mode'[l] # "off"
      /\ \A k \in Launchers \ {l} : mode'[k] = mode[k]
    BY StepIsItsOwn, BeginIsItsOwn, KillIsItsOwn DEF Acts, Kill
<1> QED BY <1>1 DEF OneAtATime

\* A connect step applies only while connecting, after all that is ranked before
\* it was applied.
LEMMA ApplyWhileConnecting ==
    ASSUME EngineInv, RunInv,
           NEW l \in Launchers, NEW s \in ConnectSteps \cup Endpoints, Engine!ApplyOk(l, s)
    PROVE  /\ mode[l] = "connect" /\ mode' = mode /\ plan' = plan
           /\ failed' = failed /\ undone' = undone /\ stuck' = stuck /\ outcome' = outcome
           /\ failed[l] = {} /\ undone[l] = {}
           /\ s \in plan[l] \ attempted[l]
           /\ attempted'[l] = attempted[l] \cup {s}
           /\ applied'[l] = applied[l] \cup {s}
           /\ \A t \in plan[l] : Rank[t] < Rank[s] => t \in applied[l]
<1>1. s \notin DisconnectSteps
    BY TunnelAssumption DEF ConnectSteps, DisconnectSteps
<1>2. mode[l] = "connect"
    BY <1>1 DEF EngineInv, RunInv, Engine!TypeOK, Engine!ApplyOk, Engine!Ready
<1>3. failed[l] = {} /\ undone[l] = {} /\ applied[l] = attempted[l]
    BY <1>2 DEF EngineInv, Engine!Bookkeeping
<1>4. \A t \in plan[l] : Rank[t] < Rank[s] => t \in attempted[l]
  <2>1. Rank \in [Steps -> Nat]
      BY EngineAssumed DEF Engine!EngineAssumption
  <2> QED BY <2>1 DEF Engine!ApplyOk, Engine!Ready, EngineInv, Engine!TypeOK
<1> QED BY <1>2, <1>3, <1>4 DEF Engine!ApplyOk, Engine!Ready, EngineInv, Engine!TypeOK

\* So that applying one keeps RunInv, whatever it does to the rest of the host.
LEMMA ApplyKeepsRunInv ==
    ASSUME EngineInv, HostTypeOK, RunInv, NEW l \in Launchers,
           \A k \in Launchers : k = l \/ (mode[k] = "off" /\ mode'[k] = "off"),
           NEW s \in ConnectSteps \cup Endpoints, Engine!ApplyOk(l, s),
           store' = store \/ store' = RecordOf(l), seen' = seen,
           NEW found \in {"own", "tunnel"},
           route' = IF s \in Endpoints THEN [route EXCEPT ![s] = found] ELSE route,
           s = "create-wireguard-interface" => ~link
    PROVE  RunInv'
<1>1. /\ mode[l] = "connect" /\ mode' = mode /\ plan' = plan
      /\ undone' = undone /\ stuck' = stuck /\ undone[l] = {}
      /\ s \in plan[l] \ attempted[l]
      /\ attempted'[l] = attempted[l] \cup {s}
      /\ applied'[l] = applied[l] \cup {s}
      /\ \A t \in plan[l] : Rank[t] < Rank[s] => t \in applied[l]
    BY ApplyWhileConnecting
<1>2. store'.endpoints \subseteq plan[l]
    BY <1>1 DEF RunInv, RecordOf
<1>3. \A e \in applied'[l] \cap Endpoints : route'[e] \in {"own", "tunnel"}
    BY <1>1 DEF RunInv, HostTypeOK
<1>5. ASSUME "create-wireguard-interface" \in applied'[l]
      PROVE  \A e \in applied'[l] \cap Endpoints : route'[e] = "own"
  <2>1. CASE s = "create-wireguard-interface"
    <3>1. s \notin Endpoints
        BY <2>1, TunnelAssumption DEF ConnectSteps
    <3> QED BY <1>3, <2>1, <3>1 DEF HostTypeOK
  <2>2. CASE s # "create-wireguard-interface"
    <3>1. "create-wireguard-interface" \in applied[l]
        BY <1>1, <1>5, <2>2
    <3>2. s \notin Endpoints
      <4>1. "create-wireguard-interface" \in attempted[l]
          BY <3>1 DEF EngineInv, Engine!Bookkeeping
      <4> QED BY <1>1, <4>1, RankFacts DEF EngineInv, Engine!InPlanOrder
    <3> QED BY <1>1, <3>1, <3>2 DEF RunInv
  <2> QED BY <2>1, <2>2
<1>4. "apply-client-routes" \in attempted'[l] =>
        plan'[l] \cap Endpoints \subseteq applied'[l] /\ "create-wireguard-interface" \in applied'[l]
  <2>1. CASE s = "apply-client-routes"
    <3>1. "create-wireguard-interface" \in plan[l]
        BY <1>1 DEF RunInv, ConnectSteps
    <3> QED BY <1>1, <2>1, <3>1, RankFacts
  <2>2. CASE s # "apply-client-routes"
      BY <1>1, <2>2 DEF RunInv
  <2> QED BY <2>1, <2>2
<1> QED BY <1>1, <1>2, <1>3, <1>4, <1>5 DEF RunInv

\* A launcher that acts alone keeps RunInv.
LEMMA RunInvActs ==
    ASSUME EngineInv, HostTypeOK, StoreShape, RunInv, NEW l \in Launchers, Acts(l),
           \A k \in Launchers : k = l \/ (mode[k] = "off" /\ mode'[k] = "off")
    PROVE  RunInv'
<1>1. ASSUME NEW ips \in SUBSET Endpoints, NEW withDNS \in BOOLEAN, StartConnect(l, ips, withDNS)
       PROVE  RunInv'
  <2>1. store.endpoints = {}
      BY <1>1 DEF StartConnect, Status, StoreShape
  <2>2. ips \cap DisconnectSteps = {} /\ ConnectSteps \cap DisconnectSteps = {}
      BY TunnelAssumption DEF ConnectSteps, DisconnectSteps
  <2>3. /\ mode'[l] = "connect" /\ attempted'[l] = {} /\ applied'[l] = {} /\ undone'[l] = {}
        /\ plan'[l] = ips \cup (ConnectSteps \ (IF withDNS THEN {} ELSE {"apply-dns"}))
      BY <1>1 DEF StartConnect, Engine!Begin, EngineInv, Engine!TypeOK
  <2>4. ConnectSteps \ {"apply-dns"} \subseteq plan'[l] /\ plan'[l] \cap DisconnectSteps = {}
      BY <2>2, <2>3
  <2>5. store' = store /\ seen'[l] = Unread
      BY <1>1 DEF StartConnect, hostVars, HostTypeOK
  <2> QED BY <2>1, <2>3, <2>4, <2>5 DEF RunInv
<1>2. CASE StartDisconnect(l)
    BY <1>2
       DEF EngineInv, Engine!TypeOK, RunInv, StartDisconnect, Engine!Begin, hostVars
<1>3. CASE ValidatePrerequisites(l)
    BY <1>3, TunnelAssumption, ApplyKeepsRunInv
       DEF ValidatePrerequisites, ConnectSteps, hostVars, memoryVars
<1>4. ASSUME NEW e \in Endpoints, AddRouteExclusion(l, e)
       PROVE  RunInv'
    BY <1>4, TunnelAssumption, ApplyKeepsRunInv
       DEF AddRouteExclusion, Found, ConnectSteps, memoryVars
<1>5. ASSUME NEW p \in Pids, StartWSTunnel(l, p)
       PROVE  RunInv'
    BY <1>5, TunnelAssumption, ApplyKeepsRunInv DEF StartWSTunnel, ConnectSteps
<1>6. CASE CreateInterface(l)
    BY <1>6, TunnelAssumption, ApplyKeepsRunInv
       DEF CreateInterface, ConnectSteps, memoryVars, LinkAdded
<1>7. CASE ConfigureInterface(l)
    BY <1>7, TunnelAssumption, ApplyKeepsRunInv
       DEF ConfigureInterface, ConnectSteps, hostVars, memoryVars, LinkConfigured
<1>8. CASE ApplyClientRoutes(l)
    BY <1>8, TunnelAssumption, ApplyKeepsRunInv
       DEF ApplyClientRoutes, ConnectSteps, memoryVars
<1>9. CASE ApplyDNS(l)
    BY <1>9, TunnelAssumption, ApplyKeepsRunInv
       DEF ApplyDNS, ConnectSteps, memoryVars
<1>10. CASE StoreRuntimeState(l)
    BY <1>10, TunnelAssumption, ApplyKeepsRunInv
       DEF StoreRuntimeState, ConnectSteps, memoryVars
<1>11. CASE ReadRuntimeState(l)
    BY <1>11
       DEF EngineInv, Engine!TypeOK, RunInv, ReadRuntimeState, Engine!ApplyOk, Engine!Ready, DisconnectSteps
<1>12. CASE RestoreDNS(l)
    BY <1>12
       DEF EngineInv, Engine!TypeOK, RunInv, RestoreDNS, Dependent, Engine!ApplyOk, Engine!Ready, DisconnectSteps
<1>13. CASE RemoveClientRoutes(l)
    BY <1>13
       DEF EngineInv, Engine!TypeOK, RunInv, RemoveClientRoutes, Dependent, Engine!ApplyOk, Engine!Ready, DisconnectSteps
<1>14. CASE RemoveInterface(l)
    BY <1>14
       DEF EngineInv, Engine!TypeOK, RunInv, RemoveInterface, Dependent, Engine!ApplyOk, Engine!Ready, DisconnectSteps
<1>15. CASE StopWSTunnel(l)
    BY <1>15
       DEF EngineInv, Engine!TypeOK, RunInv, StopWSTunnel, Dependent, Engine!ApplyOk, Engine!Ready, DisconnectSteps
<1>16. CASE RemoveRouteExclusions(l)
    BY <1>16
       DEF EngineInv, Engine!TypeOK, RunInv, RemoveRouteExclusions, Dependent, Engine!ApplyOk, Engine!Ready, DisconnectSteps
<1>17. CASE ClearRuntimeState(l)
    BY <1>17
       DEF EngineInv, Engine!TypeOK, RunInv, ClearRuntimeState, Engine!ApplyOk, Engine!Ready, DisconnectSteps
<1>18. ASSUME NEW s \in plan[l], StepFails(l, s)
       PROVE  RunInv'
  <2>1. CASE mode[l] = "connect"
    <3>1. /\ s \in plan[l] \ attempted[l] /\ s \notin DisconnectSteps
          /\ mode'[l] = "rollback" /\ plan' = plan /\ undone' = undone /\ stuck' = stuck
          /\ applied' = applied /\ attempted'[l] = attempted[l] \cup {s}
        BY <1>18, <2>1 DEF StepFails, Engine!ApplyFail, Engine!Ready, Engine!ModeAfterError,
                          EngineInv, Engine!TypeOK, RunInv
    <3>2. applied[l] = attempted[l] /\ undone[l] = {}
        BY <2>1 DEF EngineInv, Engine!Bookkeeping
    <3>3. route' = route /\ store' \in {store, Torn, RecordOf(l)} /\ seen' = seen
        BY <1>18, <3>1, InterruptedTouches DEF StepFails, DisconnectSteps
    <3>4. store'.endpoints \subseteq plan[l]
        BY <2>1, <3>3 DEF RunInv, RecordOf, Torn, Absent
    <3>5. s = "apply-client-routes" =>
            plan[l] \cap Endpoints \subseteq applied[l] /\ "create-wireguard-interface" \in applied[l]
      <4>1. \A t \in plan[l] \ attempted[l] : Rank[s] <= Rank[t]
          BY <1>18 DEF StepFails, Engine!ApplyFail, Engine!Ready
      <4>2. "create-wireguard-interface" \in plan[l]
          BY <2>1 DEF RunInv, ConnectSteps
      <4> QED BY <3>2, <4>1, <4>2, RankFacts
    <3> QED BY <2>1, <3>1, <3>2, <3>3, <3>4, <3>5 DEF RunInv
  <2>2. CASE mode[l] = "disconnect"
      BY <1>18, <2>2
         DEF StepFails, Engine!ApplyFail, Engine!ModeAfterError, EngineInv, Engine!TypeOK, RunInv
  <2> QED BY <1>18, <2>1, <2>2 DEF StepFails, Engine!ApplyFail, Engine!Ready
<1>19. ASSUME NEW e \in Endpoints, UndoRouteExclusion(l, e)
       PROVE  RunInv'
  <2>1. /\ mode[l] = "rollback" /\ mode' = mode /\ plan' = plan /\ attempted' = attempted
        /\ applied' = applied /\ undone'[l] = undone[l] \cup {e} /\ stuck[l] \subseteq stuck'[l]
      BY <1>19 DEF UndoRouteExclusion, Engine!UndoOk, Engine!UndoFail, Engine!ReadyToUndo, EngineInv, Engine!TypeOK
  <2>2. \A i \in Endpoints \ {e} : route'[i] = route[i]
      BY <1>19 DEF UndoRouteExclusion, DeleteRoutes
  <2>3. e # "create-wireguard-interface"
      BY TunnelAssumption DEF ConnectSteps
  <2> QED BY <1>19, <2>1, <2>2, <2>3 DEF UndoRouteExclusion, RunInv, memoryVars
<1>20. CASE UndoWSTunnel(l)
    BY <1>20
       DEF EngineInv, Engine!TypeOK, RunInv, UndoWSTunnel, Engine!UndoOk, Engine!UndoFail, Engine!ReadyToUndo
<1>21. ASSUME NEW s \in applied[l], UndoInterface(l, s)
       PROVE  RunInv'
    BY <1>21
       DEF EngineInv, Engine!TypeOK, RunInv, UndoInterface, Engine!UndoOk, Engine!UndoFail, Engine!ReadyToUndo, memoryVars, LinkDeleted
<1>22. CASE UndoClientRoutes(l)
    BY <1>22
       DEF EngineInv, Engine!TypeOK, RunInv, UndoClientRoutes, Engine!UndoOk, Engine!UndoFail, Engine!ReadyToUndo, memoryVars, ClientRoutesPartlyDeleted
<1>23. CASE UndoDNS(l)
    BY <1>23
       DEF EngineInv, Engine!TypeOK, RunInv, UndoDNS, Engine!UndoOk, Engine!UndoFail, Engine!ReadyToUndo, memoryVars
<1>24. CASE Return(l)
    BY <1>24 DEF EngineInv, Engine!TypeOK, RunInv, Return, Engine!Return
<1>25. CASE Kill(l)
    BY <1>25 DEF EngineInv, Engine!TypeOK, RunInv, Kill, Engine!Kill
<1> QED
    BY <1>1, <1>2, <1>3, <1>4, <1>5, <1>6, <1>7, <1>8, <1>9, <1>10, <1>11, <1>12, <1>13,
       <1>14, <1>15, <1>16, <1>17, <1>18, <1>19, <1>20, <1>21, <1>22, <1>23, <1>24, <1>25
       DEF Acts, Step

LEMMA RunInvStep ==
    ASSUME OneAtATime, OneAtATime', EngineInv, HostTypeOK, StoreShape, RunInv, [Next]_vars
    PROVE  RunInv'
<1>1. ASSUME NEW l \in Launchers, Acts(l)
       PROVE  RunInv'
    BY <1>1, ActsAlone, RunInvActs
<1>2. ASSUME NEW p \in Pids, ProcessChanges(p)
       PROVE  RunInv'
    BY <1>2 DEF ProcessChanges, RunInv, engineVars, memoryVars
<1>3. CASE UNCHANGED vars
    BY <1>3 DEF vars, engineVars, hostVars, memoryVars, RunInv
<1> QED BY <1>1, <1>2, <1>3 DEF Next, Acts

-------------------------------------------------------------------------------
\* No route loop

\* The record lists endpoints that all have their exclusion.
Guarded == store.file = "whole" /\ \A e \in store.endpoints : route[e] = "own"

\* Client routes exist only from the step that applies them to the deletion of
\* the interface, and between runs only under a record that guards them.
LoopInv ==
    ~disclosed =>
        /\ AllOff => clientRoutes = {} \/ Guarded
        /\ \A l \in Launchers :
              /\ mode[l] \in {"connect", "rollback"} /\ "apply-client-routes" \notin attempted[l] =>
                    clientRoutes = {}
              /\ mode[l] = "connect" /\ "store-runtime-state" \in applied[l] => store.file = "whole"
              /\ mode[l] = "disconnect" =>
                    \/ clientRoutes = {}
                    \/ "remove-wireguard-interface" \in failed[l]
                    \/ /\ "remove-wireguard-interface" \notin attempted[l]
                       /\ Guarded
                       /\ seen[l] \in {Unread, store}

\* Applying a connect step keeps LoopInv when it adds client routes only as
\* "apply-client-routes" and stores only as "store-runtime-state".
LEMMA ApplyKeepsLoopInv ==
    ASSUME EngineInv, RunInv, LoopInv, NEW l \in Launchers,
           \A k \in Launchers : k = l \/ (mode[k] = "off" /\ mode'[k] = "off"),
           NEW s \in ConnectSteps \cup Endpoints, Engine!ApplyOk(l, s),
           s = "apply-client-routes" \/ clientRoutes' = clientRoutes,
           IF s = "store-runtime-state" THEN store'.file = "whole" ELSE store' = store,
           disclosed' = disclosed
    PROVE  LoopInv'
BY ApplyWhileConnecting DEF LoopInv, AllOff

\* A disconnect step other than the interface's removal that leaves the routes.
LEMMA DependentKeepsLoopInv ==
    ASSUME EngineInv, RunInv, LoopInv, NEW l \in Launchers,
           \A k \in Launchers : k = l \/ (mode[k] = "off" /\ mode'[k] = "off"),
           NEW s \in DisconnectSteps \ {"remove-wireguard-interface"},
           Dependent(l, s), clientRoutes' \subseteq clientRoutes,
           Rank[s] > 3 \/ route' = route
    PROVE  LoopInv'
<1>1. /\ mode[l] = "disconnect" /\ mode' = mode /\ failed' = failed /\ s \in plan[l] \ attempted[l]
      /\ attempted'[l] = attempted[l] \cup {s} /\ store' = store /\ disclosed' = disclosed
  <2>1. mode[l] = "disconnect"
      BY DEF Dependent, Engine!ApplyOk, Engine!Ready, RunInv, EngineInv, Engine!TypeOK
  <2> QED BY <2>1 DEF Dependent, Engine!ApplyOk, Engine!Ready, EngineInv, Engine!TypeOK
<1>2. seen[l] \in {Unread, store} => seen'[l] \in {Unread, store}
    BY DEF Dependent, Remember, Known
<1>3. Rank[s] > 3 => "remove-wireguard-interface" \in attempted[l]
  <2>1. "remove-wireguard-interface" \in plan[l]
      BY <1>1 DEF RunInv, DisconnectSteps
  <2>2. \A t \in plan[l] \ attempted[l] : Rank[s] <= Rank[t]
      BY DEF Dependent, Engine!ApplyOk, Engine!Ready
  <2>3. Rank[s] \in Nat
      BY EngineAssumed DEF Engine!EngineAssumption, Steps
  <2> QED BY <2>1, <2>2, <2>3, RankFacts
<1> QED BY <1>1, <1>2, <1>3 DEF LoopInv, AllOff, Guarded

LEMMA LoopInvActs ==
    ASSUME EngineInv, HostTypeOK, StoreShape, RunInv, LoopInv, NEW l \in Launchers, Acts(l),
           \A k \in Launchers : k = l \/ (mode[k] = "off" /\ mode'[k] = "off")
    PROVE  LoopInv'
<1>1. ASSUME NEW ips \in SUBSET Endpoints, NEW withDNS \in BOOLEAN, StartConnect(l, ips, withDNS)
       PROVE  LoopInv'
  <2>1. mode[l] = "off" /\ mode'[l] = "connect" /\ attempted'[l] = {} /\ applied'[l] = {}
      BY <1>1 DEF StartConnect, Engine!Begin, EngineInv, Engine!TypeOK
  <2>2. ~Guarded
      BY <1>1 DEF StartConnect, Status, Guarded
  <2> QED BY <1>1, <2>1, <2>2 DEF StartConnect, LoopInv, AllOff, hostVars
<1>2. CASE StartDisconnect(l)
  <2>1. mode[l] = "off" /\ mode'[l] = "disconnect" /\ attempted'[l] = {} /\ seen'[l] = Unread
      BY <1>2 DEF StartDisconnect, Engine!Begin, EngineInv, Engine!TypeOK, HostTypeOK
  <2> QED BY <1>2, <2>1 DEF StartDisconnect, LoopInv, AllOff, Guarded, hostVars
<1>3. CASE ValidatePrerequisites(l)
    BY <1>3, ApplyKeepsLoopInv DEF ValidatePrerequisites, ConnectSteps, hostVars
<1>4. ASSUME NEW e \in Endpoints, AddRouteExclusion(l, e)
       PROVE  LoopInv'
    BY <1>4, TunnelAssumption, ApplyKeepsLoopInv DEF AddRouteExclusion, ConnectSteps
<1>5. ASSUME NEW p \in Pids, StartWSTunnel(l, p)
       PROVE  LoopInv'
    BY <1>5, TunnelAssumption, ApplyKeepsLoopInv DEF StartWSTunnel, ConnectSteps
<1>6. CASE CreateInterface(l)
    BY <1>6, TunnelAssumption, ApplyKeepsLoopInv DEF CreateInterface, ConnectSteps
<1>7. CASE ConfigureInterface(l)
    BY <1>7, ApplyKeepsLoopInv DEF ConfigureInterface, ConnectSteps, hostVars, LinkConfigured
<1>8. CASE ApplyClientRoutes(l)
    BY <1>8, TunnelAssumption, ApplyKeepsLoopInv DEF ApplyClientRoutes, ConnectSteps
<1>9. CASE ApplyDNS(l)
    BY <1>9, TunnelAssumption, ApplyKeepsLoopInv DEF ApplyDNS, ConnectSteps
<1>10. CASE StoreRuntimeState(l)
    BY <1>10, ApplyKeepsLoopInv DEF StoreRuntimeState, ConnectSteps, RecordOf
<1>11. CASE ReadRuntimeState(l)
  <2>1. /\ mode[l] = "disconnect" /\ mode' = mode /\ failed' = failed /\ disclosed' = disclosed
        /\ attempted'[l] = attempted[l] \cup {"read-runtime-state"} /\ seen'[l] = store
    <3>1. mode[l] = "disconnect"
        BY <1>11 DEF ReadRuntimeState, Engine!ApplyOk, Engine!Ready, RunInv, EngineInv, Engine!TypeOK, DisconnectSteps
    <3> QED BY <1>11, <3>1 DEF ReadRuntimeState, Engine!ApplyOk, EngineInv, Engine!TypeOK, HostTypeOK
  <2> QED BY <1>11, <2>1 DEF ReadRuntimeState, LoopInv, AllOff, Guarded, hostVars
<1>12. CASE RestoreDNS(l)
    BY <1>12, DependentKeepsLoopInv DEF RestoreDNS, DisconnectSteps
<1>13. CASE RemoveClientRoutes(l)
    BY <1>13, DependentKeepsLoopInv DEF RemoveClientRoutes, DisconnectSteps, ClientRoutesDeleted
<1>14. CASE RemoveInterface(l)
  <2>1. mode[l] = "disconnect" /\ mode' = mode /\ failed' = failed /\ disclosed' = disclosed
    <3>1. mode[l] = "disconnect"
        BY <1>14 DEF RemoveInterface, Dependent, Engine!ApplyOk, Engine!Ready, RunInv, EngineInv, Engine!TypeOK,
                 ConnectSteps, DisconnectSteps
    <3> QED BY <1>14, <3>1 DEF RemoveInterface, Dependent, Engine!ApplyOk
  <2>2. "remove-wireguard-interface" \notin attempted[l]
      BY <1>14 DEF RemoveInterface, Dependent, Engine!ApplyOk, Engine!Ready
  <2>3. clientRoutes' = {} \/ (clientRoutes' = clientRoutes /\ seen[l].file = "absent")
      BY <1>14 DEF RemoveInterface, LinkDeleted
  <2>4. Guarded /\ seen[l] \in {Unread, store} => seen[l].file # "absent"
      BY DEF Guarded, Unread, Absent
  <2> QED BY <2>1, <2>2, <2>3, <2>4 DEF LoopInv, AllOff
<1>15. CASE StopWSTunnel(l)
    BY <1>15, DependentKeepsLoopInv, RankFacts DEF StopWSTunnel, DisconnectSteps
<1>16. CASE RemoveRouteExclusions(l)
    BY <1>16, DependentKeepsLoopInv, RankFacts DEF RemoveRouteExclusions, DisconnectSteps
<1>17. CASE ClearRuntimeState(l)
  <2>1. /\ mode[l] = "disconnect" /\ mode' = mode /\ failed' = failed /\ disclosed' = disclosed
        /\ "remove-wireguard-interface" \in attempted[l]
    <3>1. mode[l] = "disconnect" /\ "remove-wireguard-interface" \in plan[l]
        BY <1>17 DEF ClearRuntimeState, Engine!ApplyOk, Engine!Ready, RunInv, EngineInv, Engine!TypeOK, DisconnectSteps
    <3>2. \A t \in plan[l] \ attempted[l] : Rank["clear-runtime-state"] <= Rank[t]
        BY <1>17 DEF ClearRuntimeState, Engine!ApplyOk, Engine!Ready
    <3> QED BY <1>17, <3>1, <3>2, RankFacts DEF ClearRuntimeState, Engine!ApplyOk
  <2> QED BY <1>17, <2>1 DEF ClearRuntimeState, LoopInv, AllOff
<1>18. ASSUME NEW s \in plan[l], StepFails(l, s)
       PROVE  LoopInv'
  <2>0. disclosed' = disclosed /\ s \in plan[l] \ attempted[l] /\ attempted'[l] = attempted[l] \cup {s}
        /\ failed'[l] = failed[l] \cup {s}
        /\ \A t \in plan[l] \ attempted[l] : Rank[s] <= Rank[t]
      BY <1>18 DEF StepFails, Engine!ApplyFail, Engine!Ready, EngineInv, Engine!TypeOK
  <2>1. CASE mode[l] = "connect"
    <3>1. mode'[l] = "rollback" /\ (s # "apply-client-routes" => clientRoutes' \subseteq clientRoutes)
        BY <1>18, <2>1, InterruptedTouches
           DEF StepFails, Engine!ApplyFail, Engine!ModeAfterError, EngineInv, Engine!TypeOK
    <3> QED BY <2>0, <2>1, <3>1 DEF LoopInv, AllOff
  <2>2. CASE mode[l] = "disconnect"
    <3>1. mode'[l] = "disconnect" /\ plan[l] = DisconnectSteps
        BY <1>18, <2>2 DEF StepFails, Engine!ApplyFail, Engine!ModeAfterError, EngineInv, Engine!TypeOK, RunInv
    <3>2. /\ clientRoutes' \subseteq clientRoutes /\ store' = store
          /\ s # "remove-endpoint-route-exclusions" => route' = route
        BY <1>18, <2>0, <3>1, InterruptedTouches DEF StepFails, DisconnectSteps
    <3>3. seen[l] \in {Unread, store} => seen'[l] \in {Unread, store}
        BY <1>18 DEF StepFails, Remember, Known, HostTypeOK
    <3>4. s = "remove-endpoint-route-exclusions" => "remove-wireguard-interface" \in attempted[l]
        BY <2>0, <3>1, RankFacts DEF DisconnectSteps
    <3> QED BY <2>0, <2>2, <3>1, <3>2, <3>3, <3>4 DEF LoopInv, AllOff, Guarded
  <2> QED BY <1>18, <2>1, <2>2 DEF StepFails, Engine!ApplyFail, Engine!Ready
<1>19. ASSUME NEW e \in Endpoints, UndoRouteExclusion(l, e)
       PROVE  LoopInv'
  <2>1. mode[l] = "rollback" /\ mode' = mode /\ attempted' = attempted /\ disclosed' = disclosed
      BY <1>19 DEF UndoRouteExclusion, Engine!UndoOk, Engine!UndoFail, Engine!ReadyToUndo
  <2>2. clientRoutes = {} => clientRoutes' = {}
      BY <1>19 DEF UndoRouteExclusion
  <2> QED BY <2>1, <2>2 DEF LoopInv, AllOff
<1>20. CASE UndoWSTunnel(l)
  <2>1. mode[l] = "rollback" /\ mode' = mode /\ attempted' = attempted /\ disclosed' = disclosed
      BY <1>20 DEF UndoWSTunnel, Engine!UndoOk, Engine!UndoFail, Engine!ReadyToUndo
  <2>2. clientRoutes = {} => clientRoutes' = {}
      BY <1>20 DEF UndoWSTunnel
  <2> QED BY <2>1, <2>2 DEF LoopInv, AllOff
<1>21. ASSUME NEW s \in applied[l], UndoInterface(l, s)
       PROVE  LoopInv'
  <2>1. mode[l] = "rollback" /\ mode' = mode /\ attempted' = attempted /\ disclosed' = disclosed
      BY <1>21 DEF UndoInterface, Engine!UndoOk, Engine!UndoFail, Engine!ReadyToUndo
  <2>2. clientRoutes = {} => clientRoutes' = {}
      BY <1>21 DEF UndoInterface, LinkDeleted
  <2> QED BY <2>1, <2>2 DEF LoopInv, AllOff
<1>22. CASE UndoClientRoutes(l)
  <2>1. mode[l] = "rollback" /\ mode' = mode /\ attempted' = attempted /\ disclosed' = disclosed
      BY <1>22 DEF UndoClientRoutes, Engine!UndoOk, Engine!UndoFail, Engine!ReadyToUndo
  <2>2. clientRoutes' \subseteq clientRoutes
      BY <1>22 DEF UndoClientRoutes, ClientRoutesPartlyDeleted, ClientRoutesDeleted
  <2> QED BY <2>1, <2>2 DEF LoopInv, AllOff
<1>23. CASE UndoDNS(l)
  <2>1. mode[l] = "rollback" /\ mode' = mode /\ attempted' = attempted /\ disclosed' = disclosed
      BY <1>23 DEF UndoDNS, Engine!UndoOk, Engine!UndoFail, Engine!ReadyToUndo
  <2>2. clientRoutes = {} => clientRoutes' = {}
      BY <1>23 DEF UndoDNS
  <2> QED BY <2>1, <2>2 DEF LoopInv, AllOff
<1>24. CASE Return(l)
  <2>0. mode'[l] = "off" /\ mode[l] # "off" /\ Engine!Exhausted(l) /\ UNCHANGED hostVars
        /\ disclosed' = ((disclosed \/ Engine!Verdict(l) = "FailedDirty") /\ ~Clean)
      BY <1>24 DEF Return, Engine!Return, Engine!Exhausted, EngineInv, Engine!TypeOK
  <2> SUFFICES ASSUME ~disclosed' PROVE clientRoutes = {} \/ Guarded
      BY <2>0 DEF LoopInv, AllOff, Guarded, hostVars
  <2>1. CASE Clean
      BY <2>1 DEF Clean
  <2> SUFFICES ASSUME ~Clean PROVE clientRoutes = {} \/ Guarded
      BY <2>1
  <2>2. ~disclosed /\ Engine!Verdict(l) # "FailedDirty"
      BY <2>0
  <2>3. CASE mode[l] = "connect"
    <3>1. plan[l] = applied[l] /\ undone[l] = {}
        BY <2>0, <2>3 DEF Engine!Exhausted, EngineInv, Engine!Bookkeeping
    <3>2. store.file = "whole" /\ store.endpoints \subseteq plan[l]
        BY <2>2, <2>3, <3>1 DEF LoopInv, AllOff, RunInv, ConnectSteps
    <3>3. \A e \in store.endpoints : route[e] = "own"
        BY <2>3, <3>1, <3>2 DEF RunInv, HostTypeOK, StateFile, ConnectSteps
    <3> QED BY <3>2, <3>3 DEF Guarded
  <2>4. CASE mode[l] = "rollback"
    <3>1. stuck[l] = {}
        BY <2>2, <2>4 DEF Engine!Verdict
    <3>2. applied[l] \cap Undoable \subseteq undone[l]
        BY <2>0, <2>4 DEF Engine!Exhausted, Engine!ToUndo
    <3>3. "create-wireguard-interface" \in applied[l] => ~link
        BY <2>4, <3>1, <3>2 DEF RunInv, Undoable, ConnectSteps
    <3> QED BY <2>2, <2>4, <3>3 DEF LoopInv, AllOff, RunInv, HostTypeOK
  <2>5. CASE mode[l] = "disconnect"
    <3>1. failed[l] = {}
        BY <2>2, <2>5 DEF Engine!Verdict
    <3>2. "remove-wireguard-interface" \in attempted[l]
        BY <2>0, <2>5 DEF Engine!Exhausted, RunInv, DisconnectSteps
    <3> QED BY <2>2, <2>5, <3>1, <3>2 DEF LoopInv, AllOff
  <2> QED BY <2>0, <2>3, <2>4, <2>5 DEF EngineInv, Engine!TypeOK, Engine!Modes
<1>25. CASE Kill(l)
  <2>1. mode'[l] = "off" /\ disclosed' = ~Clean'
      BY <1>25 DEF Kill, Engine!Kill, EngineInv, Engine!TypeOK
  <2> QED BY <2>1 DEF LoopInv, AllOff, Clean
<1> QED
    BY <1>1, <1>2, <1>3, <1>4, <1>5, <1>6, <1>7, <1>8, <1>9, <1>10, <1>11, <1>12, <1>13,
       <1>14, <1>15, <1>16, <1>17, <1>18, <1>19, <1>20, <1>21, <1>22, <1>23, <1>24, <1>25
       DEF Acts, Step

LEMMA LoopInvStep ==
    ASSUME OneAtATime, OneAtATime', EngineInv, HostTypeOK, StoreShape, RunInv, LoopInv, [Next]_vars
    PROVE  LoopInv'
<1>1. ASSUME NEW l \in Launchers, Acts(l)
       PROVE  LoopInv'
    BY <1>1, ActsAlone, LoopInvActs
<1>2. ASSUME NEW p \in Pids, ProcessChanges(p)
       PROVE  LoopInv'
    BY <1>2 DEF ProcessChanges, LoopInv, AllOff, Guarded, engineVars, memoryVars
<1>3. CASE UNCHANGED vars
    BY <1>3 DEF vars, engineVars, hostVars, memoryVars, LoopInv, AllOff, Guarded
<1> QED BY <1>1, <1>2, <1>3 DEF Next, Acts

LEMMA InitInvs == Init => StoreShape /\ RunInv /\ LoopInv
BY DEF Init, Engine!Init, StoreShape, RunInv, LoopInv, Absent

\* Client routes that are up were applied after every exclusion, and no exclusion
\* goes before the interface.
LEMMA LoopInvGivesNoLoop ==
    ASSUME OneAtATime, EngineInv, HostTypeOK, RunInv, LoopInv, ~disclosed, clientRoutes # {},
           \A l \in Launchers : /\ "remove-wireguard-interface" \notin failed[l]
                               /\ "create-wireguard-interface" \notin stuck[l]
    PROVE  \A e \in TunnelEndpoints : route[e] = "own"
<1>1. CASE AllOff
    BY <1>1 DEF AllOff, TunnelEndpoints, LoopInv, Guarded
<1>2. ASSUME NEW l \in Launchers, mode[l] # "off"
      PROVE  TunnelEndpoints = store.endpoints \cup (plan[l] \cap Endpoints) \cup seen[l].endpoints
  <2>1. {k \in Launchers : mode[k] # "off"} = {l}
    BY <1>2 DEF OneAtATime
  <2> QED BY <2>1 DEF TunnelEndpoints
<1>3. ASSUME NEW l \in Launchers, mode[l] \in {"connect", "rollback"}
      PROVE  \A e \in TunnelEndpoints : route[e] = "own"
  <2>1. "apply-client-routes" \in attempted[l]
      BY <1>3 DEF LoopInv
  <2>2. /\ plan[l] \cap Endpoints \subseteq applied[l]
        /\ "create-wireguard-interface" \in applied[l]
      BY <1>3, <2>1 DEF RunInv
  <2>3. undone[l] \cap Endpoints = {}
    <3> SUFFICES ASSUME NEW e \in Endpoints, e \in undone[l] PROVE FALSE
        OBVIOUS
    <3>1. "create-wireguard-interface" \in undone[l]
        BY <2>2, RankFacts DEF EngineInv, Engine!NewestUndoneFirst, Undoable, ConnectSteps
    <3>2. ~link
        BY <1>3, <3>1 DEF RunInv
    <3> QED BY <3>2 DEF HostTypeOK
  <2>4. TunnelEndpoints = plan[l] \cap Endpoints
    <3>1. store.endpoints \subseteq plan[l] \cap Endpoints
        BY <1>3 DEF RunInv, HostTypeOK, StateFile
    <3>2. seen[l].endpoints = {}
        BY <1>3 DEF RunInv, Unread, Absent
    <3> QED BY <1>2, <1>3, <3>1, <3>2
  <2> QED BY <1>3, <2>2, <2>3, <2>4 DEF RunInv
<1>4. ASSUME NEW l \in Launchers, mode[l] = "disconnect"
      PROVE  \A e \in TunnelEndpoints : route[e] = "own"
  <2>1. Guarded /\ seen[l] \in {Unread, store}
      BY <1>4 DEF LoopInv
  <2>2. plan[l] \cap Endpoints = {}
      BY <1>4, TunnelAssumption DEF RunInv
  <2>3. TunnelEndpoints \subseteq store.endpoints
      BY <1>2, <1>4, <2>1, <2>2 DEF Unread, Absent
  <2> QED BY <2>1, <2>3 DEF Guarded
<1> QED BY <1>1, <1>3, <1>4 DEF AllOff, EngineInv, Engine!TypeOK, Engine!Modes

\* "Never route the WSTunnel endpoint through WireGuard", for every number of
\* launchers, endpoints and client routes, as long as no two launchers run at once.
THEOREM NoLoopHolds == Spec /\ []OneAtATime => []NoLoop
<1>1. Init => StoreShape /\ RunInv /\ LoopInv
    BY InitInvs
<1>2. HostTypeOK /\ StoreShape /\ [Next]_vars => StoreShape'
    BY StoreShapeStep
<1>3. OneAtATime /\ OneAtATime' /\ EngineInv /\ HostTypeOK /\ StoreShape /\ RunInv /\ [Next]_vars => RunInv'
    BY RunInvStep
<1>4. OneAtATime /\ OneAtATime' /\ EngineInv /\ HostTypeOK /\ StoreShape /\ RunInv /\ LoopInv /\ [Next]_vars
        => LoopInv'
    BY LoopInvStep
<1>5. OneAtATime /\ EngineInv /\ HostTypeOK /\ RunInv /\ LoopInv => NoLoop
    BY LoopInvGivesNoLoop DEF NoLoop
<1> QED BY <1>1, <1>2, <1>3, <1>4, <1>5, EngineInvHolds, TypeCorrect, TypeOKParts, PTL DEF Spec

-------------------------------------------------------------------------------
\* What a connect builds

\* What each applied step of a connect left on the host and in memory.
ConnectInv ==
    \A l \in Launchers :
        mode[l] = "connect" =>
              /\ "create-wireguard-interface" \in applied[l] =>
                    link /\ ("apply-dns" \in attempted[l] \/ ~dns)
              /\ "apply-dns" \in applied[l] => dns
              /\ "apply-client-routes" \in applied[l] => clientRoutes = AllowedIPs
              /\ "start-wstunnel" \in applied[l] => handle[l] \in Pids
              /\ "store-runtime-state" \in applied[l] => store = RecordOf(l)

LEMMA InitConnectInv == Init => ConnectInv
BY DEF Init, Engine!Init, ConnectInv

LEMMA StoreIsLast == Rank["start-wstunnel"] < Rank["store-runtime-state"]
<1>1. Rank["start-wstunnel"] = 2
    BY TunnelAssumption DEF Rank, Steps, ConnectSteps, DisconnectSteps
<1>2. Rank["store-runtime-state"] = 8
    BY TunnelAssumption DEF Rank, Steps, ConnectSteps, DisconnectSteps
<1> QED BY <1>1, <1>2

LEMMA DisconnectWhileDisconnecting ==
    ASSUME EngineInv, RunInv, NEW l \in Launchers, NEW s \in DisconnectSteps, Engine!ApplyOk(l, s)
    PROVE  mode[l] = "disconnect" /\ mode' = mode
BY DEF Engine!ApplyOk, Engine!Ready, RunInv, EngineInv, Engine!TypeOK

LEMMA ConnectInvActs ==
    ASSUME EngineInv, HostTypeOK, RunInv, ConnectInv, NEW l \in Launchers, Acts(l),
           \A k \in Launchers : k = l \/ (mode[k] = "off" /\ mode'[k] = "off")
    PROVE  ConnectInv'
<1>1. ASSUME NEW ips \in SUBSET Endpoints, NEW withDNS \in BOOLEAN, StartConnect(l, ips, withDNS)
       PROVE  ConnectInv'
  <2>1. mode'[l] # "off" /\ applied'[l] = {}
      BY <1>1 DEF StartConnect, Engine!Begin, EngineInv, Engine!TypeOK
  <2> QED BY <2>1 DEF ConnectInv
<1>2. CASE StartDisconnect(l)
  <2>1. mode'[l] # "off" /\ applied'[l] = {}
      BY <1>2 DEF StartDisconnect, Engine!Begin, EngineInv, Engine!TypeOK
  <2> QED BY <2>1 DEF ConnectInv
<1>3. CASE ValidatePrerequisites(l)
    BY <1>3, TunnelAssumption, ApplyWhileConnecting
       DEF ValidatePrerequisites, ConnectInv, ConnectSteps, RecordOf, hostVars, memoryVars
<1>4. ASSUME NEW e \in Endpoints, AddRouteExclusion(l, e)
       PROVE  ConnectInv'
  <2>1. /\ mode[l] = "connect" /\ mode' = mode /\ plan' = plan
        /\ attempted'[l] = attempted[l] \cup {e} /\ applied'[l] = applied[l] \cup {e}
      BY <1>4, ApplyWhileConnecting DEF AddRouteExclusion
  <2>2. e \notin ConnectSteps /\ RecordOf(l)' = RecordOf(l)
      BY <1>4, <2>1, TunnelAssumption DEF AddRouteExclusion, RecordOf, memoryVars
  <2> QED BY <1>4, <2>1, <2>2 DEF AddRouteExclusion, ConnectInv, ConnectSteps, memoryVars
<1>5. ASSUME NEW p \in Pids, StartWSTunnel(l, p)
       PROVE  ConnectInv'
  <2>1. /\ mode[l] = "connect" /\ mode' = mode /\ plan' = plan
        /\ "start-wstunnel" \in plan[l] \ attempted[l]
        /\ attempted'[l] = attempted[l] \cup {"start-wstunnel"}
        /\ applied'[l] = applied[l] \cup {"start-wstunnel"}
      BY <1>5, ApplyWhileConnecting DEF StartWSTunnel, ConnectSteps
  <2>2. "store-runtime-state" \notin applied[l]
    <3>1. "store-runtime-state" \notin attempted[l]
        BY <2>1, StoreIsLast DEF EngineInv, Engine!TypeOK, Engine!InPlanOrder
    <3> QED BY <3>1 DEF EngineInv, Engine!Bookkeeping
  <2>3. handle'[l] \in Pids
      BY <1>5 DEF StartWSTunnel, HostTypeOK
  <2> QED BY <1>5, <2>1, <2>2, <2>3 DEF StartWSTunnel, ConnectInv
<1>6. CASE CreateInterface(l)
    BY <1>6, TunnelAssumption, ApplyWhileConnecting
       DEF CreateInterface, ConnectInv, ConnectSteps, HostTypeOK, RecordOf, memoryVars, LinkAdded
<1>7. CASE ConfigureInterface(l)
    BY <1>7, TunnelAssumption, ApplyWhileConnecting
       DEF ConfigureInterface, ConnectInv, ConnectSteps, RecordOf, hostVars, memoryVars, LinkConfigured
<1>8. CASE ApplyClientRoutes(l)
    BY <1>8, TunnelAssumption, ApplyWhileConnecting
       DEF ApplyClientRoutes, ConnectInv, ConnectSteps, RecordOf, memoryVars, ClientRoutesReplaced
<1>9. CASE ApplyDNS(l)
    BY <1>9, TunnelAssumption, ApplyWhileConnecting
       DEF ApplyDNS, ConnectInv, ConnectSteps, RecordOf, memoryVars, DNSSet
<1>10. CASE StoreRuntimeState(l)
  <2>1. /\ mode[l] = "connect" /\ mode' = mode /\ plan' = plan
        /\ attempted'[l] = attempted[l] \cup {"store-runtime-state"}
        /\ applied'[l] = applied[l] \cup {"store-runtime-state"}
      BY <1>10, ApplyWhileConnecting DEF StoreRuntimeState, ConnectSteps
  <2>2. store' = RecordOf(l)'
      BY <1>10, <2>1 DEF StoreRuntimeState, RecordOf, memoryVars
  <2> QED BY <1>10, <2>1, <2>2 DEF StoreRuntimeState, ConnectInv, memoryVars
<1>11. CASE ReadRuntimeState(l)
  <2>1. mode[l] = "disconnect" /\ mode' = mode
      BY <1>11, DisconnectWhileDisconnecting DEF ReadRuntimeState, DisconnectSteps
  <2> QED BY <2>1 DEF ConnectInv
<1>12. CASE RestoreDNS(l)
  <2>1. mode[l] = "disconnect" /\ mode' = mode
      BY <1>12, DisconnectWhileDisconnecting DEF RestoreDNS, Dependent, DisconnectSteps
  <2> QED BY <2>1 DEF ConnectInv
<1>13. CASE RemoveClientRoutes(l)
  <2>1. mode[l] = "disconnect" /\ mode' = mode
      BY <1>13, DisconnectWhileDisconnecting DEF RemoveClientRoutes, Dependent, DisconnectSteps
  <2> QED BY <2>1 DEF ConnectInv
<1>14. CASE RemoveInterface(l)
  <2>1. mode[l] = "disconnect" /\ mode' = mode
      BY <1>14, DisconnectWhileDisconnecting DEF RemoveInterface, Dependent, DisconnectSteps
  <2> QED BY <2>1 DEF ConnectInv
<1>15. CASE StopWSTunnel(l)
  <2>1. mode[l] = "disconnect" /\ mode' = mode
      BY <1>15, DisconnectWhileDisconnecting DEF StopWSTunnel, Dependent, DisconnectSteps
  <2> QED BY <2>1 DEF ConnectInv
<1>16. CASE RemoveRouteExclusions(l)
  <2>1. mode[l] = "disconnect" /\ mode' = mode
      BY <1>16, DisconnectWhileDisconnecting DEF RemoveRouteExclusions, Dependent, DisconnectSteps
  <2> QED BY <2>1 DEF ConnectInv
<1>17. CASE ClearRuntimeState(l)
  <2>1. mode[l] = "disconnect" /\ mode' = mode
      BY <1>17, DisconnectWhileDisconnecting DEF ClearRuntimeState, DisconnectSteps
  <2> QED BY <2>1 DEF ConnectInv
<1>18. ASSUME NEW s \in plan[l], StepFails(l, s)
       PROVE  ConnectInv'
  <2>1. mode'[l] \in {"rollback", "disconnect"}
      BY <1>18 DEF StepFails, Engine!ApplyFail, Engine!Ready, Engine!ModeAfterError, EngineInv, Engine!TypeOK
  <2> QED BY <2>1 DEF ConnectInv
<1>19. ASSUME NEW e \in Endpoints, UndoRouteExclusion(l, e)
       PROVE  ConnectInv'
  <2>1. mode[l] = "rollback" /\ mode' = mode
      BY <1>19 DEF UndoRouteExclusion, Engine!UndoOk, Engine!UndoFail, Engine!ReadyToUndo
  <2> QED BY <2>1 DEF ConnectInv
<1>20. CASE UndoWSTunnel(l)
  <2>1. mode[l] = "rollback" /\ mode' = mode
      BY <1>20 DEF UndoWSTunnel, Engine!UndoOk, Engine!UndoFail, Engine!ReadyToUndo
  <2> QED BY <2>1 DEF ConnectInv
<1>21. ASSUME NEW s \in applied[l], UndoInterface(l, s)
       PROVE  ConnectInv'
  <2>1. mode[l] = "rollback" /\ mode' = mode
      BY <1>21 DEF UndoInterface, Engine!UndoOk, Engine!UndoFail, Engine!ReadyToUndo
  <2> QED BY <2>1 DEF ConnectInv
<1>22. CASE UndoClientRoutes(l)
  <2>1. mode[l] = "rollback" /\ mode' = mode
      BY <1>22 DEF UndoClientRoutes, Engine!UndoOk, Engine!UndoFail, Engine!ReadyToUndo
  <2> QED BY <2>1 DEF ConnectInv
<1>23. CASE UndoDNS(l)
  <2>1. mode[l] = "rollback" /\ mode' = mode
      BY <1>23 DEF UndoDNS, Engine!UndoOk, Engine!UndoFail, Engine!ReadyToUndo
  <2> QED BY <2>1 DEF ConnectInv
<1>24. CASE Return(l)
  <2>1. mode'[l] = "off"
      BY <1>24 DEF Return, Engine!Return, EngineInv, Engine!TypeOK
  <2> QED BY <2>1 DEF ConnectInv
<1>25. CASE Kill(l)
  <2>1. mode'[l] = "off" /\ outcome'[l] = "Killed"
      BY <1>25 DEF Kill, Engine!Kill, EngineInv, Engine!TypeOK
  <2> QED BY <2>1 DEF ConnectInv
<1> QED
    BY <1>1, <1>2, <1>3, <1>4, <1>5, <1>6, <1>7, <1>8, <1>9, <1>10, <1>11, <1>12, <1>13,
       <1>14, <1>15, <1>16, <1>17, <1>18, <1>19, <1>20, <1>21, <1>22, <1>23, <1>24, <1>25
       DEF Acts, Step

LEMMA ConnectInvStep ==
    ASSUME OneAtATime, OneAtATime', EngineInv, HostTypeOK, RunInv, ConnectInv, [Next]_vars
    PROVE  ConnectInv'
<1>1. ASSUME NEW l \in Launchers, Acts(l)
       PROVE  ConnectInv'
    BY <1>1, ActsAlone, ConnectInvActs
<1>2. ASSUME NEW p \in Pids, ProcessChanges(p)
       PROVE  ConnectInv'
    BY <1>2 DEF ProcessChanges, ConnectInv, Up, RecordOf, engineVars, memoryVars
<1>3. CASE UNCHANGED vars
    BY <1>3 DEF vars, engineVars, hostVars, memoryVars, ConnectInv, Up, RecordOf
<1> QED BY <1>1, <1>2, <1>3 DEF Next, Acts

\* What a connect that comes to its end has built.
LEMMA BuiltAtTheEnd ==
    ASSUME EngineInv, HostTypeOK, RunInv, ConnectInv, NEW l \in Launchers,
           mode[l] = "connect", Engine!Exhausted(l)
    PROVE  /\ plan[l] = applied[l] /\ undone[l] = {}
           /\ store.file = "whole" /\ store.endpoints = plan[l] \cap Endpoints
           /\ store.pid = handle[l] /\ handle[l] # NoPid /\ Up
<1>1. plan[l] = applied[l] /\ undone[l] = {} /\ attempted[l] = applied[l]
    BY DEF Engine!Exhausted, EngineInv, Engine!Bookkeeping
<1>2. ConnectSteps \ {"apply-dns"} \subseteq applied[l]
    BY <1>1 DEF RunInv
<1>3. /\ link /\ clientRoutes = AllowedIPs /\ handle[l] \in Pids /\ store = RecordOf(l)
      /\ "apply-dns" \in applied[l] \/ ~dns
      /\ "apply-dns" \in applied[l] => dns
    BY <1>1, <1>2 DEF ConnectInv, ConnectSteps
<1>4. store.endpoints = plan[l] \cap Endpoints /\ \A e \in store.endpoints : route[e] = "own"
    BY <1>1, <1>2, <1>3 DEF RunInv, RecordOf, ConnectSteps
<1>5. store.file = "whole" /\ store.pid = handle[l] /\ handle[l] # NoPid
    BY <1>3, TunnelAssumption DEF RecordOf
<1>6. dns = store.dns
  <2>1. store.dns = ("apply-dns" \in applied[l])
      BY <1>1, <1>3 DEF RecordOf
  <2>2. CASE "apply-dns" \in applied[l]
      BY <1>3, <2>1, <2>2 DEF HostTypeOK
  <2>3. CASE "apply-dns" \notin applied[l]
      BY <1>3, <2>1, <2>3 DEF HostTypeOK
  <2> QED BY <2>2, <2>3
<1> QED BY <1>1, <1>3, <1>4, <1>5, <1>6 DEF Up

-------------------------------------------------------------------------------
\* What is on the host, and what accounts for it


\* A record names its wstunnel.
PidKnown == store.file = "whole" => store.pid # NoPid

\* What the disconnect of l read and removed: the postcondition of its Idle.
Removed(l) ==
    /\ store.file = "absent"
    /\ ~link
    /\ \A e \in seen[l].endpoints : route[e] = "none"
    /\ seen[l].pid \in Pids => process[seen[l].pid] # "wstunnel"

\* What each applied step of a disconnect that read a record has removed.
EndInv ==
    \A l \in Launchers :
        mode[l] = "disconnect" /\ "read-runtime-state" \in applied[l] =>
              /\ seen[l].file \in {"absent", "whole"}
              /\ "clear-runtime-state" \in applied[l] => store.file = "absent"
              /\ seen[l].file = "whole" =>
                    /\ "remove-wireguard-interface" \in applied[l] => ~link
                    /\ "remove-endpoint-route-exclusions" \in applied[l] =>
                          \A e \in seen[l].endpoints : route[e] = "none"
                    /\ "stop-wstunnel" \in applied[l] =>
                          (seen[l].pid \in Pids => process[seen[l].pid] # "wstunnel")

\* The record r accounts for every route and every process of the launcher's.
Listed(r) ==
    /\ r.file = "whole"
    /\ \A e \in Endpoints : route[e] \in {"none", "host"} \/ e \in r.endpoints
    /\ \A p \in Pids : process[p] # "wstunnel" \/ p = r.pid

\* The record a disconnect works from.
Worked(l) == IF "read-runtime-state" \in applied[l] THEN seen[l] ELSE store

\* The steps of a connect that are in effect: applied, and not undone in full.
Standing(l) == applied[l] \ (undone[l] \ stuck[l])

\* While nothing is disclosed, all that is on the host is accounted for: by the
\* record between runs, by its standing steps during a connect and its rollback,
\* by the record that was read during a disconnect.
Accounted ==
    ~disclosed =>
        /\ AllOff => Clean \/ (Listed(store) /\ Up)
        /\ \A l \in Launchers :
              /\ mode[l] \in {"connect", "rollback"} =>
                    /\ \A e \in Endpoints : route[e] \in {"none", "host"} \/ e \in Standing(l)
                    /\ \A p \in Pids :
                          process[p] = "wstunnel" => p = handle[l] /\ "start-wstunnel" \in applied[l] \ undone[l]
                    /\ link => "create-wireguard-interface" \in Standing(l)
              /\ mode[l] = "disconnect" /\ failed[l] = {} => Clean \/ Listed(Worked(l))

-------------------------------------------------------------------------------
\* Lemmas about the runs

\* A step of a disconnect comes after the reading of the record.
LEMMA ReadComesFirst ==
    ASSUME EngineInv, RunInv, NEW l \in Launchers, mode[l] = "disconnect",
           NEW s \in DisconnectSteps \ {"read-runtime-state"}, Engine!Ready(l, s)
    PROVE  /\ "read-runtime-state" \in attempted[l]
           /\ failed[l] = {} => "read-runtime-state" \in applied[l]
<1>1. Rank["read-runtime-state"] = 0
    BY TunnelAssumption DEF Rank, Steps, ConnectSteps, DisconnectSteps
<1>2. Rank["restore-dns"] = 1 /\ Rank["remove-client-routes"] = 2
    BY TunnelAssumption DEF Rank, Steps, ConnectSteps, DisconnectSteps
<1>3. Rank[s] # 0 /\ Rank[s] \in Nat
    BY <1>2, RankFacts DEF DisconnectSteps
<1>4. "read-runtime-state" \in plan[l]
    BY DEF RunInv, DisconnectSteps
<1>5. "read-runtime-state" \in attempted[l]
    BY <1>1, <1>3, <1>4 DEF Engine!Ready
<1> QED BY <1>5 DEF EngineInv, Engine!Bookkeeping

\* A step of a disconnect whose Apply returned nil.
LEMMA ApplyWhileDisconnecting ==
    ASSUME EngineInv, RunInv, NEW l \in Launchers, NEW s \in DisconnectSteps, Engine!ApplyOk(l, s)
    PROVE  /\ mode[l] = "disconnect" /\ mode' = mode /\ failed' = failed /\ outcome' = outcome
           /\ plan[l] = DisconnectSteps /\ s \notin attempted[l] /\ s \notin applied[l]
           /\ applied'[l] = applied[l] \cup {s}
           /\ s # "read-runtime-state" /\ failed[l] = {} => "read-runtime-state" \in applied[l]
<1>1. mode[l] = "disconnect" /\ mode' = mode
    BY DisconnectWhileDisconnecting
<1>2. s \notin attempted[l] /\ s \notin applied[l]
    BY DEF Engine!ApplyOk, Engine!Ready, EngineInv, Engine!Bookkeeping
<1>3. s # "read-runtime-state" /\ failed[l] = {} => "read-runtime-state" \in applied[l]
    BY <1>1, ReadComesFirst DEF Engine!ApplyOk
<1> QED BY <1>1, <1>2, <1>3 DEF Engine!ApplyOk, EngineInv, Engine!TypeOK, RunInv

\* What was read is what the rest of the disconnect knows and remembers.
LEMMA WhatWasReadIsKnown ==
    ASSUME HostTypeOK, EndInv, NEW l \in Launchers, mode[l] = "disconnect",
           "read-runtime-state" \in applied[l]
    PROVE  Known(l) = seen[l] /\ (Remember(l) => seen' = seen)
<1>1. seen[l].file \in {"absent", "whole"}
    BY DEF EndInv
<1>2. Known(l) = seen[l]
    BY <1>1 DEF Known
<1> QED BY <1>1, <1>2 DEF Remember, HostTypeOK

\* When a record is written, its process was started.
LEMMA RecordNamesProcess ==
    ASSUME EngineInv, RunInv, ConnectInv, NEW l \in Launchers,
           Engine!Ready(l, "store-runtime-state")
    PROVE  RecordOf(l).pid # NoPid
<1>1. mode[l] = "connect" /\ failed[l] = {}
    BY DEF Engine!Ready, RunInv, DisconnectSteps, EngineInv, Engine!Bookkeeping
<1>2. "start-wstunnel" \in plan[l]
    BY <1>1 DEF RunInv, ConnectSteps
<1>3. Rank["start-wstunnel"] = 2 /\ Rank["store-runtime-state"] = 8
    BY TunnelAssumption DEF Rank, Steps, ConnectSteps, DisconnectSteps
<1>4. "start-wstunnel" \in attempted[l]
    BY <1>2, <1>3 DEF Engine!Ready
<1>5. "start-wstunnel" \in applied[l]
    BY <1>1, <1>4 DEF EngineInv, Engine!Bookkeeping
<1> QED BY <1>1, <1>5, TunnelAssumption DEF ConnectInv, RecordOf

LEMMA PidKnownActs ==
    ASSUME EngineInv, HostTypeOK, RunInv, ConnectInv, PidKnown, NEW l \in Launchers, Acts(l),
           \A k \in Launchers : k = l \/ (mode[k] = "off" /\ mode'[k] = "off")
    PROVE  PidKnown'
<1>1. ASSUME NEW ips \in SUBSET Endpoints, NEW withDNS \in BOOLEAN, StartConnect(l, ips, withDNS)
       PROVE  PidKnown'
    BY <1>1 DEF StartConnect, PidKnown, hostVars
<1>2. CASE StartDisconnect(l)
    BY <1>2 DEF StartDisconnect, PidKnown, hostVars
<1>3. CASE ValidatePrerequisites(l)
    BY <1>3 DEF ValidatePrerequisites, PidKnown, hostVars
<1>4. ASSUME NEW e \in Endpoints, AddRouteExclusion(l, e)
       PROVE  PidKnown'
    BY <1>4 DEF AddRouteExclusion, PidKnown, hostVars
<1>5. ASSUME NEW p \in Pids, StartWSTunnel(l, p)
       PROVE  PidKnown'
    BY <1>5 DEF StartWSTunnel, PidKnown, hostVars
<1>6. CASE CreateInterface(l)
    BY <1>6 DEF CreateInterface, PidKnown, hostVars
<1>7. CASE ConfigureInterface(l)
    BY <1>7 DEF ConfigureInterface, PidKnown, hostVars, LinkConfigured
<1>8. CASE ApplyClientRoutes(l)
    BY <1>8 DEF ApplyClientRoutes, PidKnown, hostVars
<1>9. CASE ApplyDNS(l)
    BY <1>9 DEF ApplyDNS, PidKnown, hostVars
<1>10. CASE StoreRuntimeState(l)
    BY <1>10, RecordNamesProcess DEF StoreRuntimeState, PidKnown, Engine!ApplyOk
<1>11. CASE ReadRuntimeState(l)
    BY <1>11 DEF ReadRuntimeState, PidKnown, hostVars
<1>12. CASE RestoreDNS(l)
    BY <1>12 DEF RestoreDNS, PidKnown, hostVars, Dependent
<1>13. CASE RemoveClientRoutes(l)
    BY <1>13 DEF RemoveClientRoutes, PidKnown, hostVars, Dependent
<1>14. CASE RemoveInterface(l)
    BY <1>14 DEF RemoveInterface, PidKnown, hostVars, Dependent
<1>15. CASE StopWSTunnel(l)
    BY <1>15 DEF StopWSTunnel, PidKnown, hostVars, Dependent
<1>16. CASE RemoveRouteExclusions(l)
    BY <1>16 DEF RemoveRouteExclusions, PidKnown, hostVars, Dependent
<1>17. CASE ClearRuntimeState(l)
    BY <1>17 DEF ClearRuntimeState, PidKnown, Absent
<1>18. ASSUME NEW s \in plan[l], StepFails(l, s)
       PROVE  PidKnown'
  <2>1. \/ store' \in {store, Torn}
        \/ s = "store-runtime-state" /\ store' = RecordOf(l)
      BY <1>18, InterruptedTouches DEF StepFails
  <2> QED BY <1>18, <2>1, RecordNamesProcess DEF StepFails, Engine!ApplyFail, PidKnown, Torn, Absent
<1>19. ASSUME NEW e \in Endpoints, UndoRouteExclusion(l, e)
       PROVE  PidKnown'
    BY <1>19 DEF UndoRouteExclusion, PidKnown, hostVars
<1>20. CASE UndoWSTunnel(l)
    BY <1>20 DEF UndoWSTunnel, PidKnown, hostVars
<1>21. ASSUME NEW s \in applied[l], UndoInterface(l, s)
       PROVE  PidKnown'
    BY <1>21 DEF UndoInterface, PidKnown, hostVars
<1>22. CASE UndoClientRoutes(l)
    BY <1>22 DEF UndoClientRoutes, PidKnown, hostVars, ClientRoutesPartlyDeleted
<1>23. CASE UndoDNS(l)
    BY <1>23 DEF UndoDNS, PidKnown, hostVars
<1>24. CASE Return(l)
    BY <1>24 DEF Return, PidKnown, hostVars
<1>25. CASE Kill(l)
  <2>1. CASE UNCHANGED hostVars
      BY <2>1 DEF hostVars, PidKnown
  <2>2. ASSUME NEW s \in plan[l], Engine!Ready(l, s), ApplyInterrupted(l, s)
         PROVE  PidKnown'
    <3>1. \/ store' \in {store, Torn}
          \/ s = "store-runtime-state" /\ store' = RecordOf(l)
        BY <2>2, InterruptedTouches
    <3> QED BY <2>2, <3>1, RecordNamesProcess DEF PidKnown, Torn, Absent
  <2>3. CASE ClientRoutesPartlyDeleted
      BY <2>3 DEF ClientRoutesPartlyDeleted, PidKnown
  <2> QED BY <1>25, <2>1, <2>2, <2>3 DEF Kill, DiesInside
<1> QED
    BY <1>1, <1>2, <1>3, <1>4, <1>5, <1>6, <1>7, <1>8, <1>9, <1>10, <1>11, <1>12, <1>13,
       <1>14, <1>15, <1>16, <1>17, <1>18, <1>19, <1>20, <1>21, <1>22, <1>23, <1>24, <1>25
       DEF Acts, Step

LEMMA PidKnownStep ==
    ASSUME OneAtATime, OneAtATime', EngineInv, HostTypeOK, RunInv, ConnectInv, PidKnown, [Next]_vars
    PROVE  PidKnown'
<1>1. ASSUME NEW l \in Launchers, Acts(l)
       PROVE  PidKnown'
    BY <1>1, ActsAlone, PidKnownActs
<1>2. ASSUME NEW p \in Pids, ProcessChanges(p)
       PROVE  PidKnown'
    BY <1>2 DEF ProcessChanges, PidKnown
<1>3. CASE UNCHANGED vars
    BY <1>3 DEF vars, hostVars, PidKnown
<1> QED BY <1>1, <1>2, <1>3 DEF Next, Acts

-------------------------------------------------------------------------------
\* What a disconnect removes

\* Nothing is attempted before the reading of the record.
LEMMA NothingBeforeRead ==
    ASSUME EngineInv, RunInv, NEW l \in Launchers, mode[l] = "disconnect",
           "read-runtime-state" \notin attempted[l]
    PROVE  attempted[l] = {}
<1> SUFFICES ASSUME NEW s \in attempted[l] PROVE FALSE
    OBVIOUS
<1>1. plan[l] = DisconnectSteps /\ s \in DisconnectSteps \ {"read-runtime-state"}
    BY DEF RunInv, EngineInv, Engine!Bookkeeping
<1>2. Rank["read-runtime-state"] = 0
    BY TunnelAssumption DEF Rank, Steps, ConnectSteps, DisconnectSteps
<1>3. Rank["restore-dns"] = 1 /\ Rank["remove-client-routes"] = 2
    BY TunnelAssumption DEF Rank, Steps, ConnectSteps, DisconnectSteps
<1>4. Rank["read-runtime-state"] < Rank[s]
    BY <1>1, <1>2, <1>3, RankFacts DEF DisconnectSteps
<1>5. "read-runtime-state" \in plan[l]
    BY <1>1 DEF DisconnectSteps
<1> QED BY <1>4, <1>5 DEF EngineInv, Engine!InPlanOrder

LEMMA EndInvActs ==
    ASSUME EngineInv, HostTypeOK, RunInv, EndInv, NEW l \in Launchers, Acts(l),
           \A k \in Launchers : k = l \/ (mode[k] = "off" /\ mode'[k] = "off")
    PROVE  EndInv'
<1>1. ASSUME NEW ips \in SUBSET Endpoints, NEW withDNS \in BOOLEAN, StartConnect(l, ips, withDNS)
       PROVE  EndInv'
  <2>1. mode'[l] # "off" /\ applied'[l] = {}
      BY <1>1 DEF StartConnect, Engine!Begin, EngineInv, Engine!TypeOK
  <2> QED BY <2>1 DEF EndInv
<1>2. CASE StartDisconnect(l)
  <2>1. mode'[l] # "off" /\ applied'[l] = {}
      BY <1>2 DEF StartDisconnect, Engine!Begin, EngineInv, Engine!TypeOK
  <2> QED BY <2>1 DEF EndInv
<1>3. CASE ValidatePrerequisites(l)
  <2>1. mode[l] = "connect" /\ mode' = mode
      BY <1>3, ApplyWhileConnecting DEF ValidatePrerequisites, ConnectSteps
  <2> QED BY <2>1 DEF EndInv
<1>4. ASSUME NEW e \in Endpoints, AddRouteExclusion(l, e)
       PROVE  EndInv'
  <2>1. mode[l] = "connect" /\ mode' = mode
      BY <1>4, ApplyWhileConnecting DEF AddRouteExclusion
  <2> QED BY <2>1 DEF EndInv
<1>5. ASSUME NEW p \in Pids, StartWSTunnel(l, p)
       PROVE  EndInv'
  <2>1. mode[l] = "connect" /\ mode' = mode
      BY <1>5, ApplyWhileConnecting DEF StartWSTunnel, ConnectSteps
  <2> QED BY <2>1 DEF EndInv
<1>6. CASE CreateInterface(l)
  <2>1. mode[l] = "connect" /\ mode' = mode
      BY <1>6, ApplyWhileConnecting DEF CreateInterface, ConnectSteps
  <2> QED BY <2>1 DEF EndInv
<1>7. CASE ConfigureInterface(l)
  <2>1. mode[l] = "connect" /\ mode' = mode
      BY <1>7, ApplyWhileConnecting DEF ConfigureInterface, ConnectSteps
  <2> QED BY <2>1 DEF EndInv
<1>8. CASE ApplyClientRoutes(l)
  <2>1. mode[l] = "connect" /\ mode' = mode
      BY <1>8, ApplyWhileConnecting DEF ApplyClientRoutes, ConnectSteps
  <2> QED BY <2>1 DEF EndInv
<1>9. CASE ApplyDNS(l)
  <2>1. mode[l] = "connect" /\ mode' = mode
      BY <1>9, ApplyWhileConnecting DEF ApplyDNS, ConnectSteps
  <2> QED BY <2>1 DEF EndInv
<1>10. CASE StoreRuntimeState(l)
  <2>1. mode[l] = "connect" /\ mode' = mode
      BY <1>10, ApplyWhileConnecting DEF StoreRuntimeState, ConnectSteps
  <2> QED BY <2>1 DEF EndInv
<1>11. CASE ReadRuntimeState(l)
  <2>1. /\ mode[l] = "disconnect" /\ mode' = mode /\ attempted[l] = {} /\ applied'[l] = {"read-runtime-state"}
    <3>1. /\ mode[l] = "disconnect" /\ mode' = mode /\ plan[l] = DisconnectSteps
          /\ "read-runtime-state" \notin attempted[l]
          /\ applied'[l] = applied[l] \cup {"read-runtime-state"}
        BY <1>11, ApplyWhileDisconnecting DEF ReadRuntimeState, DisconnectSteps
    <3>2. attempted[l] = {}
        BY <3>1, NothingBeforeRead
    <3> QED BY <3>1, <3>2 DEF EngineInv, Engine!Bookkeeping
  <2>2. seen'[l] = store /\ store.file \in {"absent", "whole"}
      BY <1>11 DEF ReadRuntimeState, HostTypeOK, StateFile
  <2> QED BY <2>1, <2>2 DEF EndInv
<1>12. CASE RestoreDNS(l)
  <2>1. /\ mode[l] = "disconnect" /\ mode' = mode
        /\ applied'[l] = applied[l] \cup {"restore-dns"}
      BY <1>12, ApplyWhileDisconnecting DEF RestoreDNS, Dependent, DisconnectSteps
  <2> SUFFICES ASSUME "read-runtime-state" \in applied[l] PROVE EndInv'
      BY <2>1 DEF EndInv
  <2>2. Known(l) = seen[l] /\ seen' = seen /\ store' = store
      BY <1>12, <2>1, WhatWasReadIsKnown DEF RestoreDNS, Dependent
  <2> QED BY <1>12, <2>1, <2>2 DEF RestoreDNS, EndInv
<1>13. CASE RemoveClientRoutes(l)
  <2>1. /\ mode[l] = "disconnect" /\ mode' = mode
        /\ applied'[l] = applied[l] \cup {"remove-client-routes"}
      BY <1>13, ApplyWhileDisconnecting DEF RemoveClientRoutes, Dependent, DisconnectSteps
  <2> SUFFICES ASSUME "read-runtime-state" \in applied[l] PROVE EndInv'
      BY <2>1 DEF EndInv
  <2>2. Known(l) = seen[l] /\ seen' = seen /\ store' = store
      BY <1>13, <2>1, WhatWasReadIsKnown DEF RemoveClientRoutes, Dependent
  <2> QED BY <1>13, <2>1, <2>2 DEF RemoveClientRoutes, EndInv
<1>14. CASE RemoveInterface(l)
  <2>1. /\ mode[l] = "disconnect" /\ mode' = mode
        /\ applied'[l] = applied[l] \cup {"remove-wireguard-interface"}
      BY <1>14, ApplyWhileDisconnecting DEF RemoveInterface, Dependent, DisconnectSteps
  <2> SUFFICES ASSUME "read-runtime-state" \in applied[l] PROVE EndInv'
      BY <2>1 DEF EndInv
  <2>2. Known(l) = seen[l] /\ seen' = seen /\ store' = store
      BY <1>14, <2>1, WhatWasReadIsKnown DEF RemoveInterface, Dependent
  <2>3. /\ process' = process
        /\ \A e \in Endpoints : route[e] = "none" => route'[e] = "none"
        /\ seen[l].file = "whole" => ~link'
      BY <1>14 DEF RemoveInterface, LinkDeleted
  <2>4. seen[l].file = "whole" => seen[l].endpoints \subseteq Endpoints
      BY DEF HostTypeOK, StateFile, Unread, Absent
  <2> QED BY <2>1, <2>2, <2>3, <2>4 DEF EndInv
<1>15. CASE StopWSTunnel(l)
  <2>1. /\ mode[l] = "disconnect" /\ mode' = mode
        /\ applied'[l] = applied[l] \cup {"stop-wstunnel"}
      BY <1>15, ApplyWhileDisconnecting DEF StopWSTunnel, Dependent, DisconnectSteps
  <2> SUFFICES ASSUME "read-runtime-state" \in applied[l] PROVE EndInv'
      BY <2>1 DEF EndInv
  <2>2. Known(l) = seen[l] /\ seen' = seen /\ store' = store
      BY <1>15, <2>1, WhatWasReadIsKnown DEF StopWSTunnel, Dependent
  <2>3. /\ link' = link /\ route' = route
        /\ seen[l].pid \in Pids => process'[seen[l].pid] # "wstunnel"
      BY <1>15, <2>2 DEF StopWSTunnel, StopRecorded
  <2> QED BY <2>1, <2>2, <2>3 DEF EndInv
<1>16. CASE RemoveRouteExclusions(l)
  <2>1. /\ mode[l] = "disconnect" /\ mode' = mode
        /\ applied'[l] = applied[l] \cup {"remove-endpoint-route-exclusions"}
      BY <1>16, ApplyWhileDisconnecting DEF RemoveRouteExclusions, Dependent, DisconnectSteps
  <2> SUFFICES ASSUME "read-runtime-state" \in applied[l] PROVE EndInv'
      BY <2>1 DEF EndInv
  <2>2. Known(l) = seen[l] /\ seen' = seen /\ store' = store
      BY <1>16, <2>1, WhatWasReadIsKnown DEF RemoveRouteExclusions, Dependent
  <2>3. /\ link' = link /\ process' = process
        /\ seen[l].file = "whole" => \A e \in seen[l].endpoints : route'[e] = "none"
    <3>1. seen[l].file = "whole" => seen[l].endpoints \subseteq Endpoints
        BY DEF HostTypeOK, StateFile, Unread, Absent
    <3> QED BY <1>16, <2>2, <3>1 DEF RemoveRouteExclusions, DeleteRoutes
  <2> QED BY <2>1, <2>2, <2>3 DEF EndInv
<1>17. CASE ClearRuntimeState(l)
  <2>1. /\ mode[l] = "disconnect" /\ mode' = mode
        /\ applied'[l] = applied[l] \cup {"clear-runtime-state"}
      BY <1>17, ApplyWhileDisconnecting DEF ClearRuntimeState, DisconnectSteps
  <2> QED BY <1>17, <2>1 DEF ClearRuntimeState, EndInv, Absent, memoryVars
<1>18. ASSUME NEW s \in plan[l], StepFails(l, s)
       PROVE  EndInv'
  <2>1. CASE mode[l] = "connect"
    <3>1. mode'[l] = "rollback"
        BY <1>18, <2>1 DEF StepFails, Engine!ApplyFail, Engine!ModeAfterError, EngineInv, Engine!TypeOK
    <3> QED BY <3>1 DEF EndInv
  <2>2. CASE mode[l] = "disconnect"
    <3>1. /\ mode' = mode /\ applied' = applied /\ s \in DisconnectSteps \ attempted[l]
        BY <1>18, <2>2 DEF StepFails, Engine!ApplyFail, Engine!Ready, Engine!ModeAfterError, EngineInv, Engine!TypeOK, RunInv
    <3> SUFFICES ASSUME "read-runtime-state" \in applied[l] PROVE EndInv'
        BY <2>2, <3>1 DEF EndInv
    <3>2. seen' = seen
        BY <1>18, <2>2, WhatWasReadIsKnown DEF StepFails
    <3>3. s \notin applied[l] /\ s # "store-runtime-state"
        BY <3>1 DEF EngineInv, Engine!Bookkeeping, DisconnectSteps
    <3>4. /\ link' = link /\ store' = store /\ process' = process
          /\ s # "remove-endpoint-route-exclusions" => route' = route
        BY <1>18, <3>3, InterruptedTouches, InterruptedKeepsType DEF StepFails
    <3> QED BY <2>2, <3>1, <3>2, <3>3, <3>4 DEF EndInv
  <2> QED BY <1>18, <2>1, <2>2 DEF StepFails, Engine!ApplyFail, Engine!Ready
<1>19. ASSUME NEW e \in Endpoints, UndoRouteExclusion(l, e)
       PROVE  EndInv'
  <2>1. mode[l] = "rollback" /\ mode' = mode
      BY <1>19 DEF UndoRouteExclusion, Engine!UndoOk, Engine!UndoFail, Engine!ReadyToUndo
  <2> QED BY <2>1 DEF EndInv
<1>20. CASE UndoWSTunnel(l)
  <2>1. mode[l] = "rollback" /\ mode' = mode
      BY <1>20 DEF UndoWSTunnel, Engine!UndoOk, Engine!UndoFail, Engine!ReadyToUndo
  <2> QED BY <2>1 DEF EndInv
<1>21. ASSUME NEW s \in applied[l], UndoInterface(l, s)
       PROVE  EndInv'
  <2>1. mode[l] = "rollback" /\ mode' = mode
      BY <1>21 DEF UndoInterface, Engine!UndoOk, Engine!UndoFail, Engine!ReadyToUndo
  <2> QED BY <2>1 DEF EndInv
<1>22. CASE UndoClientRoutes(l)
  <2>1. mode[l] = "rollback" /\ mode' = mode
      BY <1>22 DEF UndoClientRoutes, Engine!UndoOk, Engine!UndoFail, Engine!ReadyToUndo
  <2> QED BY <2>1 DEF EndInv
<1>23. CASE UndoDNS(l)
  <2>1. mode[l] = "rollback" /\ mode' = mode
      BY <1>23 DEF UndoDNS, Engine!UndoOk, Engine!UndoFail, Engine!ReadyToUndo
  <2> QED BY <2>1 DEF EndInv
<1>24. CASE Return(l)
  <2>1. mode'[l] = "off"
      BY <1>24 DEF Return, Engine!Return, EngineInv, Engine!TypeOK
  <2> QED BY <2>1 DEF EndInv
<1>25. CASE Kill(l)
  <2>1. mode'[l] = "off" /\ outcome'[l] = "Killed"
      BY <1>25 DEF Kill, Engine!Kill, EngineInv, Engine!TypeOK
  <2> QED BY <2>1 DEF EndInv
<1> QED
    BY <1>1, <1>2, <1>3, <1>4, <1>5, <1>6, <1>7, <1>8, <1>9, <1>10, <1>11, <1>12, <1>13,
       <1>14, <1>15, <1>16, <1>17, <1>18, <1>19, <1>20, <1>21, <1>22, <1>23, <1>24, <1>25
       DEF Acts, Step

LEMMA EndInvStep ==
    ASSUME OneAtATime, OneAtATime', EngineInv, HostTypeOK, RunInv, EndInv, [Next]_vars
    PROVE  EndInv'
<1>1. ASSUME NEW l \in Launchers, Acts(l)
       PROVE  EndInv'
    BY <1>1, ActsAlone, EndInvActs
<1>2. ASSUME NEW p \in Pids, ProcessChanges(p)
       PROVE  EndInv'
  <2>1. \A i \in Pids : process[i] # "wstunnel" => process'[i] # "wstunnel"
      BY <1>2 DEF ProcessChanges, HostTypeOK
  <2> QED BY <1>2, <2>1 DEF ProcessChanges, EndInv, Removed, engineVars, memoryVars
<1>3. CASE UNCHANGED vars
    BY <1>3 DEF vars, engineVars, hostVars, memoryVars, EndInv, Removed
<1> QED BY <1>1, <1>2, <1>3 DEF Next, Acts

-------------------------------------------------------------------------------
\* Everything on the host is accounted for

\* A connect step that adds at most its own route or the interface.
LEMMA ApplyKeepsAccounted ==
    ASSUME EngineInv, RunInv, Accounted, NEW l \in Launchers,
           \A k \in Launchers : k = l \/ (mode[k] = "off" /\ mode'[k] = "off"),
           NEW s \in ConnectSteps \cup Endpoints, Engine!ApplyOk(l, s),
           \A e \in Endpoints : e = s \/ route'[e] = route[e],
           s = "create-wireguard-interface" \/ link' = link,
           process' = process, handle' = handle, disclosed' = disclosed
    PROVE  Accounted'
<1>1. /\ mode[l] = "connect" /\ mode' = mode /\ undone' = undone /\ stuck' = stuck
      /\ applied'[l] = applied[l] \cup {s} /\ undone[l] = {}
    BY ApplyWhileConnecting
<1> QED BY <1>1 DEF Accounted, AllOff, Standing

\* No route and no process of the launcher's came, nor anything of the interface.
Spared ==
    /\ \A e \in Endpoints : route'[e] \in {route[e], "none"}
    /\ \A p \in Pids : process'[p] = "wstunnel" => process[p] = "wstunnel"
    /\ link' => link
    /\ clientRoutes' \subseteq clientRoutes
    /\ dns' => dns

\* A disconnect step that only removes.
LEMMA DependentKeepsAccounted ==
    ASSUME EngineInv, HostTypeOK, RunInv, EndInv, Accounted, NEW l \in Launchers,
           \A k \in Launchers : k = l \/ (mode[k] = "off" /\ mode'[k] = "off"),
           NEW s \in DisconnectSteps \ {"read-runtime-state"},
           Dependent(l, s), Spared
    PROVE  Accounted'
<1>1. /\ mode[l] = "disconnect" /\ mode' = mode /\ failed' = failed
      /\ applied'[l] = applied[l] \cup {s}
      /\ failed[l] = {} => "read-runtime-state" \in applied[l]
    BY ApplyWhileDisconnecting DEF Dependent
<1>2. disclosed' = disclosed /\ ("read-runtime-state" \in applied[l] => seen' = seen)
    BY <1>1, WhatWasReadIsKnown DEF Dependent
<1>3. failed[l] = {} => Worked(l)' = Worked(l)
    BY <1>1, <1>2 DEF Worked
<1>4. Clean => Clean'
    BY DEF Spared, Clean, HostTypeOK
<1>5. failed[l] = {} /\ Listed(Worked(l)) => Listed(Worked(l))'
    BY <1>3 DEF Spared, Listed
<1> QED BY <1>1, <1>2, <1>4, <1>5 DEF Accounted, AllOff

\* The step s is undone, or its rollback is stuck.
Undoing(l, s) ==
    /\ mode[l] = "rollback" /\ mode' = mode /\ applied' = applied
    /\ undone'[l] = undone[l] \cup {s} /\ stuck'[l] \in {stuck[l], stuck[l] \cup {s}}
    /\ s \in applied[l] \ undone[l]

LEMMA UndoIsUndoing ==
    ASSUME EngineInv, NEW l \in Launchers, NEW s, Engine!UndoOk(l, s) \/ Engine!UndoFail(l, s)
    PROVE  Undoing(l, s)
BY DEF Undoing, Engine!UndoOk, Engine!UndoFail, Engine!ReadyToUndo, Engine!ToUndo, EngineInv, Engine!TypeOK

\* What a disconnect without an error that read a record has removed at its end.
LEMMA RemovedAtTheEnd ==
    ASSUME EngineInv, RunInv, EndInv, NEW l \in Launchers,
           mode[l] = "disconnect", failed[l] = {}, Engine!Exhausted(l)
    PROVE  /\ applied[l] = DisconnectSteps
           /\ seen[l].file = "whole" => Removed(l)
<1>1. applied[l] = DisconnectSteps
  <2>1. plan[l] = DisconnectSteps /\ plan[l] \subseteq attempted[l]
      BY DEF Engine!Exhausted, RunInv
  <2> QED BY <2>1 DEF EngineInv, Engine!Bookkeeping
<1> QED BY <1>1 DEF EndInv, Removed, DisconnectSteps

\* A run that comes to its end and will not say FailedDirty leaves a clean host,
\* or the whole tunnel if it will say Connected.
LEMMA AccountedAtTheEnd ==
    ASSUME EngineInv, HostTypeOK, RunInv, ConnectInv, EndInv, Accounted, NEW l \in Launchers,
           mode[l] # "off", Engine!Exhausted(l), ~disclosed, Engine!Verdict(l) # "FailedDirty"
    PROVE  Clean \/ (Engine!Verdict(l) = "Connected" /\ Listed(store) /\ Up)
<1>1. CASE mode[l] = "connect"
  <2>1. /\ plan[l] = applied[l] /\ undone[l] = {}
        /\ store.file = "whole" /\ store.endpoints = plan[l] \cap Endpoints
        /\ store.pid = handle[l] /\ Up
      BY <1>1, BuiltAtTheEnd
  <2>2. Engine!Verdict(l) = "Connected" /\ Standing(l) = applied[l]
      BY <1>1, <2>1 DEF Engine!Verdict, Standing
  <2> QED BY <1>1, <2>1, <2>2 DEF Accounted, Listed
<1>2. CASE mode[l] = "rollback"
  <2>1. stuck[l] = {} /\ applied[l] \cap Undoable \subseteq undone[l]
      BY <1>2 DEF Engine!Verdict, Engine!Exhausted, Engine!ToUndo
  <2>2. /\ \A e \in Endpoints : e \notin Standing(l)
        /\ "create-wireguard-interface" \notin Standing(l)
        /\ "start-wstunnel" \notin applied[l] \ undone[l]
      BY <2>1 DEF Standing, Undoable, ConnectSteps
  <2> QED BY <1>2, <2>2 DEF Accounted, Clean, HostTypeOK
<1>3. CASE mode[l] = "disconnect"
  <2>1. failed[l] = {}
      BY <1>3 DEF Engine!Verdict
  <2>2. applied[l] = DisconnectSteps /\ (seen[l].file = "whole" => Removed(l))
      BY <1>3, <2>1, RemovedAtTheEnd
  <2>3. Clean \/ Listed(seen[l])
      BY <1>3, <2>1, <2>2 DEF Accounted, Worked, DisconnectSteps
  <2> QED BY <2>2, <2>3 DEF Listed, Removed, Clean, HostTypeOK
<1> QED BY <1>1, <1>2, <1>3 DEF Engine!Exhausted

LEMMA AccountedActs ==
    ASSUME EngineInv, HostTypeOK, RunInv, ConnectInv, EndInv, Accounted, NEW l \in Launchers, Acts(l),
           \A k \in Launchers : k = l \/ (mode[k] = "off" /\ mode'[k] = "off")
    PROVE  Accounted'
<1>1. ASSUME NEW ips \in SUBSET Endpoints, NEW withDNS \in BOOLEAN, StartConnect(l, ips, withDNS)
       PROVE  Accounted'
  <2>1. /\ mode[l] = "off" /\ mode'[l] = "connect" /\ store.file # "whole"
      BY <1>1 DEF StartConnect, Engine!Begin, EngineInv, Engine!TypeOK, Status
  <2>2. ~disclosed => Clean
      BY <2>1 DEF Accounted, AllOff, Listed
  <2> QED BY <1>1, <2>1, <2>2 DEF StartConnect, Accounted, AllOff, Clean, hostVars
<1>2. CASE StartDisconnect(l)
  <2>1. mode[l] = "off" /\ mode'[l] = "disconnect" /\ applied'[l] = {}
      BY <1>2 DEF StartDisconnect, Engine!Begin, EngineInv, Engine!TypeOK
  <2>2. UNCHANGED hostVars /\ disclosed' = disclosed
      BY <1>2 DEF StartDisconnect
  <2>3. ~disclosed' => Clean' \/ Listed(store)'
      BY <2>1, <2>2 DEF Accounted, AllOff, Clean, Listed, hostVars
  <2> QED BY <2>1, <2>3 DEF Accounted, AllOff, Worked
<1>3. CASE ValidatePrerequisites(l)
    BY <1>3, TunnelAssumption, ApplyKeepsAccounted DEF ValidatePrerequisites, ConnectSteps, hostVars, memoryVars
<1>4. ASSUME NEW e \in Endpoints, AddRouteExclusion(l, e)
       PROVE  Accounted'
  <2>1. /\ Engine!ApplyOk(l, e) /\ UNCHANGED <<link, process, handle, disclosed>>
        /\ \A i \in Endpoints : i = e \/ route'[i] = route[i]
      BY <1>4 DEF AddRouteExclusion, memoryVars, HostTypeOK
  <2> QED BY <2>1, ApplyKeepsAccounted
<1>5. ASSUME NEW p \in Pids, StartWSTunnel(l, p)
       PROVE  Accounted'
  <2>1. /\ mode[l] = "connect" /\ mode' = mode /\ undone' = undone /\ stuck' = stuck
        /\ "start-wstunnel" \notin applied[l] /\ undone[l] = {}
        /\ applied'[l] = applied[l] \cup {"start-wstunnel"}
    <3>1. "start-wstunnel" \notin applied[l]
        BY <1>5 DEF StartWSTunnel, Engine!ApplyOk, Engine!Ready, EngineInv, Engine!Bookkeeping
    <3> QED BY <1>5, <3>1, ApplyWhileConnecting DEF StartWSTunnel, ConnectSteps
  <2>2. /\ route' = route /\ link' = link /\ handle'[l] = p /\ disclosed' = disclosed
        /\ \A i \in Pids : process'[i] = "wstunnel" => i = p \/ process[i] = "wstunnel"
      BY <1>5 DEF StartWSTunnel, HostTypeOK
  <2> QED BY <2>1, <2>2 DEF Accounted, AllOff, Standing
<1>6. CASE CreateInterface(l)
    BY <1>6, TunnelAssumption, ApplyKeepsAccounted DEF CreateInterface, ConnectSteps, memoryVars
<1>7. CASE ConfigureInterface(l)
    BY <1>7, TunnelAssumption, ApplyKeepsAccounted DEF ConfigureInterface, ConnectSteps, LinkConfigured, hostVars, memoryVars
<1>8. CASE ApplyClientRoutes(l)
    BY <1>8, TunnelAssumption, ApplyKeepsAccounted DEF ApplyClientRoutes, ConnectSteps, memoryVars
<1>9. CASE ApplyDNS(l)
    BY <1>9, TunnelAssumption, ApplyKeepsAccounted DEF ApplyDNS, ConnectSteps, memoryVars
<1>10. CASE StoreRuntimeState(l)
    BY <1>10, TunnelAssumption, ApplyKeepsAccounted DEF StoreRuntimeState, ConnectSteps, memoryVars
<1>11. CASE ReadRuntimeState(l)
  <2>1. /\ mode[l] = "disconnect" /\ mode' = mode /\ failed' = failed
        /\ "read-runtime-state" \notin applied[l] /\ "read-runtime-state" \in applied'[l]
      BY <1>11, ApplyWhileDisconnecting DEF ReadRuntimeState, DisconnectSteps
  <2>2. seen'[l] = store /\ UNCHANGED hostVars /\ disclosed' = disclosed
      BY <1>11 DEF ReadRuntimeState, HostTypeOK
  <2>3. Worked(l)' = Worked(l)
      BY <2>1, <2>2 DEF Worked
  <2>4. Clean' = Clean /\ Listed(Worked(l))' = Listed(Worked(l))
      BY <2>2, <2>3 DEF Clean, Listed, hostVars
  <2> QED BY <2>1, <2>2, <2>4 DEF Accounted, AllOff
<1>12. CASE RestoreDNS(l)
  <2>1. Dependent(l, "restore-dns") /\ Spared
      BY <1>12 DEF RestoreDNS, Spared, DNSReverted
  <2> QED BY <2>1, DependentKeepsAccounted DEF DisconnectSteps
<1>13. CASE RemoveClientRoutes(l)
  <2>1. Dependent(l, "remove-client-routes") /\ Spared
      BY <1>13 DEF RemoveClientRoutes, Spared, ClientRoutesDeleted
  <2> QED BY <2>1, DependentKeepsAccounted DEF DisconnectSteps
<1>14. CASE RemoveInterface(l)
  <2>1. Dependent(l, "remove-wireguard-interface")
      BY <1>14 DEF RemoveInterface
  <2>2. Spared
      BY <1>14 DEF RemoveInterface, Spared, LinkDeleted, HostTypeOK
  <2> QED BY <2>1, <2>2, DependentKeepsAccounted DEF DisconnectSteps
<1>15. CASE StopWSTunnel(l)
  <2>1. Dependent(l, "stop-wstunnel")
      BY <1>15 DEF StopWSTunnel
  <2>2. Spared
      BY <1>15 DEF StopWSTunnel, Spared, StopRecorded
  <2> QED BY <2>1, <2>2, DependentKeepsAccounted DEF DisconnectSteps
<1>16. CASE RemoveRouteExclusions(l)
  <2>1. Dependent(l, "remove-endpoint-route-exclusions")
      BY <1>16 DEF RemoveRouteExclusions
  <2>2. Spared
      BY <1>16 DEF RemoveRouteExclusions, Spared, DeleteRoutes
  <2> QED BY <2>1, <2>2, DependentKeepsAccounted DEF DisconnectSteps
<1>17. CASE ClearRuntimeState(l)
  <2>1. /\ mode[l] = "disconnect" /\ mode' = mode /\ failed' = failed
        /\ applied'[l] = applied[l] \cup {"clear-runtime-state"}
        /\ failed[l] = {} => "read-runtime-state" \in applied[l]
      BY <1>17, ApplyWhileDisconnecting DEF ClearRuntimeState, DisconnectSteps
  <2>2. UNCHANGED <<route, process, link, clientRoutes, dns, memoryVars, disclosed>>
      BY <1>17 DEF ClearRuntimeState
  <2>3. failed[l] = {} => Worked(l)' = Worked(l)
      BY <2>1, <2>2 DEF Worked, memoryVars
  <2>4. Clean' = Clean /\ (failed[l] = {} => Listed(Worked(l))' = Listed(Worked(l)))
      BY <2>2, <2>3 DEF Clean, Listed
  <2> QED BY <2>1, <2>2, <2>4 DEF Accounted, AllOff
<1>18. ASSUME NEW s \in plan[l], StepFails(l, s)
       PROVE  Accounted'
  <2>2. CASE mode[l] = "connect"
    <3>1. /\ mode'[l] = "rollback" /\ applied' = applied /\ undone' = undone /\ stuck' = stuck
          /\ s \notin DisconnectSteps /\ disclosed' = disclosed /\ handle' = handle
        BY <1>18, <2>2 DEF StepFails, Engine!ApplyFail, Engine!Ready, Engine!ModeAfterError, EngineInv, Engine!TypeOK, RunInv
    <3>2. route' = route /\ link' = link /\ process' = process
        BY <1>18, <3>1, InterruptedTouches, InterruptedKeepsType DEF StepFails, DisconnectSteps
    <3> QED BY <2>2, <3>1, <3>2 DEF Accounted, AllOff, Standing
  <2>3. CASE mode[l] = "disconnect"
    <3>1. mode' = mode /\ s \in failed'[l]
        BY <1>18, <2>3 DEF StepFails, Engine!ApplyFail, Engine!ModeAfterError, EngineInv, Engine!TypeOK
    <3> QED BY <2>3, <3>1 DEF Accounted, AllOff
  <2> QED BY <1>18, <2>2, <2>3 DEF StepFails, Engine!ApplyFail, Engine!Ready
<1>19. ASSUME NEW e \in Endpoints, UndoRouteExclusion(l, e)
       PROVE  Accounted'
  <2>1. Undoing(l, e)
      BY <1>19, UndoIsUndoing DEF UndoRouteExclusion
  <2>2. e \notin stuck'[l] => route'[e] = "none"
      BY <1>19, <2>1 DEF UndoRouteExclusion, Engine!UndoFail, DeleteRoutes, EngineInv, Engine!TypeOK
  <2>3. \A i \in Endpoints \ {e} : route'[i] = route[i]
      BY <1>19 DEF UndoRouteExclusion, DeleteRoutes
  <2>4. e # "start-wstunnel" /\ e # "create-wireguard-interface"
      BY TunnelAssumption DEF ConnectSteps
  <2>5. UNCHANGED <<process, link, handle, disclosed>>
      BY <1>19 DEF UndoRouteExclusion, memoryVars
  <2>6. ASSUME NEW i \in Endpoints, route[i] \in {"none", "host"} \/ i \in Standing(l)
         PROVE  route'[i] \in {"none", "host"} \/ i \in Standing(l)'
    <3>1. CASE i = e
        BY <2>1, <2>2, <2>6, <3>1 DEF Undoing, Standing
    <3>2. CASE i # e
        BY <2>1, <2>3, <2>6, <3>2 DEF Undoing, Standing
    <3> QED BY <3>1, <3>2
  <2>7. "create-wireguard-interface" \in Standing(l) => "create-wireguard-interface" \in Standing(l)'
      BY <2>1, <2>4 DEF Undoing, Standing
  <2>8. "start-wstunnel" \in applied[l] \ undone[l] => "start-wstunnel" \in applied'[l] \ undone'[l]
      BY <2>1, <2>4 DEF Undoing
  <2> QED BY <2>1, <2>5, <2>6, <2>7, <2>8 DEF Undoing, Accounted, AllOff
<1>20. CASE UndoWSTunnel(l)
  <2>1. Undoing(l, "start-wstunnel")
      BY <1>20, UndoIsUndoing DEF UndoWSTunnel
  <2>2. /\ route' = route /\ link' = link /\ disclosed' = disclosed
        /\ \A p \in Pids : process'[p] = "wstunnel" => process[p] = "wstunnel" /\ p # handle[l]
      BY <1>20 DEF UndoWSTunnel
  <2>3. "start-wstunnel" \notin Endpoints \cup {"create-wireguard-interface"}
      BY TunnelAssumption DEF ConnectSteps
  <2> QED BY <2>1, <2>2, <2>3 DEF Undoing, Accounted, AllOff, Standing
<1>21. ASSUME NEW s \in applied[l], UndoInterface(l, s)
       PROVE  Accounted'
  <2>1. Undoing(l, s)
      BY <1>21, UndoIsUndoing DEF UndoInterface
  <2>2. /\ process' = process /\ handle' = handle /\ disclosed' = disclosed
        /\ s \notin stuck'[l] => ~link'
        /\ link' => link
        /\ \A e \in Endpoints : route'[e] \in {route[e], "none"}
      BY <1>21, <2>1 DEF UndoInterface, LinkDeleted, memoryVars, Engine!UndoFail, EngineInv, Engine!TypeOK, HostTypeOK
  <2>3. s \notin Endpoints \cup {"start-wstunnel"}
      BY <1>21, TunnelAssumption DEF UndoInterface, ConnectSteps
  <2> QED BY <2>1, <2>2, <2>3 DEF Undoing, Accounted, AllOff, Standing
<1>22. CASE UndoClientRoutes(l)
  <2>1. Undoing(l, "apply-client-routes")
      BY <1>22, UndoIsUndoing DEF UndoClientRoutes
  <2>2. UNCHANGED <<route, process, link, handle, disclosed>>
      BY <1>22 DEF UndoClientRoutes, ClientRoutesPartlyDeleted, memoryVars
  <2>3. "apply-client-routes" \notin Endpoints
      BY TunnelAssumption DEF ConnectSteps
  <2> QED BY <2>1, <2>2, <2>3 DEF Undoing, Accounted, AllOff, Standing
<1>23. CASE UndoDNS(l)
  <2>1. Undoing(l, "apply-dns")
      BY <1>23, UndoIsUndoing DEF UndoDNS
  <2>2. UNCHANGED <<route, process, link, handle, disclosed>>
      BY <1>23 DEF UndoDNS, memoryVars
  <2>3. "apply-dns" \notin Endpoints
      BY TunnelAssumption DEF ConnectSteps
  <2> QED BY <2>1, <2>2, <2>3 DEF Undoing, Accounted, AllOff, Standing
<1>24. CASE Return(l)
  <2>1. /\ mode[l] # "off" /\ mode'[l] = "off" /\ Engine!Exhausted(l) /\ UNCHANGED hostVars
        /\ ~disclosed' => Clean \/ (~disclosed /\ Engine!Verdict(l) # "FailedDirty")
      BY <1>24 DEF Return, Engine!Return, Engine!Exhausted, EngineInv, Engine!TypeOK
  <2>2. Clean' = Clean /\ Listed(store)' = Listed(store) /\ Up' = Up
      BY <2>1 DEF Clean, Listed, Up, hostVars
  <2>3. ~disclosed' => Clean \/ (Listed(store) /\ Up)
      BY <2>1, AccountedAtTheEnd
  <2> QED BY <2>1, <2>2, <2>3 DEF Accounted, AllOff
<1>25. CASE Kill(l)
  <2>1. mode'[l] = "off" /\ outcome'[l] = "Killed" /\ disclosed' = ~Clean'
      BY <1>25 DEF Kill, Engine!Kill, EngineInv, Engine!TypeOK
  <2> QED BY <2>1 DEF Accounted, AllOff
<1> QED
    BY <1>1, <1>2, <1>3, <1>4, <1>5, <1>6, <1>7, <1>8, <1>9, <1>10, <1>11, <1>12, <1>13,
       <1>14, <1>15, <1>16, <1>17, <1>18, <1>19, <1>20, <1>21, <1>22, <1>23, <1>24, <1>25
       DEF Acts, Step

LEMMA AccountedStep ==
    ASSUME OneAtATime, OneAtATime', EngineInv, HostTypeOK, RunInv, ConnectInv, EndInv, Accounted, [Next]_vars
    PROVE  Accounted'
<1>1. ASSUME NEW l \in Launchers, Acts(l)
       PROVE  Accounted'
    BY <1>1, ActsAlone, AccountedActs
<1>2. ASSUME NEW p \in Pids, ProcessChanges(p)
       PROVE  Accounted'
  <2>1. \A i \in Pids : process[i] # "wstunnel" => process'[i] # "wstunnel"
      BY <1>2 DEF ProcessChanges, HostTypeOK
  <2>2. UNCHANGED <<engineVars, route, link, clientRoutes, dns, store, memoryVars, disclosed>>
      BY <1>2 DEF ProcessChanges
  <2>3. Clean => Clean'
      BY <2>1, <2>2 DEF Clean
  <2>4. (Listed(store) => Listed(store)') /\ Up' = Up
      BY <2>1, <2>2 DEF Listed, Up
  <2>5. \A l \in Launchers : Listed(Worked(l)) => Listed(Worked(l))'
      BY <2>1, <2>2 DEF Listed, Worked, engineVars, memoryVars
  <2> QED BY <2>1, <2>2, <2>3, <2>4, <2>5 DEF Accounted, AllOff, Standing, engineVars, memoryVars
<1>3. CASE UNCHANGED vars
  <2>1. UNCHANGED <<engineVars, hostVars, memoryVars, disclosed>>
      BY <1>3 DEF vars
  <2> QED BY <2>1 DEF Accounted, AllOff, Clean, Listed, Up, Worked, Standing, engineVars, hostVars, memoryVars
<1> QED BY <1>1, <1>2, <1>3 DEF Next, Acts

-------------------------------------------------------------------------------
\* What holds at every moment, and what is claimed

\* What holds at every moment of a behaviour with launchers one at a time.
OutcomeInv == HostTypeOK /\ EngineInv /\ RunInv /\ ConnectInv /\ PidKnown /\ EndInv /\ Accounted

LEMMA OutcomeInvHolds == Spec /\ []OneAtATime => []OutcomeInv
<1>1. Init => StoreShape /\ RunInv /\ ConnectInv
    BY InitInvs, InitConnectInv
<1>2. Init => PidKnown /\ EndInv
    BY DEF Init, Engine!Init, PidKnown, EndInv, Absent
<1>3. Init => Accounted
    BY DEF Init, Engine!Init, Accounted, Clean
<1>4. HostTypeOK /\ StoreShape /\ [Next]_vars => StoreShape'
    BY StoreShapeStep
<1>5. OneAtATime /\ OneAtATime' /\ EngineInv /\ HostTypeOK /\ StoreShape /\ RunInv /\ [Next]_vars => RunInv'
    BY RunInvStep
<1>6. OneAtATime /\ OneAtATime' /\ EngineInv /\ HostTypeOK /\ RunInv /\ ConnectInv /\ [Next]_vars => ConnectInv'
    BY ConnectInvStep
<1>7. OneAtATime /\ OneAtATime' /\ EngineInv /\ HostTypeOK /\ RunInv /\ ConnectInv /\ PidKnown /\ [Next]_vars
        => PidKnown'
    BY PidKnownStep
<1>8. OneAtATime /\ OneAtATime' /\ EngineInv /\ HostTypeOK /\ RunInv /\ EndInv /\ [Next]_vars => EndInv'
    BY EndInvStep
<1>9. OneAtATime /\ OneAtATime' /\ EngineInv /\ HostTypeOK /\ RunInv /\ ConnectInv /\ EndInv /\ Accounted
        /\ [Next]_vars => Accounted'
    BY AccountedStep
<1>10. EngineInv /\ HostTypeOK /\ RunInv /\ ConnectInv /\ PidKnown /\ EndInv /\ Accounted => OutcomeInv
    BY DEF OutcomeInv
<1> QED BY <1>1, <1>2, <1>3, <1>4, <1>5, <1>6, <1>7, <1>8, <1>9, <1>10, EngineInvHolds, TypeCorrect,
           TypeOKParts, PTL DEF Spec

\* Between runs, what status reads from state.json is what is on the host, with
\* any number of launchers one at a time, unless it was disclosed that it is not.
THEOREM StatusIsTruthfulHolds == Spec /\ []OneAtATime => []StatusIsTruthful
<1>1. OutcomeInv => StatusIsTruthful
  <2> SUFFICES ASSUME OutcomeInv, AllOff, ~disclosed
               PROVE  (Status = "Idle" => Clean) /\ (Status = "Connected" => Up)
      BY DEF StatusIsTruthful
  <2>1. Clean \/ (Listed(store) /\ Up)
      BY DEF OutcomeInv, Accounted
  <2>2. Status = "Idle" => store.file # "whole"
      BY DEF Status
  <2>3. Status = "Connected" => store.file = "whole" /\ (store.pid = NoPid \/ WSTunnelRuns(store.pid))
      BY DEF Status, OutcomeInv, HostTypeOK, StateFile
  <2>4. Status = "Connected" => ~Clean
      BY <2>3 DEF OutcomeInv, PidKnown, WSTunnelRuns, Clean
  <2> QED BY <2>1, <2>2, <2>4 DEF Listed
<1> QED BY <1>1, OutcomeInvHolds, PTL

\* What the Result of l's last run claims of the host.
Claims(l) ==
    /\ outcome[l] = "Connected" =>
          /\ store.file = "whole" /\ Up
          /\ store.pid = handle[l] /\ handle[l] # NoPid
    /\ outcome[l] = "Idle" /\ seen[l].file = "whole" => Removed(l)
    /\ outcome[l] \in {"Idle", "FailedRecoverable"} /\ ~disclosed => Clean

LEMMA ReturnClaims ==
    ASSUME OutcomeInv, NEW l \in Launchers, Return(l)
    PROVE  Claims(l)'
<1>1. /\ outcome'[l] = Engine!Verdict(l) /\ Engine!Exhausted(l) /\ mode[l] # "off"
      /\ UNCHANGED <<hostVars, memoryVars>>
      /\ ~disclosed' => Clean \/ (~disclosed /\ Engine!Verdict(l) # "FailedDirty")
    BY DEF Return, Engine!Return, Engine!Exhausted, OutcomeInv, EngineInv, Engine!TypeOK
<1>2. Clean' = Clean /\ Up' = Up /\ (Removed(l) => Removed(l)')
    BY <1>1 DEF Clean, Up, Removed, hostVars, memoryVars
<1>3. Engine!Verdict(l) = "Connected" =>
        store.file = "whole" /\ Up /\ store.pid = handle[l] /\ handle[l] # NoPid
  <2>1. Engine!Verdict(l) = "Connected" => mode[l] = "connect"
      BY <1>1 DEF Engine!Verdict, Engine!Exhausted
  <2> QED BY <1>1, <2>1, BuiltAtTheEnd DEF OutcomeInv
<1>4. Engine!Verdict(l) = "Idle" /\ seen[l].file = "whole" => Removed(l)
  <2>1. Engine!Verdict(l) = "Idle" => mode[l] = "disconnect" /\ failed[l] = {}
      BY <1>1 DEF Engine!Verdict, Engine!Exhausted
  <2> QED BY <1>1, <2>1, RemovedAtTheEnd DEF OutcomeInv
<1>5. Engine!Verdict(l) \in {"Idle", "FailedRecoverable"} /\ ~disclosed' => Clean
  <2>1. ~disclosed /\ Engine!Verdict(l) # "FailedDirty" => Clean \/ Engine!Verdict(l) = "Connected"
      BY <1>1, AccountedAtTheEnd DEF OutcomeInv
  <2> QED BY <1>1, <2>1
<1> QED BY <1>1, <1>2, <1>3, <1>4, <1>5 DEF Claims, hostVars, memoryVars

\* Whatever number of launchers run one after another, what a run says when it
\* returns is true at that moment: Connected, Idle after a record was read, and
\* a clean host wherever nothing else was disclosed.
THEOREM ReturnsAreTrue ==
    Spec /\ []OneAtATime => [][\A l \in Launchers : Return(l) => Claims(l)']_vars
<1>1. OutcomeInv /\ [Next]_vars => [\A l \in Launchers : Return(l) => Claims(l)']_vars
    BY ReturnClaims
<1> QED BY <1>1, OutcomeInvHolds, PTL DEF Spec

-------------------------------------------------------------------------------
\* One launcher: what its last run claimed stays true until the next one

\* A run goes on in its kind until it returns.
LEMMA StepGoesOn ==
    ASSUME EngineInv, NEW l \in Launchers, Step(l), ~Return(l)
    PROVE  \/ mode[l] # "off" /\ mode'[l] = mode[l]
           \/ mode[l] = "connect" /\ mode'[l] = "rollback"
<1> DEFINE GoesOn == \/ mode[l] # "off" /\ mode'[l] = mode[l]
                     \/ mode[l] = "connect" /\ mode'[l] = "rollback"
<1>1. ASSUME \E s : \/ Engine!ApplyOk(l, s) \/ Engine!ApplyFail(l, s)
                   \/ Engine!UndoOk(l, s) \/ Engine!UndoFail(l, s)
      PROVE  GoesOn
    BY <1>1 DEF Engine!ApplyOk, Engine!ApplyFail, Engine!UndoOk, Engine!UndoFail,
           Engine!Ready, Engine!ReadyToUndo, Engine!ModeAfterError, EngineInv, Engine!TypeOK
<1>2. CASE \/ ValidatePrerequisites(l) \/ \E e \in Endpoints : AddRouteExclusion(l, e)
           \/ \E p \in Pids : StartWSTunnel(l, p)
           \/ CreateInterface(l) \/ ConfigureInterface(l) \/ ApplyClientRoutes(l) \/ ApplyDNS(l)
           \/ StoreRuntimeState(l)
    BY <1>1, <1>2 DEF ValidatePrerequisites, AddRouteExclusion, StartWSTunnel, CreateInterface,
           ConfigureInterface, ApplyClientRoutes, ApplyDNS, StoreRuntimeState
<1>3. CASE \/ ReadRuntimeState(l) \/ RestoreDNS(l) \/ RemoveClientRoutes(l) \/ RemoveInterface(l)
           \/ StopWSTunnel(l) \/ RemoveRouteExclusions(l) \/ ClearRuntimeState(l)
    BY <1>1, <1>3 DEF ReadRuntimeState, RestoreDNS, RemoveClientRoutes, RemoveInterface,
           StopWSTunnel, RemoveRouteExclusions, ClearRuntimeState, Dependent
<1>4. CASE \/ \E s \in plan[l] : StepFails(l, s)
           \/ \E e \in Endpoints : UndoRouteExclusion(l, e)
           \/ UndoWSTunnel(l) \/ \E s \in applied[l] : UndoInterface(l, s)
           \/ UndoClientRoutes(l) \/ UndoDNS(l)
    BY <1>1, <1>4 DEF StepFails, UndoRouteExclusion, UndoWSTunnel, UndoInterface, UndoClientRoutes, UndoDNS
<1> QED BY <1>2, <1>3, <1>4 DEF Step

LEMMA RunEndsByReturnOrKill ==
    ASSUME EngineInv, NEW l \in Launchers, Acts(l)
    PROVE  Return(l) \/ Kill(l) \/ mode'[l] # "off"
BY BeginIsItsOwn, StepGoesOn DEF Acts

ClaimsStand == AllOff => \A l \in Launchers : Claims(l)

LEMMA ClaimsStandStep ==
    ASSUME NEW only, Launchers = {only}, OutcomeInv, ClaimsStand, [Next]_vars
    PROVE  ClaimsStand'
<1>1. ASSUME Acts(only)
       PROVE  ClaimsStand'
  <2>1. CASE Return(only)
      BY <2>1, ReturnClaims DEF ClaimsStand
  <2>2. CASE Kill(only)
    <3>1. outcome'[only] = "Killed"
        BY <2>2 DEF Kill, Engine!Kill, OutcomeInv, EngineInv, Engine!TypeOK
    <3> QED BY <3>1 DEF ClaimsStand, Claims
  <2>3. CASE mode'[only] # "off"
      BY <2>3 DEF ClaimsStand, AllOff
  <2> QED BY <1>1, <2>1, <2>2, <2>3, RunEndsByReturnOrKill DEF OutcomeInv
<1>2. ASSUME NEW p \in Pids, ProcessChanges(p)
       PROVE  ClaimsStand'
  <2>1. \A i \in Pids : process[i] # "wstunnel" => process'[i] # "wstunnel"
      BY <1>2 DEF ProcessChanges, OutcomeInv, HostTypeOK
  <2>2. UNCHANGED <<engineVars, route, link, clientRoutes, dns, store, memoryVars, disclosed>>
      BY <1>2 DEF ProcessChanges
  <2>3. (Clean => Clean') /\ Up' = Up /\ \A l \in Launchers : Removed(l) => Removed(l)'
      BY <2>1, <2>2 DEF Clean, Up, Removed, memoryVars
  <2> QED BY <2>2, <2>3 DEF ClaimsStand, Claims, AllOff, engineVars, memoryVars
<1>3. CASE UNCHANGED vars
    BY <1>3 DEF vars, engineVars, hostVars, memoryVars, ClaimsStand, Claims, AllOff, Clean, Up, Removed
<1> QED BY <1>1, <1>2, <1>3 DEF Next, Acts

LEMMA ClaimsStandHolds ==
    ASSUME NEW only, Launchers = {only}
    PROVE  Spec => []ClaimsStand
<1>1. Init => ClaimsStand
    BY DEF Init, Engine!Init, ClaimsStand, Claims
<1>2. OneAtATime
    BY Launchers = {only} DEF OneAtATime
<1>3. OutcomeInv /\ ClaimsStand /\ [Next]_vars => ClaimsStand'
    BY ClaimsStandStep, Launchers = {only}
<1> QED BY <1>1, <1>2, <1>3, OutcomeInvHolds, PTL DEF Spec

\* A connect that returned Connected left its whole tunnel up and recorded, for
\* every number of endpoints, client routes and PIDs, whatever earlier runs left,
\* as long as there is one launcher.
THEOREM ConnectedMeansUpHolds ==
    ASSUME NEW only, Launchers = {only}
    PROVE  Spec => []ConnectedMeansUp
<1>1. ClaimsStand => ConnectedMeansUp
    BY DEF ClaimsStand, Claims, ConnectedMeansUp
<1> QED BY <1>1, ClaimsStandHolds, Launchers = {only}, PTL

\* A disconnect that read a record and returned Idle removed all it lists, after
\* whatever earlier runs left, as long as there is one launcher.
THEOREM IdleMeansRecordGoneHolds ==
    ASSUME NEW only, Launchers = {only}
    PROVE  Spec => []IdleMeansRecordGone
<1>1. ClaimsStand => IdleMeansRecordGone
    BY DEF ClaimsStand, Claims, Removed, IdleMeansRecordGone
<1> QED BY <1>1, ClaimsStandHolds, Launchers = {only}, PTL

\* A failed connect that claims to be recoverable and a disconnect that claims
\* to be idle leave a clean host, as long as there is one launcher, unless a death
\* or a FailedDirty since the host was last clean disclosed that it is not.
THEOREM QuietMeansCleanHolds ==
    ASSUME NEW only, Launchers = {only}
    PROVE  Spec => []QuietMeansClean
<1>1. ClaimsStand => QuietMeansClean
    BY DEF ClaimsStand, Claims, QuietMeansClean
<1> QED BY <1>1, ClaimsStandHolds, Launchers = {only}, PTL

===============================================================================
