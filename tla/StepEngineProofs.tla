--------------------------- MODULE StepEngineProofs ---------------------------
(***************************************************************************)
(* What the plan engine guarantees for every plan and every number of      *)
(* launchers.  Bookkeeping is the strengthening: it relates the sets of a  *)
(* run and ties them to the loop the launcher is in, and the order and     *)
(* verdict invariants follow from it one action at a time.                 *)
(***************************************************************************)
EXTENDS StepEngine, TLAPS

-------------------------------------------------------------------------------
\* Types

LEMMA TypeInit == Init => TypeOK
BY DEF Init, TypeOK, Modes, Outcomes

LEMMA TypeStep == TypeOK /\ [Next]_engineVars => TypeOK'
<1> SUFFICES ASSUME TypeOK, [Next]_engineVars PROVE TypeOK'
    OBVIOUS
<1>1. ASSUME NEW l \in Launchers, NEW kind \in {"connect", "disconnect"},
             NEW steps \in SUBSET Steps, Begin(l, kind, steps)
      PROVE  TypeOK'
    BY <1>1 DEF TypeOK, Modes, Begin
<1>2. ASSUME NEW l \in Launchers, NEW s \in Steps, Skip(l, s)
      PROVE  TypeOK'
    BY <1>2 DEF TypeOK, Skip
<1>3. ASSUME NEW l \in Launchers, NEW s \in Steps, ApplyOk(l, s)
      PROVE  TypeOK'
    BY <1>3 DEF TypeOK, ApplyOk
<1>4. ASSUME NEW l \in Launchers, NEW s \in Steps, ApplyFail(l, s)
      PROVE  TypeOK'
    BY <1>4 DEF TypeOK, Modes, ApplyFail, ModeAfterError
<1>5. ASSUME NEW l \in Launchers, NEW s \in Steps, UndoOk(l, s)
      PROVE  TypeOK'
    BY <1>5 DEF TypeOK, UndoOk
<1>6. ASSUME NEW l \in Launchers, NEW s \in Steps, UndoFail(l, s)
      PROVE  TypeOK'
    BY <1>6 DEF TypeOK, UndoFail
<1>7. ASSUME NEW l \in Launchers, Return(l)
      PROVE  TypeOK'
  <2>1. Verdict(l) \in Outcomes
      BY DEF Verdict, Outcomes
  <2> QED BY <1>7, <2>1 DEF TypeOK, Modes, Return
<1>8. ASSUME NEW l \in Launchers, Kill(l)
      PROVE  TypeOK'
    BY <1>8 DEF TypeOK, Modes, Outcomes, Kill
<1>9. CASE UNCHANGED engineVars
    BY <1>9 DEF TypeOK, engineVars
<1> QED
    BY <1>1, <1>2, <1>3, <1>4, <1>5, <1>6, <1>7, <1>8, <1>9 DEF Next

\* Every variable of the engine keeps its type, whatever the plan.
THEOREM TypeCorrect == Spec => []TypeOK
BY TypeInit, TypeStep, PTL DEF Spec

-------------------------------------------------------------------------------
\* The sets of a run

LEMMA BookkeepingInit == Init => Bookkeeping
BY DEF Init, Bookkeeping

LEMMA BookkeepingStep ==
    TypeOK /\ Bookkeeping /\ [Next]_engineVars => Bookkeeping'
<1> SUFFICES ASSUME TypeOK, Bookkeeping, [Next]_engineVars PROVE Bookkeeping'
    OBVIOUS
<1>1. ASSUME NEW l \in Launchers, NEW kind \in {"connect", "disconnect"},
             NEW steps \in SUBSET Steps, Begin(l, kind, steps)
      PROVE  Bookkeeping'
    BY <1>1 DEF TypeOK, Bookkeeping, Begin
<1>2. ASSUME NEW l \in Launchers, NEW s \in Steps, Skip(l, s)
      PROVE  Bookkeeping'
    BY <1>2 DEF TypeOK, Bookkeeping, Skip, Ready
<1>3. ASSUME NEW l \in Launchers, NEW s \in Steps, ApplyOk(l, s)
      PROVE  Bookkeeping'
    BY <1>3 DEF TypeOK, Bookkeeping, ApplyOk, Ready
<1>4. ASSUME NEW l \in Launchers, NEW s \in Steps, ApplyFail(l, s)
      PROVE  Bookkeeping'
    BY <1>4 DEF TypeOK, Bookkeeping, ApplyFail, ModeAfterError, Ready
<1>5. ASSUME NEW l \in Launchers, NEW s \in Steps, UndoOk(l, s)
      PROVE  Bookkeeping'
    BY <1>5 DEF TypeOK, Bookkeeping, UndoOk, ReadyToUndo, ToUndo
<1>6. ASSUME NEW l \in Launchers, NEW s \in Steps, UndoFail(l, s)
      PROVE  Bookkeeping'
    BY <1>6 DEF TypeOK, Bookkeeping, UndoFail, ReadyToUndo, ToUndo
<1>7. ASSUME NEW l \in Launchers, Return(l)
      PROVE  Bookkeeping'
    BY <1>7 DEF TypeOK, Bookkeeping, Return
<1>8. ASSUME NEW l \in Launchers, Kill(l)
      PROVE  Bookkeeping'
    BY <1>8 DEF TypeOK, Bookkeeping, Kill
<1>9. CASE UNCHANGED engineVars
    BY <1>9 DEF Bookkeeping, engineVars
<1> QED
    BY <1>1, <1>2, <1>3, <1>4, <1>5, <1>6, <1>7, <1>8, <1>9 DEF Next

\* In every run the steps applied, failed, undone and stuck stand to each other
\* and to the loop as engine.go's slices do.
THEOREM BookkeepingHolds == Spec => []Bookkeeping
BY TypeInit, TypeStep, BookkeepingInit, BookkeepingStep, PTL DEF Spec
-------------------------------------------------------------------------------
\* Order

LEMMA InPlanOrderInit == Init => InPlanOrder
BY DEF Init, InPlanOrder

LEMMA InPlanOrderStep ==
    TypeOK /\ InPlanOrder /\ [Next]_engineVars => InPlanOrder'
<1> SUFFICES ASSUME TypeOK, InPlanOrder, [Next]_engineVars PROVE InPlanOrder'
    OBVIOUS
<1>1. ASSUME NEW l \in Launchers, NEW kind \in {"connect", "disconnect"},
             NEW steps \in SUBSET Steps, Begin(l, kind, steps)
      PROVE  InPlanOrder'
    BY <1>1 DEF TypeOK, InPlanOrder, Begin
<1>2. ASSUME NEW l \in Launchers, NEW s \in Steps, Skip(l, s)
      PROVE  InPlanOrder'
    BY <1>2, EngineAssumption DEF TypeOK, InPlanOrder, Ready, Skip
<1>3. ASSUME NEW l \in Launchers, NEW s \in Steps, ApplyOk(l, s)
      PROVE  InPlanOrder'
    BY <1>3, EngineAssumption DEF TypeOK, InPlanOrder, Ready, ApplyOk
<1>4. ASSUME NEW l \in Launchers, NEW s \in Steps, ApplyFail(l, s)
      PROVE  InPlanOrder'
    BY <1>4, EngineAssumption DEF TypeOK, InPlanOrder, Ready, ApplyFail
<1>5. ASSUME NEW l \in Launchers, NEW s \in Steps, UndoOk(l, s)
      PROVE  InPlanOrder'
    BY <1>5 DEF TypeOK, InPlanOrder, UndoOk
<1>6. ASSUME NEW l \in Launchers, NEW s \in Steps, UndoFail(l, s)
      PROVE  InPlanOrder'
    BY <1>6 DEF TypeOK, InPlanOrder, UndoFail
<1>7. ASSUME NEW l \in Launchers, Return(l)
      PROVE  InPlanOrder'
    BY <1>7 DEF TypeOK, InPlanOrder, Return
<1>8. ASSUME NEW l \in Launchers, Kill(l)
      PROVE  InPlanOrder'
    BY <1>8 DEF TypeOK, InPlanOrder, Kill
<1>9. CASE UNCHANGED engineVars
    BY <1>9 DEF InPlanOrder, engineVars
<1> QED
    BY <1>1, <1>2, <1>3, <1>4, <1>5, <1>6, <1>7, <1>8, <1>9 DEF Next

\* A step never runs on the host before one the plan puts earlier, in every
\* plan, connecting or disconnecting (the loops of runConnect and runDisconnect).
THEOREM InPlanOrderHolds == Spec => []InPlanOrder
BY TypeInit, TypeStep, InPlanOrderInit, InPlanOrderStep, PTL DEF Spec

LEMMA NewestUndoneFirstInit == Init => NewestUndoneFirst
BY DEF Init, NewestUndoneFirst

\* A step is applied only while nothing of the run was undone.
LEMMA NewestUndoneFirstStep ==
    TypeOK /\ Bookkeeping /\ NewestUndoneFirst /\ [Next]_engineVars => NewestUndoneFirst'
<1> SUFFICES ASSUME TypeOK, Bookkeeping, NewestUndoneFirst, [Next]_engineVars PROVE NewestUndoneFirst'
    OBVIOUS
<1>1. ASSUME NEW l \in Launchers, NEW kind \in {"connect", "disconnect"},
             NEW steps \in SUBSET Steps, Begin(l, kind, steps)
      PROVE  NewestUndoneFirst'
    BY <1>1 DEF TypeOK, NewestUndoneFirst, Begin
<1>2. ASSUME NEW l \in Launchers, NEW s \in Steps, Skip(l, s)
      PROVE  NewestUndoneFirst'
    BY <1>2 DEF TypeOK, NewestUndoneFirst, Skip
<1>3. ASSUME NEW l \in Launchers, NEW s \in Steps, ApplyOk(l, s)
      PROVE  NewestUndoneFirst'
  <2>1. undone[l] = {}
      BY <1>3 DEF Bookkeeping, ApplyOk, Ready
  <2> QED BY <1>3, <2>1 DEF TypeOK, NewestUndoneFirst, ApplyOk
<1>4. ASSUME NEW l \in Launchers, NEW s \in Steps, ApplyFail(l, s)
      PROVE  NewestUndoneFirst'
    BY <1>4 DEF TypeOK, NewestUndoneFirst, ApplyFail
<1>5. ASSUME NEW l \in Launchers, NEW s \in Steps, UndoOk(l, s)
      PROVE  NewestUndoneFirst'
    BY <1>5, EngineAssumption DEF TypeOK, NewestUndoneFirst, ReadyToUndo, ToUndo, UndoOk
<1>6. ASSUME NEW l \in Launchers, NEW s \in Steps, UndoFail(l, s)
      PROVE  NewestUndoneFirst'
    BY <1>6, EngineAssumption DEF TypeOK, NewestUndoneFirst, ReadyToUndo, ToUndo, UndoFail
<1>7. ASSUME NEW l \in Launchers, Return(l)
      PROVE  NewestUndoneFirst'
    BY <1>7 DEF TypeOK, NewestUndoneFirst, Return
<1>8. ASSUME NEW l \in Launchers, Kill(l)
      PROVE  NewestUndoneFirst'
    BY <1>8 DEF TypeOK, NewestUndoneFirst, Kill
<1>9. CASE UNCHANGED engineVars
    BY <1>9 DEF NewestUndoneFirst, engineVars
<1> QED
    BY <1>1, <1>2, <1>3, <1>4, <1>5, <1>6, <1>7, <1>8, <1>9 DEF Next

\* A rollback never undoes a step before a later one that was applied, whatever
\* fails in it (rollbackApplied).
THEOREM NewestUndoneFirstHolds == Spec => []NewestUndoneFirst
BY TypeInit, TypeStep, BookkeepingInit, BookkeepingStep,
   NewestUndoneFirstInit, NewestUndoneFirstStep, PTL DEF Spec

-------------------------------------------------------------------------------
\* The verdict

LEMMA VerdictInit == Init => VerdictIsHonest
BY DEF Init, VerdictIsHonest

\* A loop that reached its end applied all it should, or undid all it could.
LEMMA VerdictOfExhausted ==
    ASSUME TypeOK, Bookkeeping, NEW l \in Launchers, mode[l] # "off", Exhausted(l)
    PROVE  /\ Verdict(l) \in {"Connected", "Idle"}
                => failed[l] = {} /\ plan[l] \ Deferred = applied[l]
           /\ Verdict(l) = "FailedRecoverable"
                => /\ failed[l] # {}
                   /\ undone[l] = applied[l] \cap Undoable
                   /\ stuck[l] = {}
           /\ Verdict(l) = "FailedDirty"
                => /\ failed[l] # {}
                   /\ undone[l] \in {{}, applied[l] \cap Undoable}
<1>1. CASE mode[l] = "connect"
  <2>1. Verdict(l) = "Connected"
      BY <1>1 DEF Verdict
  <2>2. failed[l] = {} /\ plan[l] \subseteq attempted[l]
      BY <1>1 DEF Bookkeeping, Exhausted
  <2>3. plan[l] \ Deferred = applied[l]
      BY <2>2 DEF Bookkeeping
  <2> QED BY <2>1, <2>2, <2>3
<1>2. CASE mode[l] = "rollback"
  <2>1. Verdict(l) = IF stuck[l] = {} THEN "FailedRecoverable" ELSE "FailedDirty"
      BY <1>2 DEF Verdict
  <2>2. failed[l] # {} /\ ToUndo(l) = {}
      BY <1>2 DEF Bookkeeping, Exhausted
  <2>3. undone[l] = applied[l] \cap Undoable
      BY <2>2 DEF Bookkeeping, ToUndo
  <2> QED BY <2>1, <2>2, <2>3
<1>3. CASE mode[l] = "disconnect"
  <2>1. Verdict(l) = IF failed[l] = {} THEN "Idle" ELSE "FailedDirty"
      BY <1>3 DEF Verdict
  <2>2. undone[l] = {} /\ plan[l] \subseteq attempted[l]
      BY <1>3 DEF Bookkeeping, Exhausted
  <2>3. failed[l] = {} => plan[l] \ Deferred = applied[l]
      BY <2>2 DEF Bookkeeping
  <2> QED BY <2>1, <2>2, <2>3
<1> QED BY <1>1, <1>2, <1>3 DEF TypeOK, Modes

LEMMA VerdictStep ==
    TypeOK /\ Bookkeeping /\ VerdictIsHonest /\ [Next]_engineVars => VerdictIsHonest'
<1> SUFFICES ASSUME TypeOK, Bookkeeping, VerdictIsHonest, [Next]_engineVars PROVE VerdictIsHonest'
    OBVIOUS
<1>1. ASSUME NEW l \in Launchers, NEW kind \in {"connect", "disconnect"},
             NEW steps \in SUBSET Steps, Begin(l, kind, steps)
      PROVE  VerdictIsHonest'
    BY <1>1 DEF TypeOK, VerdictIsHonest, Begin
<1>2. ASSUME NEW l \in Launchers, NEW s \in Steps, Skip(l, s)
      PROVE  VerdictIsHonest'
    BY <1>2 DEF TypeOK, VerdictIsHonest, Ready, Skip
<1>3. ASSUME NEW l \in Launchers, NEW s \in Steps, ApplyOk(l, s)
      PROVE  VerdictIsHonest'
    BY <1>3 DEF TypeOK, VerdictIsHonest, Ready, ApplyOk
<1>4. ASSUME NEW l \in Launchers, NEW s \in Steps, ApplyFail(l, s)
      PROVE  VerdictIsHonest'
    BY <1>4 DEF TypeOK, VerdictIsHonest, Ready, ModeAfterError, ApplyFail
<1>5. ASSUME NEW l \in Launchers, NEW s \in Steps, UndoOk(l, s)
      PROVE  VerdictIsHonest'
    BY <1>5 DEF TypeOK, VerdictIsHonest, ReadyToUndo, UndoOk
<1>6. ASSUME NEW l \in Launchers, NEW s \in Steps, UndoFail(l, s)
      PROVE  VerdictIsHonest'
    BY <1>6 DEF TypeOK, VerdictIsHonest, ReadyToUndo, UndoFail
<1>7. ASSUME NEW l \in Launchers, Return(l)
      PROVE  VerdictIsHonest'
  <2>1. mode[l] # "off" /\ Exhausted(l)
      BY <1>7 DEF Return, Exhausted
  <2>2. outcome'[l] = Verdict(l)
      BY <1>7 DEF Return, TypeOK
  <2> QED BY <1>7, <2>1, <2>2, VerdictOfExhausted DEF TypeOK, VerdictIsHonest, Return
<1>8. ASSUME NEW l \in Launchers, Kill(l)
      PROVE  VerdictIsHonest'
    BY <1>8 DEF TypeOK, VerdictIsHonest, Kill
<1>9. CASE UNCHANGED engineVars
    BY <1>9 DEF VerdictIsHonest, engineVars
<1> QED
    BY <1>1, <1>2, <1>3, <1>4, <1>5, <1>6, <1>7, <1>8, <1>9 DEF Next

\* A Result says Connected or Idle only when every step succeeded, and
\* FailedRecoverable only when all that could be undone was, for every plan.
THEOREM VerdictHolds == Spec => []VerdictIsHonest
BY TypeInit, TypeStep, BookkeepingInit, BookkeepingStep, VerdictInit, VerdictStep, PTL
   DEF Spec

-------------------------------------------------------------------------------
\* After an error

\* Only a launcher that connects or disconnects attempts steps, and one that
\* connects has met no error.
LEMMA NoApplyAfterErrorStep ==
    ASSUME TypeOK, Bookkeeping, [Next]_engineVars
    PROVE  [\A l \in Launchers :
               mode[l] \in {"connect", "rollback"} /\ failed[l] # {}
                 => attempted'[l] = attempted[l]]_engineVars
<1> SUFFICES ASSUME Next, NEW k \in Launchers, mode[k] \in {"connect", "rollback"}, failed[k] # {}
             PROVE  attempted'[k] = attempted[k]
    OBVIOUS
<1>0. mode[k] = "rollback"
    BY DEF Bookkeeping
<1>1. ASSUME NEW l \in Launchers, NEW kind \in {"connect", "disconnect"},
             NEW steps \in SUBSET Steps, Begin(l, kind, steps)
      PROVE  attempted'[k] = attempted[k]
    BY <1>0, <1>1 DEF TypeOK, Begin
<1>2. ASSUME NEW l \in Launchers, NEW s \in Steps,
             Skip(l, s) \/ ApplyOk(l, s) \/ ApplyFail(l, s)
      PROVE  attempted'[k] = attempted[k]
  <2>1. l # k
      BY <1>0, <1>2 DEF Skip, ApplyOk, ApplyFail, Ready
  <2> QED BY <1>2, <2>1 DEF TypeOK, Skip, ApplyOk, ApplyFail
<1>3. ASSUME NEW l \in Launchers, NEW s \in Steps, UndoOk(l, s) \/ UndoFail(l, s)
      PROVE  attempted'[k] = attempted[k]
    BY <1>3 DEF UndoOk, UndoFail
<1>4. ASSUME NEW l \in Launchers, Return(l) \/ Kill(l)
      PROVE  attempted'[k] = attempted[k]
    BY <1>4 DEF Return, Kill
<1> QED
    BY <1>1, <1>2, <1>3, <1>4 DEF Next

\* A connect that met an error attempts nothing more, for every plan.
THEOREM NoApplyAfterErrorHolds == Spec => NoApplyAfterError
<1>1. TypeOK /\ Bookkeeping /\ [Next]_engineVars =>
        [\A l \in Launchers :
            mode[l] \in {"connect", "rollback"} /\ failed[l] # {}
              => attempted'[l] = attempted[l]]_engineVars
    BY NoApplyAfterErrorStep
<1> QED BY <1>1, TypeCorrect, BookkeepingHolds, PTL DEF Spec, NoApplyAfterError
===============================================================================
