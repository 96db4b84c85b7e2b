------------------------------ MODULE StepEngine ------------------------------
(***************************************************************************)
(* The plan engine of internal/engine/engine.go, run by every launcher     *)
(* process that changes the host.  A plan is a set of steps; Rank gives    *)
(* the order of the plan's slice (steps of equal rank may come in either   *)
(* order).  What a step does to the host is not here: a component that     *)
(* uses the engine INSTANCEs this module and conjoins each engine action   *)
(* with the effect of the executor's Apply or Rollback.                    *)
(***************************************************************************)
EXTENDS Naturals

CONSTANTS
    Launchers,  \* the processes that run a plan
    Steps,      \* every step a plan can hold
    Rank,       \* Rank[s]: the place of step s in the plan's order
    Undoable,   \* the steps with a non-empty Rollback
    Deferred    \* the steps planned with SkippedUntilApply

ASSUME EngineAssumption ==
    /\ Rank \in [Steps -> Nat]
    /\ Undoable \subseteq Steps
    /\ Deferred \subseteq Steps

VARIABLES
    mode,       \* what each launcher is doing: see Modes
    plan,       \* the steps of its plan
    attempted,  \* the steps whose Apply was called (or skipped) in this run
    applied,    \* the steps whose Apply returned nil (runConnect's applied)
    failed,     \* the steps whose Apply returned an error
    undone,     \* the steps whose Rollback was called
    stuck,      \* the steps whose Rollback returned an error
    outcome     \* the State of the last Result

engineVars == <<mode, plan, attempted, applied, failed, undone, stuck, outcome>>

Modes == {"off", "connect", "rollback", "disconnect"}

\* "None" before the first run, "Killed" when the process died without a Result.
Outcomes == {"None", "Connected", "FailedRecoverable", "FailedDirty", "Idle", "Killed"}

-------------------------------------------------------------------------------

\* A loop that took the steps in any order.
ReadyAnyOrder(l, s) ==
    /\ mode[l] \in {"connect", "disconnect"}
    /\ s \in plan[l] \ attempted[l]

\* The loop of runConnect or runDisconnect reaches s: nothing earlier is left.
Ready(l, s) ==
    /\ mode[l] \in {"connect", "disconnect"}
    /\ s \in plan[l] \ attempted[l]
    /\ \A t \in plan[l] \ attempted[l] : Rank[s] <= Rank[t]

\* A rollback of every step of the plan, applied or not.
ToUndoWholePlan(l) == (plan[l] \cap Undoable) \ undone[l]

ToUndo(l) == (applied[l] \cap Undoable) \ undone[l]

\* A loop that undid the oldest step first.
ReadyOldestFirst(l, s) ==
    /\ mode[l] = "rollback"
    /\ s \in ToUndo(l)
    /\ \A t \in ToUndo(l) : Rank[s] <= Rank[t]

\* The loop of rollbackApplied reaches s: it counts down over applied.
ReadyToUndo(l, s) ==
    /\ mode[l] = "rollback"
    /\ s \in ToUndo(l)
    /\ \A t \in ToUndo(l) : Rank[t] <= Rank[s]

\* Engine.Run: the plan's kind selects the loop.
Begin(l, kind, steps) ==
    /\ mode[l] = "off"
    /\ kind \in {"connect", "disconnect"}
    /\ mode' = [mode EXCEPT ![l] = kind]
    /\ plan' = [plan EXCEPT ![l] = steps]
    /\ attempted' = [attempted EXCEPT ![l] = {}]
    /\ applied' = [applied EXCEPT ![l] = {}]
    /\ failed' = [failed EXCEPT ![l] = {}]
    /\ undone' = [undone EXCEPT ![l] = {}]
    /\ stuck' = [stuck EXCEPT ![l] = {}]
    /\ UNCHANGED outcome

\* step.SkippedUntilApply: recorded, never applied, never rolled back.
Skip(l, s) ==
    /\ Ready(l, s)
    /\ s \in Deferred
    /\ attempted' = [attempted EXCEPT ![l] = @ \cup {s}]
    /\ UNCHANGED <<mode, plan, applied, failed, undone, stuck, outcome>>

\* executor.Apply returned nil.
ApplyOk(l, s) ==
    /\ Ready(l, s)
    /\ s \notin Deferred
    /\ attempted' = [attempted EXCEPT ![l] = @ \cup {s}]
    /\ applied' = [applied EXCEPT ![l] = @ \cup {s}]
    /\ UNCHANGED <<mode, plan, failed, undone, stuck, outcome>>

\* A loop that went on after an error while connecting.
ModeAfterErrorUnchecked(l) == mode[l]

\* runConnect turns to rollbackApplied; runDisconnect notes the error and
\* continues with the next step.
ModeAfterError(l) == IF mode[l] = "connect" THEN "rollback" ELSE mode[l]

\* executor.Apply returned an error.
ApplyFail(l, s) ==
    /\ Ready(l, s)
    /\ s \notin Deferred
    /\ attempted' = [attempted EXCEPT ![l] = @ \cup {s}]
    /\ failed' = [failed EXCEPT ![l] = @ \cup {s}]
    /\ mode' = [mode EXCEPT ![l] = ModeAfterError(l)]
    /\ UNCHANGED <<plan, applied, undone, stuck, outcome>>

\* executor.Rollback returned nil.
UndoOk(l, s) ==
    /\ ReadyToUndo(l, s)
    /\ undone' = [undone EXCEPT ![l] = @ \cup {s}]
    /\ UNCHANGED <<mode, plan, attempted, applied, failed, stuck, outcome>>

\* executor.Rollback returned an error: joined to the others, the loop goes on.
UndoFail(l, s) ==
    /\ ReadyToUndo(l, s)
    /\ undone' = [undone EXCEPT ![l] = @ \cup {s}]
    /\ stuck' = [stuck EXCEPT ![l] = @ \cup {s}]
    /\ UNCHANGED <<mode, plan, attempted, applied, failed, outcome>>

\* A loop that waited for every step to succeed.
ExhaustedWhenApplied(l) ==
    \/ mode[l] \in {"connect", "disconnect"} /\ plan[l] \subseteq applied[l]
    \/ mode[l] = "rollback" /\ ToUndo(l) = {}

\* A loop that a disconnect, too, left at its first error.
ExhaustedAtError(l) ==
    \/ mode[l] \in {"connect", "disconnect"} /\ (plan[l] \subseteq attempted[l] \/ failed[l] # {})
    \/ mode[l] = "rollback" /\ ToUndo(l) = {}

\* Nothing is left of the loop the launcher is in.
Exhausted(l) ==
    \/ mode[l] \in {"connect", "disconnect"} /\ plan[l] \subseteq attempted[l]
    \/ mode[l] = "rollback" /\ ToUndo(l) = {}

\* A Result whose State was never moved on.
VerdictNeverSet(l) == IF mode[l] = "disconnect" THEN "Disconnecting" ELSE "Connecting"

\* A Result that ignores what rollbackApplied returned.
VerdictIgnoringRollback(l) ==
    CASE mode[l] = "connect" -> "Connected"
      [] mode[l] = "rollback" -> "FailedRecoverable"
      [] OTHER -> IF failed[l] = {} THEN "Idle" ELSE "FailedDirty"

\* The State of the Result that Run returns.
Verdict(l) ==
    CASE mode[l] = "connect" -> "Connected"
      [] mode[l] = "rollback" -> IF stuck[l] = {} THEN "FailedRecoverable" ELSE "FailedDirty"
      [] OTHER -> IF failed[l] = {} THEN "Idle" ELSE "FailedDirty"

Return(l) ==
    /\ Exhausted(l)
    /\ outcome' = [outcome EXCEPT ![l] = Verdict(l)]
    /\ mode' = [mode EXCEPT ![l] = "off"]
    /\ UNCHANGED <<plan, attempted, applied, failed, undone, stuck>>

\* The process is killed between two calls or inside one: there is no Result,
\* and nothing the run did is rolled back.
Kill(l) ==
    /\ mode[l] # "off"
    /\ mode' = [mode EXCEPT ![l] = "off"]
    /\ outcome' = [outcome EXCEPT ![l] = "Killed"]
    /\ UNCHANGED <<plan, attempted, applied, failed, undone, stuck>>

-------------------------------------------------------------------------------

Init ==
    /\ mode = [l \in Launchers |-> "off"]
    /\ plan = [l \in Launchers |-> {}]
    /\ attempted = [l \in Launchers |-> {}]
    /\ applied = [l \in Launchers |-> {}]
    /\ failed = [l \in Launchers |-> {}]
    /\ undone = [l \in Launchers |-> {}]
    /\ stuck = [l \in Launchers |-> {}]
    /\ outcome = [l \in Launchers |-> "None"]

Next ==
    \E l \in Launchers :
        \/ \E kind \in {"connect", "disconnect"}, steps \in SUBSET Steps : Begin(l, kind, steps)
        \/ \E s \in Steps :
              Skip(l, s) \/ ApplyOk(l, s) \/ ApplyFail(l, s) \/ UndoOk(l, s) \/ UndoFail(l, s)
        \/ Return(l)
        \/ Kill(l)

Spec == Init /\ [][Next]_engineVars

\* One turn of the loop a launcher is in, or the return from it.
Turn(l) ==
    \/ \E s \in Steps :
          Skip(l, s) \/ ApplyOk(l, s) \/ ApplyFail(l, s) \/ UndoOk(l, s) \/ UndoFail(l, s)
    \/ Return(l)

\* Run never waits for a person, and the commands the executors call return.
FairSpec == Spec /\ \A l \in Launchers : WF_engineVars(Turn(l))

-------------------------------------------------------------------------------

TypeOK ==
    /\ mode \in [Launchers -> Modes]
    /\ outcome \in [Launchers -> Outcomes]
    /\ plan \in [Launchers -> SUBSET Steps]
    /\ attempted \in [Launchers -> SUBSET Steps]
    /\ applied \in [Launchers -> SUBSET Steps]
    /\ failed \in [Launchers -> SUBSET Steps]
    /\ undone \in [Launchers -> SUBSET Steps]
    /\ stuck \in [Launchers -> SUBSET Steps]

\* How the sets of one run relate: what strengthens the invariants below.
Bookkeeping ==
    \A l \in Launchers :
        /\ attempted[l] \subseteq plan[l]
        /\ applied[l] \cup failed[l] \subseteq attempted[l] \ Deferred
        /\ attempted[l] \ Deferred \subseteq applied[l] \cup failed[l]
        /\ applied[l] \cap failed[l] = {}
        /\ stuck[l] \subseteq undone[l]
        /\ undone[l] \subseteq applied[l] \cap Undoable
        /\ mode[l] = "connect" => failed[l] = {} /\ undone[l] = {}
        /\ mode[l] = "rollback" => failed[l] # {}
        /\ mode[l] = "disconnect" => undone[l] = {}

\* A step is attempted only when every step before it was: the order of the
\* plan's slice is the order on the host.
InPlanOrder ==
    \A l \in Launchers : \A s \in attempted[l], t \in plan[l] :
        Rank[t] < Rank[s] => t \in attempted[l]

\* While a run is being rolled back, no step is undone before a later one that
\* was applied: interfaces go before the process they use, routes last
\* (rollbackApplied's countdown).
NewestUndoneFirst ==
    \A l \in Launchers : \A s \in undone[l], t \in applied[l] \cap Undoable :
        Rank[s] < Rank[t] => t \in undone[l]

\* What the Result's State promises about the run that just ended: Connected
\* and Idle mean every step succeeded, FailedRecoverable means a step failed
\* and every applied step that can be undone was, without an error.
VerdictIsHonest ==
    \A l \in Launchers : mode[l] = "off" =>
        /\ outcome[l] \in {"Connected", "Idle"} => failed[l] = {} /\ plan[l] \ Deferred = applied[l]
        /\ outcome[l] = "FailedRecoverable" =>
              /\ failed[l] # {}
              /\ undone[l] = applied[l] \cap Undoable
              /\ stuck[l] = {}
        /\ outcome[l] = "FailedDirty" =>
              /\ failed[l] # {}
              /\ undone[l] \in {{}, applied[l] \cap Undoable}

\* A connect that met an error never attempts another step of its plan: it can
\* only undo, return or die (runConnect's early return).
NoApplyAfterError ==
    [][\A l \in Launchers :
          mode[l] \in {"connect", "rollback"} /\ failed[l] # {}
            => attempted'[l] = attempted[l]]_engineVars

\* Every run returns, whatever fails in it: the loops of Run count steps, not
\* successes.
EveryRunEnds == \A l \in Launchers : mode[l] # "off" ~> mode[l] = "off"
===============================================================================
