----------------------------- MODULE MCStepEngine -----------------------------
(* A small instance of StepEngine: six steps, two of equal rank, one without  *)
(* a rollback and one deferred.                                               *)
EXTENDS StepEngine

MCSteps == 1 .. 6
MCRank == [s \in MCSteps |-> IF s <= 2 THEN 1 ELSE s]
MCUndoable == MCSteps \ {3}
MCDeferred == {4}
===============================================================================
