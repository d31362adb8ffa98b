------------------------- MODULE MCOrchestrationEngine -------------------------
(***************************************************************************)
(* Instances of the engine for TLC: one plan of LongLength steps, of which *)
(* the first is timed, and any others without steps.                       *)
(***************************************************************************)
EXTENDS OrchestrationEngine, TLC

CONSTANTS LongPlan, LongLength

MCLength     == [p \in Plans |-> IF p = LongPlan THEN LongLength ELSE 0]
MCTimedSteps == {<<LongPlan, 1>>}
=============================================================================
