-------------------------- MODULE MCWorkflowScheduler --------------------------
(***************************************************************************)
(* Instances of the scheduler for TLC.                                     *)
(***************************************************************************)
EXTENDS WorkflowScheduler, TLC

CONSTANT Urgent     \* the one task that goes before the others

MCPriority == [t \in Tasks |-> IF t = Urgent THEN 0 ELSE 1]
=============================================================================
