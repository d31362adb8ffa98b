----------------------------- MODULE MCWorkerQueue -----------------------------
(***************************************************************************)
(* Instances of the worker queue for TLC.  The first task is more urgent   *)
(* than the others, whose order the heap does not determine.               *)
(***************************************************************************)
EXTENDS WorkerQueueProperties, TLC

CONSTANT Urgent

MCPriority == [t \in Tasks |-> IF t = Urgent THEN 0 ELSE 1]
=============================================================================
