----------------------------- MODULE MCRuntimeState -----------------------------
(***************************************************************************)
(* Instances of the phase store for TLC: two threads, of which one may     *)
(* find a guard true that the other makes stale.  Fault and start-up are   *)
(* the guarded calls, since both leave the phases the other one expects.   *)
(***************************************************************************)
EXTENDS RuntimeState

MCGuardedCalls == {<<"bootstrapping", "ready">>, <<"ready", "faulted">>}
=============================================================================
