----------------------------- MODULE RuntimePhases -----------------------------
(***************************************************************************)
(* The lifecycle phases of core/runtime_state.py and their transition      *)
(* graph, which every module about phases shares.                          *)
(***************************************************************************)

RuntimePhase == {"uninitialized", "bootstrapping", "ready", "running", "paused",
                 "draining", "stopping", "stopped", "faulted"}

VALID_TRANSITIONS ==
    [p \in RuntimePhase |->
        CASE p = "uninitialized" -> {"bootstrapping"}
          [] p = "bootstrapping" -> {"ready", "faulted"}
          [] p = "ready"         -> {"running", "stopping", "faulted"}
          [] p = "running"       -> {"paused", "draining", "stopping", "faulted"}
          [] p = "paused"        -> {"running", "stopping", "faulted"}
          [] p = "draining"      -> {"stopping", "faulted"}
          [] p = "stopping"      -> {"stopped"}
          [] p = "stopped"       -> {}
          [] p = "faulted"       -> {"stopping"}]

ACCEPTING_PHASES == {"ready", "running"}
=============================================================================
