------------------------- MODULE RuntimeLifecycleState -------------------------
(***************************************************************************)
(* What RuntimeLifecycle keeps of a runtime that comes up and goes down,   *)
(* and what must be true of it at any time.                                *)
(***************************************************************************)
EXTENDS Naturals, RuntimePhases

CONSTANTS
    Callers,    \* of shutdown(): stop(), a signal handler's task
    HookCount,  \* registered hooks, numbered in the order of their priority
    Slow,       \* hooks that outlast their own timeout
    MaxPauses   \* bound on the pauses of a behaviour

ASSUME LifecycleAssumption ==
    /\ HookCount \in Nat
    /\ Slow \subseteq 1..HookCount
    /\ MaxPauses \in Nat

VARIABLES
    phase,      \* RuntimeStateStore._phase
    startup,    \* how start() ended; "none": not called
    built,      \* the shutdown manager exists
    pauses,     \* pauses so far
    initiated,  \* _shutdown_initiated
    complete,   \* _shutdown_complete
    call,       \* where each caller's shutdown() stands
    current,    \* the hook that shutdown() runs or is about to run
    ended       \* how each hook ended, one entry per run of it

Hooks == 1..HookCount

LifecycleTypeOK ==
    /\ phase \in RuntimePhase
    /\ startup \in {"none", "early failure", "late failure", "done"}
    /\ built \in BOOLEAN
    /\ pauses \in 0..MaxPauses
    /\ initiated \in BOOLEAN
    /\ complete \in BOOLEAN
    /\ call \in [Callers -> {"idle", "announcing", "draining", "hooks", "stopping", "stopped",
                             "returned", "cancelled"}]
    /\ current \in [Callers -> 1..(HookCount + 1)]
    /\ ended \in [Callers -> [Hooks -> {"no", "returned", "raised", "timed out", "cut off",
                                      "skipped"}]]

-----------------------------------------------------------------------------
\* Whatever pauses, resumes, faults and shutdowns come together, a runtime
\* that had started is STOPPED when its shutdown is complete, and before that
\* it is STOPPED only when every hook has ended.
CompleteIsStopped ==
    /\ complete /\ startup = "done" => phase = "stopped"
    /\ phase = "stopped" => \E c \in Callers : \A h \in Hooks : ended[c][h] # "no"

\* However many callers, the hooks are run by one of them, and none is run
\* before those of a lower priority number have ended.
HooksRunOnce ==
    /\ LifecycleTypeOK
    /\ \A c, d \in Callers : c # d =>
          \A h \in Hooks : ended[c][h] = "no" \/ \A g \in Hooks : ended[d][g] = "no"
    /\ \A c \in Callers : \A h \in Hooks :
          ended[c][h] # "no" => \A g \in 1..h : ended[c][g] # "no"
=============================================================================
