---------------------------- MODULE RuntimeLifecycle ----------------------------
(***************************************************************************)
(* How the runtime comes up and goes down: RuntimeManager.start, pause,    *)
(* resume and stop (core/runtime_manager.py) over the LifecycleSupervisor  *)
(* and the ShutdownManager (core/lifecycle_supervisor.py).                 *)
(*                                                                         *)
(* All of it runs on one event loop.  start() never yields: none of the    *)
(* services' start coroutines suspends.  shutdown() may yield at every     *)
(* publication of an event and inside the hooks, and there anything else   *)
(* may happen: a second shutdown(), pause() and resume(), a fault.         *)
(***************************************************************************)
EXTENDS RuntimeLifecycleState

shutdownVars == <<initiated, complete, call, current, ended>>
vars == <<phase, startup, built, pauses, shutdownVars>>

Init ==
    /\ phase = "uninitialized"
    /\ startup = "none"
    /\ built = FALSE
    /\ pauses = 0
    /\ initiated = FALSE
    /\ complete = FALSE
    /\ call = [c \in Callers |-> "idle"]
    /\ current = [c \in Callers |-> 1]
    /\ ended = [c \in Callers |-> [h \in Hooks |-> "no"]]

-----------------------------------------------------------------------------
(* RuntimeManager.start, LifecycleSupervisor *)

\* start() never yields, so its three transitions are one step.
Start ==
    /\ startup = "none"
    /\ startup' = "done" /\ built' = TRUE
    /\ phase' = "running"
    /\ UNCHANGED <<pauses, shutdownVars>>

\* _build_services raises before there is a shutdown manager (WorkerQueue
\* refuses a max_size of 0), or installing the signal handlers raises outside
\* the main thread.  Nobody takes the phase any further.
StartFails ==
    /\ startup = "none"
    /\ \/ startup' = "early failure" /\ built' = FALSE
       \/ startup' = "late failure" /\ built' = TRUE
    /\ phase' = "bootstrapping"
    /\ UNCHANGED <<pauses, shutdownVars>>

\* Variant: the IllegalTransitionError is not caught.
SuperviseStrictly(target) == target \in VALID_TRANSITIONS[phase] /\ phase' = target
\* LifecycleSupervisor.transition: an illegal target is rejected quietly, a
\* legal one is announced.
Supervise(target) ==
    \/ target \in VALID_TRANSITIONS[phase] /\ phase' = target
    \/ target \notin VALID_TRANSITIONS[phase] /\ UNCHANGED phase

Pause ==
    /\ built /\ pauses < MaxPauses
    /\ Supervise("paused")
    /\ pauses' = pauses + 1
    /\ UNCHANGED <<startup, built, shutdownVars>>

Resume ==
    /\ built
    /\ Supervise("running")
    /\ UNCHANGED <<startup, built, pauses, shutdownVars>>

MarkFaulted ==
    /\ built
    /\ Supervise("faulted")
    /\ UNCHANGED <<startup, built, pauses, shutdownVars>>

-----------------------------------------------------------------------------
(* ShutdownManager.shutdown *)

\* Variant: the flag is not tested under the lock.
FirstAlways == TRUE
First == ~initiated

\* The first call publishes ShutdownRequestedEvent; any other returns at once,
\* whether or not the first is through.
Shutdown(c) ==
    /\ built /\ call[c] = "idle"
    /\ initiated' = TRUE
    /\ call' = [call EXCEPT ![c] = IF First THEN "announcing" ELSE "returned"]
    /\ UNCHANGED <<phase, startup, built, pauses, complete, current, ended>>

MarkDraining(c) ==
    /\ call[c] = "announcing"
    /\ Supervise("draining")
    /\ call' = [call EXCEPT ![c] = "draining"]
    /\ UNCHANGED <<startup, built, pauses, initiated, complete, current, ended>>

\* DRAINING is announced, or was rejected, and the hooks' turn comes.
RunHooks(c) ==
    /\ call[c] = "draining"
    /\ call' = [call EXCEPT ![c] = "hooks"]
    /\ UNCHANGED <<phase, startup, built, pauses, initiated, complete, current, ended>>

\* A hook ends in one of the ways that _run_hooks goes on from.
HookEnds(c, how) ==
    /\ call[c] = "hooks" /\ current[c] \in Hooks
    /\ current' = [current EXCEPT ![c] = @ + 1]
    /\ ended' = [ended EXCEPT ![c][current[c]] = how]
    /\ UNCHANGED <<phase, startup, built, pauses, initiated, complete, call>>

HookReturns(c) ==
    /\ current[c] \notin Slow
    /\ HookEnds(c, "returned") \/ HookEnds(c, "raised")

HookTimesOut(c) == HookEnds(c, "timed out")

\* The global timeout, which slow hooks or many may use up, cuts off the hook
\* that runs and skips every one after it.
GlobalTimeout(c) ==
    /\ call[c] = "hooks" /\ current[c] \in Hooks
    /\ current' = [current EXCEPT ![c] = HookCount + 1]
    /\ ended' = [ended EXCEPT ![c] = [h \in Hooks |->
                    IF h < current[c] THEN ended[c][h]
                    ELSE IF h = current[c] THEN "cut off" ELSE "skipped"]]
    /\ UNCHANGED <<phase, startup, built, pauses, initiated, complete, call>>

\* Variant: straight from the hooks to mark_stopped.
StoppingForgotten(c) ==
    /\ call[c] = "hooks" /\ current[c] = HookCount + 1
    /\ call' = [call EXCEPT ![c] = "stopping"]
    /\ UNCHANGED <<phase, startup, built, pauses, initiated, complete, current, ended>>
MarkStopping(c) ==
    /\ call[c] = "hooks" /\ current[c] = HookCount + 1
    /\ Supervise("stopping")
    /\ call' = [call EXCEPT ![c] = "stopping"]
    /\ UNCHANGED <<startup, built, pauses, initiated, complete, current, ended>>

MarkStopped(c) ==
    /\ call[c] = "stopping"
    /\ Supervise("stopped")
    /\ call' = [call EXCEPT ![c] = "stopped"]
    /\ UNCHANGED <<startup, built, pauses, initiated, complete, current, ended>>

SetComplete(c) ==
    /\ call[c] = "stopped"
    /\ complete' = TRUE
    /\ call' = [call EXCEPT ![c] = "returned"]
    /\ UNCHANGED <<phase, startup, built, pauses, initiated, current, ended>>

\* The caller is cancelled, or a handler of an event or a hook raises
\* CancelledError: `except Exception` lets it through and shutdown() ends.
ShutdownCancelled(c) ==
    /\ call[c] \in {"announcing", "draining", "hooks", "stopping", "stopped"}
    /\ call' = [call EXCEPT ![c] = "cancelled"]
    /\ UNCHANGED <<phase, startup, built, pauses, initiated, complete, current, ended>>

\* What shutdown(), its hooks and their timers do by themselves.
Proceed(c) == HookReturns(c) \/ HookTimesOut(c) \/ MarkStopping(c)

\* What shutdown() does when the event it published last has been delivered.
Delivered(c) == MarkDraining(c) \/ RunHooks(c) \/ MarkStopped(c) \/ SetComplete(c)

Next ==
    \/ Start \/ StartFails \/ Pause \/ Resume \/ MarkFaulted
    \/ \E c \in Callers :
         Shutdown(c) \/ Proceed(c) \/ Delivered(c) \/ GlobalTimeout(c) \/ ShutdownCancelled(c)

Spec == Init /\ [][Next]_vars

\* The loop resumes a shutdown() that can go on, and the timer of a hook fires
\* and cancels it, which the hook does not suppress.
FairSpec == Spec /\ \A c \in Callers : WF_vars(Proceed(c))

\* The handlers of the events that shutdown() publishes end, as the bus awaits
\* each without a timeout: a premise.
HandlersEnd == \A c \in Callers : WF_vars(Delivered(c))

-----------------------------------------------------------------------------
\* While handlers end, a shutdown that nobody cancels completes, even if hooks
\* hang, phases are rejected and start() had failed.
ShutdownCompletes ==
    HandlersEnd => (initiated ~> complete \/ \E c \in Callers : call[c] = "cancelled")
=============================================================================
