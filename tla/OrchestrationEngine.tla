-------------------------- MODULE OrchestrationEngine --------------------------
(***************************************************************************)
(* The orchestration engine of core/orchestration_engine.py: execute() of  *)
(* several plans at a time over what the workflow scheduler promises (see  *)
(* WorkflowLifecycle), with stop() and callers that are cancelled.         *)
(*                                                                         *)
(* execute() may yield while it publishes PlanStartedEvent and             *)
(* PlanCompletedEvent, while schedule() publishes, and in wait_for; its    *)
(* lock is never contended.                                                *)
(***************************************************************************)
EXTENDS Naturals, FiniteSets

CONSTANTS
    Plans,      \* OrchestrationPlan objects, each executed once
    Length,     \* plan -> number of its steps
    MaxParallel,\* OrchestrationPolicy.max_parallel_steps
    TimedSteps  \* steps whose timeout_seconds is set

ASSUME EngineAssumption ==
    /\ IsFiniteSet(Plans)
    /\ Length \in [Plans -> Nat]
    /\ MaxParallel \in Nat \ {0}

VARIABLES
    fn, answer, \* the workflows of the steps
    stopping,   \* _stopping
    kind,       \* strategy of each plan, and whether its policy has fail_fast
    plan,       \* where execute() stands
    step,       \* where each _run_step stands
    result,     \* success and error of each OrchestrationResult
    active,     \* _active_plans
    completed,  \* _completed_plans
    stats       \* _plans_submitted, _plans_succeeded, _plans_failed

workflowVars == <<fn, answer>>
bookVars == <<active, completed, stats>>
vars == <<workflowVars, stopping, kind, plan, step, result, bookVars>>

Indexes(p) == 1..Length[p]
Steps      == UNION {{p} \X Indexes(p) : p \in Plans}

Workflows == INSTANCE WorkflowLifecycle WITH Tasks <- Steps

\* PlanStrategy; "fail_fast" is SEQUENTIAL under a policy with fail_fast.
Kinds == {"sequential", "fail_fast", "parallel", "best_effort"}

TypeOK ==
    /\ Workflows!TypeOK
    /\ stopping \in BOOLEAN
    /\ kind \in [Plans -> Kinds]
    /\ plan \in [Plans -> {"new", "announcing", "running", "closing", "returned", "raised"}]
    /\ step \in [Steps -> {"idle", "scheduling", "awaiting", "succeeded", "failed"}]
    /\ result \in [Plans -> [success: BOOLEAN,
                             error: {"none", "step failed", "plan cancelled", "engine stopping"}]]
    /\ active \subseteq Plans
    /\ completed \subseteq Plans
    /\ stats \in [submitted: Nat, succeeded: Nat, failed: Nat]

Init ==
    /\ Workflows!Init
    /\ stopping = FALSE
    /\ kind \in [Plans -> Kinds]
    /\ plan = [p \in Plans |-> "new"]
    /\ step = [s \in Steps |-> "idle"]
    /\ result = [p \in Plans |-> [success |-> FALSE, error |-> "none"]]
    /\ active = {}
    /\ completed = {}
    /\ stats = [submitted |-> 0, succeeded |-> 0, failed |-> 0]

Sequential(p) == kind[p] \in {"sequential", "fail_fast"}
InFlight(p)   == {i \in Indexes(p) : step[<<p, i>>] \in {"scheduling", "awaiting"}}
Ended(p, i)   == step[<<p, i>>] \in {"succeeded", "failed"}
AllSucceed(p) == \A i \in Indexes(p) : step[<<p, i>>] = "succeeded"

-----------------------------------------------------------------------------
(* execute *)

\* An engine that is stopping, or a runtime that accepts no work just now,
\* makes execute() raise and changes nothing.
Execute(p) ==
    /\ plan[p] = "new"
    /\ ~stopping
    /\ plan' = [plan EXCEPT ![p] = "announcing"]
    /\ active' = active \cup {p}
    /\ stats' = [stats EXCEPT !.submitted = @ + 1]
    /\ UNCHANGED <<workflowVars, stopping, kind, step, result, completed>>

Announced(p) ==
    /\ plan[p] = "announcing"
    /\ plan' = [plan EXCEPT ![p] = "running"]
    /\ UNCHANGED <<workflowVars, stopping, kind, step, result, bookVars>>

\* Variant: a step that is refused, times out or is cancelled keeps its slot.
SlotsKept(p) == {i \in Indexes(p) : step[<<p, i>>] \in {"scheduling", "awaiting", "failed"}}
\* The slots of the semaphore of a parallel plan that are taken.
Slots(p) == InFlight(p)

\* Variant: fail_fast is not consulted between the steps.
PredecessorsAllowSlow(p, i) == \A j \in 1..(i - 1) : Ended(p, j)
\* Sequentially a step follows the end of the one before it, with fail_fast
\* its success.  In parallel a step takes a slot of the semaphore, which is
\* first come, first served.
PredecessorsAllow(p, i) ==
    IF Sequential(p)
    THEN \A j \in 1..(i - 1) : IF kind[p] = "fail_fast" THEN step[<<p, j>>] = "succeeded"
                                                   ELSE Ended(p, j)
    ELSE /\ \A j \in 1..(i - 1) : step[<<p, j>>] # "idle"
         /\ Cardinality(Slots(p)) < MaxParallel

\* _run_step up to where schedule() publishes; or schedule() raises, with the
\* workflow registered (a full queue) or not (a stopping scheduler).
StartStep(p, i) ==
    LET s == <<p, i>> IN
    /\ plan[p] = "running" /\ step[s] = "idle"
    /\ PredecessorsAllow(p, i)
    /\ \/ Workflows!Schedule(s) /\ step' = [step EXCEPT ![s] = "scheduling"]
       \/ Workflows!Refuse(s)   /\ step' = [step EXCEPT ![s] = "failed"]
       \/ UNCHANGED workflowVars /\ step' = [step EXCEPT ![s] = "failed"]
    /\ UNCHANGED <<stopping, kind, plan, result, bookVars>>

StepMoves(s, from, to) ==
    /\ step[s] = from
    /\ step' = [step EXCEPT ![s] = to]
    /\ UNCHANGED <<workflowVars, stopping, kind, plan, result, bookVars>>

Scheduled(s) == StepMoves(s, "scheduling", "awaiting")

\* Variant: what wait_for raises is taken for a result.
OutcomeIgnored(s) == "succeeded"
Outcome(s) == IF answer[s] = "result" THEN "succeeded" ELSE "failed"

StepAnswered(s) ==
    /\ answer[s] \notin {"none", "pending"}
    /\ StepMoves(s, "awaiting", Outcome(s))

\* The step's own timeout around wait_for; its workflow goes on.
StepTimesOut(s) == s \in TimedSteps /\ StepMoves(s, "awaiting", "failed")

\* Variant: the plan leaves _active_plans only when it returns.
CloseLate(p, ok) ==
    /\ completed' = completed \cup {p}
    /\ stats' = IF ok THEN [stats EXCEPT !.succeeded = @ + 1]
                      ELSE [stats EXCEPT !.failed = @ + 1]
    /\ UNCHANGED active
\* The end of execute() up to the publication of PlanCompletedEvent.
Close(p, ok) ==
    /\ active' = active \ {p}
    /\ completed' = completed \cup {p}
    /\ stats' = IF ok THEN [stats EXCEPT !.succeeded = @ + 1]
                      ELSE [stats EXCEPT !.failed = @ + 1]

FailsFast(p) == /\ kind[p] = "fail_fast"
                /\ \E i \in Indexes(p) : step[<<p, i>>] = "failed"

Verdict(p) == kind[p] = "best_effort" \/ AllSucceed(p)

\* The strategy is through: fail-fast leaves its own error, anything else
\* computes success and leaves the error as it finds it.
Finish(p) ==
    /\ plan[p] = "running"
    /\ \/ /\ FailsFast(p)
          /\ result' = [result EXCEPT ![p] = [success |-> FALSE, error |-> "step failed"]]
       \/ /\ \A i \in Indexes(p) : Ended(p, i)
          /\ ~FailsFast(p)
          /\ result' = [result EXCEPT ![p].success = Verdict(p)]
    /\ Close(p, result'[p].success)
    /\ plan' = [plan EXCEPT ![p] = "closing"]
    /\ UNCHANGED <<workflowVars, stopping, kind, step>>

Published(p) ==
    /\ plan[p] = "closing"
    /\ plan' = [plan EXCEPT ![p] = "returned"]
    /\ UNCHANGED <<workflowVars, stopping, kind, step, result, bookVars>>

-----------------------------------------------------------------------------
(* Cancellation of the caller of execute(), stop() *)

\* A CancelledError ends every step in flight.  An untimed wait_for takes the
\* workflow's future with it, a timed one has its shield.
CancelSteps(p) ==
    LET S == {p} \X InFlight(p) IN
    /\ step' = [s \in Steps |-> IF s \in S THEN "failed" ELSE step[s]]
    /\ Workflows!Settle({s \in S : step[s] = "awaiting" /\ s \notin TimedSteps}, "cancelled")
    /\ UNCHANGED fn

\* The step swallows the cancellation, and execute() goes on after it.
CancelSequential(p) ==
    /\ plan[p] = "running" /\ Sequential(p) /\ InFlight(p) # {}
    /\ CancelSteps(p)
    /\ UNCHANGED <<stopping, kind, plan, result, bookVars>>

\* gather cancels the steps that run and those that wait for a slot, and
\* raises CancelledError when they have ended.
CancelParallel(p) ==
    /\ plan[p] = "running" /\ ~Sequential(p)
    /\ CancelSteps(p)
    /\ result' = [result EXCEPT ![p] = [success |-> FALSE, error |-> "plan cancelled"]]
    /\ Close(p, FALSE)
    /\ plan' = [plan EXCEPT ![p] = "closing"]
    /\ UNCHANGED <<stopping, kind>>

\* Both publications let the CancelledError through.  At the first the plan
\* has been entered in the books, and nothing takes it out again.
CancelPublication(p) ==
    /\ plan[p] \in {"announcing", "closing"}
    /\ plan' = [plan EXCEPT ![p] = "raised"]
    /\ UNCHANGED <<workflowVars, stopping, kind, step, result, bookVars>>

\* Variant: the results that are complete are marked as well.
MarkedAll == active \cup completed
Marked == active

\* stop() marks the results of the active plans; the plans themselves go on.
Stop ==
    /\ ~stopping
    /\ stopping' = TRUE
    /\ result' = [p \in Plans |-> IF p \in Marked
                                  THEN [success |-> FALSE, error |-> "engine stopping"]
                                  ELSE result[p]]
    /\ UNCHANGED <<workflowVars, kind, plan, step, bookVars>>

WorkflowProgress ==
    /\ Workflows!Progress
    /\ UNCHANGED <<stopping, kind, plan, step, result, bookVars>>

-----------------------------------------------------------------------------
\* What execute(), its steps and their timers do by themselves.
Advance(p) ==
    \/ Finish(p)
    \/ \E i \in Indexes(p) :
         StartStep(p, i) \/ StepAnswered(<<p, i>>) \/ StepTimesOut(<<p, i>>)

\* A publication has called the last handler of its event and returns.
Delivered(p) ==
    \/ Announced(p) \/ Published(p)
    \/ \E i \in Indexes(p) : Scheduled(<<p, i>>)

Cancel(p) == CancelSequential(p) \/ CancelParallel(p) \/ CancelPublication(p)

Next ==
    \/ Stop \/ WorkflowProgress
    \/ \E p \in Plans : Execute(p) \/ Advance(p) \/ Delivered(p) \/ Cancel(p)

Spec == Init /\ [][Next]_vars

\* The event loop resumes execute() whenever it can go on, and timers fire.
FairSpec == Spec /\ \A p \in Plans : WF_vars(Advance(p))

\* Every workflow is begun and its function returns or raises: a premise.
WorkflowsEnd ==
    \A s \in Steps :
        WF_vars(/\ Workflows!Begin(s) \/ Workflows!Return(s) \/ Workflows!Raise(s)
                /\ UNCHANGED <<stopping, kind, plan, step, result, bookVars>>)

\* The handlers of the events that execute() and schedule() publish end, as
\* the bus awaits each without a timeout: a premise.
HandlersEnd == \A p \in Plans : WF_vars(Delivered(p))

-----------------------------------------------------------------------------
(* Properties *)

\* A plan that is reported as a success, other than by best effort, ran every
\* function of its steps to its end and got a result from each, whatever was
\* cancelled, timed out or stopped on the way.
SuccessIsEarned ==
    \A p \in completed :
        result[p].success /\ kind[p] # "best_effort" =>
            \A i \in Indexes(p) : answer[<<p, i>>] = "result" /\ fn[<<p, i>>] = "ended"

\* The functions of a fail-fast sequential plan never overlap, and none begins
\* after one that failed, timed out or was cancelled.
OneAtATime ==
    \A p \in Plans : kind[p] = "fail_fast" =>
        \A i, j \in Indexes(p) :
            i < j /\ fn[<<p, j>>] # "none" =>
                fn[<<p, i>>] = "ended" /\ answer[<<p, i>>] = "result"

\* The counters agree with the two dictionaries, no plan is in both, and a
\* plan stays active without running only where its announcement was cancelled.
BooksBalance ==
    /\ TypeOK
    /\ stats.submitted = Cardinality(active \cup completed)
    /\ stats.succeeded + stats.failed = Cardinality(completed)
    /\ stats.succeeded = Cardinality({p \in completed : result[p].success})
    /\ active \cap completed = {}
    /\ \A p \in Plans : plan[p] \in {"closing", "returned"} => p \in completed
    /\ \A p \in active : plan[p] \in {"announcing", "running", "raised"}

\* The result of a plan in _completed_plans never changes, even if stop() or a
\* cancellation comes late.
CompletedIsFinal ==
    [][\A p \in completed : p \in completed' /\ result'[p] = result[p]]_vars

\* An untimed step of p awaits a workflow whose function ended without an
\* answer, and only a cancellation of execute() will ever end it.
Stranded(p) ==
    \E i \in Indexes(p) :
        /\ step[<<p, i>>] = "awaiting" /\ <<p, i>> \notin TimedSteps
        /\ fn[<<p, i>>] = "ended" /\ answer[<<p, i>>] = "pending"

\* While workflows and handlers end, a running plan does too: refused, timed
\* out and cancelled steps hold no other up.  Only a plan of which an untimed
\* step is stranded, from some moment on for good, may go on for ever.
PlanEnds ==
    WorkflowsEnd /\ HandlersEnd =>
        \A p \in Plans : plan[p] = "running" ~> p \in completed \/ []Stranded(p)

=============================================================================
