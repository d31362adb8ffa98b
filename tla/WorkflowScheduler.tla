--------------------------- MODULE WorkflowScheduler ---------------------------
(***************************************************************************)
(* The workflow scheduler of core/workflow_scheduler.py, composed with the *)
(* worker queue it drives: records and futures of its own, kept in step    *)
(* with the queue's tasks by the wrapper around each workflow function.    *)
(*                                                                         *)
(* schedule() makes one task per workflow, so both are named by the task.  *)
(* A workflow_id is scheduled once ("Globally unique ID").  schedule, up   *)
(* to its publication, cancel and stop never yield: their locks are never  *)
(* contended and neither submit nor cancel_task blocks.                    *)
(***************************************************************************)
EXTENDS Naturals, FiniteSets

CONSTANTS Tasks, Workers, MaxSize, Priority, Timed, SelfCancelling, NoTask

ASSUME SchedulerAssumption == IsFiniteSet(Tasks) /\ IsFiniteSet(Workers) /\ NoTask \notin Tasks

VARIABLES
    \* the queue
    status, future, attempts, queued, sentinels, worker, job, cancelling,
    started, stop, toSend, stats,
    \* the scheduler
    record,     \* WorkflowRecord.status; "none": not scheduled
    wfFuture,   \* the workflow's asyncio.Future in _futures
    stopping    \* _stopping

queueVars == <<status, future, attempts, queued, sentinels, worker, job,
               cancelling, started, stop, toSend, stats>>
schedVars == <<record, wfFuture, stopping>>
vars == <<queueVars, schedVars>>

\* Nobody waits on the queue itself: wait_for is called on the scheduler.
Queue == INSTANCE WorkerQueue
             WITH Clients <- {}, Nowait <- {}, wait <- <<>>, waitOn <- <<>>

RecordTerminal == {"completed", "failed", "cancelled", "timed_out"} \* WORKFLOW_TERMINAL

TypeOK ==
    /\ Queue!TypeOK
    \* PENDING is never seen: schedule() leaves it before it can yield.
    /\ record \in [Tasks -> {"none", "queued", "running"} \cup RecordTerminal]
    /\ wfFuture \in [Tasks -> {"none", "pending"} \cup Queue!Settled]
    /\ stopping \in BOOLEAN

Init ==
    /\ Queue!Init
    /\ record = [t \in Tasks |-> "none"]
    /\ wfFuture = [t \in Tasks |-> "none"]
    /\ stopping = FALSE

-----------------------------------------------------------------------------
(* schedule, cancel, stop, wait_for *)

\* Variant: the _stopping flag is not consulted.
OpenAlways == TRUE
Open == ~stopping

\* A record whose submission the queue refuses is FAILED; its future stays.
Schedule(t) ==
    /\ Open
    /\ record[t] = "none"
    /\ wfFuture' = [wfFuture EXCEPT ![t] = "pending"]
    /\ \/ Queue!Submit(t) /\ record' = [record EXCEPT ![t] = "queued"]
       \/ /\ Queue!Stopping \/ Queue!Full
          /\ record' = [record EXCEPT ![t] = "failed"]
          /\ UNCHANGED queueVars
    /\ UNCHANGED stopping

\* Variant: records are cancelled whatever the queue still means to do.
WithdrawNothing(T) == UNCHANGED queueVars
\* queue.cancel_task() of every task in T: those that still wait are cancelled.
Withdraw(T) ==
    LET C == {t \in T : status[t] = "pending"} IN
    /\ status' = [t \in Tasks |-> IF t \in C THEN "cancelled" ELSE status[t]]
    /\ future' = [t \in Tasks |-> IF t \in C /\ future[t] = "pending"
                                  THEN "cancelled" ELSE future[t]]
    /\ stats' = [stats EXCEPT !.cancelled = @ + Cardinality(C)]
    /\ UNCHANGED <<attempts, queued, sentinels, worker, job, cancelling,
                   started, stop, toSend>>

\* cancel() of every workflow in T.  The function of a running one goes on:
\* the queue does not cancel a task that runs.
CancelAll(T) ==
    /\ Withdraw(T)
    /\ record' = [t \in Tasks |-> IF t \in T THEN "cancelled" ELSE record[t]]
    /\ wfFuture' = [t \in Tasks |-> IF t \in T /\ wfFuture[t] = "pending"
                                    THEN "cancelled" ELSE wfFuture[t]]

\* Variant: cancel() does not test is_terminal.
CancellableAlways(t) == record[t] # "none"
Cancellable(t) == record[t] \in {"queued", "running"}

Cancel(t) ==
    /\ Cancellable(t)
    /\ CancelAll({t})
    /\ UNCHANGED stopping

StopScheduler ==
    /\ ~stopping
    /\ stopping' = TRUE
    /\ CancelAll({t \in Tasks : record[t] = "queued"})

\* A client of an untimed wait_for is cancelled, and the future with it.
WaiterCancelled(t) ==
    /\ wfFuture[t] = "pending"
    /\ wfFuture' = [wfFuture EXCEPT ![t] = "cancelled"]
    /\ UNCHANGED <<queueVars, record, stopping>>

-----------------------------------------------------------------------------
(* The wrapper that runs as the task's fn *)

\* The wrapper starts within the step that makes the task RUNNING.
BeginRun(w, t) ==
    /\ Queue!Begin(w, t)
    /\ record' = [record EXCEPT ![t] = "running"]
    /\ UNCHANGED <<wfFuture, stopping>>

\* The wrapper of worker w awaits the workflow's own function.
InFunction(w) ==
    /\ worker[w] = "busy" /\ w \notin cancelling
    /\ record[job[w]] \in {"running", "cancelled"}

\* Variant: the future is resolved without the test for done().
ResolveAlways(t, answer) == wfFuture' = [wfFuture EXCEPT ![t] = answer]
Resolve(t, answer) ==
    wfFuture' = IF wfFuture[t] = "pending"
                THEN [wfFuture EXCEPT ![t] = answer] ELSE wfFuture

\* The function returns: the record and the future say so at once, the queue
\* only after the event is published.
FnReturns(w) ==
    /\ InFunction(w)
    /\ record' = [record EXCEPT ![job[w]] = "completed"]
    /\ Resolve(job[w], "result")
    /\ UNCHANGED <<queueVars, stopping>>

\* Variant: the future is left to the queue.
FnRaisesQuietly(w) ==
    /\ InFunction(w)
    /\ record' = [record EXCEPT ![job[w]] = "failed"]
    /\ UNCHANGED <<queueVars, wfFuture, stopping>>
FnRaises(w) ==
    /\ InFunction(w)
    /\ record' = [record EXCEPT ![job[w]] = "failed"]
    /\ Resolve(job[w], "exception")
    /\ UNCHANGED <<queueVars, stopping>>

\* Variant: the wrapper does not re-raise.
PublishedSilently(w) ==
    /\ worker[w] = "busy" /\ record[job[w]] \in {"completed", "failed"}
    /\ Queue!Complete(w)
    /\ UNCHANGED schedVars
\* The publication ends, and the wrapper returns or re-raises to the queue.
Published(w) ==
    /\ \/ worker[w] = "busy" /\ record[job[w]] = "completed" /\ Queue!Complete(w)
       \/ worker[w] = "busy" /\ record[job[w]] = "failed" /\ Queue!Fail(w)
    /\ UNCHANGED schedVars

\* What reaches the wrapper as a CancelledError passes through it: its
\* `except Exception` does not see the queue's timeout, a cancelled worker or
\* a function that raises CancelledError, wherever the wrapper stands.
PassThrough(w) ==
    /\ Queue!TimeOut(w) \/ Queue!FnCancelled(w) \/ Queue!InterruptBusy(w)
    /\ UNCHANGED schedVars

-----------------------------------------------------------------------------
\* What the queue does without the scheduler's knowledge.
QueueAlone ==
    /\ \/ Queue!Start \/ Queue!Stop \/ Queue!StopPut \/ Queue!DrainTimeout
       \/ Queue!StopReturns \/ Queue!StopAborted
       \/ \E w \in Workers :
            \/ Queue!TakeSentinel(w) \/ Queue!InterruptIdle(w)
            \/ \E t \in Tasks : Queue!SkipCancelled(w, t)
    /\ UNCHANGED schedVars

Next ==
    \/ QueueAlone
    \/ StopScheduler
    \/ \E t \in Tasks : Schedule(t) \/ Cancel(t) \/ WaiterCancelled(t)
    \/ \E w \in Workers :
         \/ \E t \in Tasks : BeginRun(w, t)
         \/ FnReturns(w) \/ FnRaises(w) \/ Published(w) \/ PassThrough(w)

Spec == Init /\ [][Next]_vars

\* Idle workers take what is queued.
FairSpec ==
    /\ Spec
    /\ WF_vars(\E w \in Workers : \E t \in Tasks :
                 BeginRun(w, t) \/ (Queue!SkipCancelled(w, t) /\ UNCHANGED schedVars))

\* Every workflow function returns or raises: a premise.
FunctionsReturn == \A w \in Workers : WF_vars(FnReturns(w) \/ FnRaises(w))

\* The handlers of the events that the wrapper publishes end: a premise.
HandlersEnd == \A w \in Workers : WF_vars(Published(w))

-----------------------------------------------------------------------------
(* Safety *)

\* Record and task move together: a workflow is QUEUED exactly while its task
\* waits in the queue, COMPLETED tasks belong to COMPLETED workflows, and a
\* task whose workflow was cancelled while queued is never begun.
InStep ==
    /\ TypeOK
    /\ \A t \in Tasks :
         /\ record[t] = "queued" <=> status[t] = "pending"
         /\ record[t] = "queued" => t \in queued
         /\ status[t] = "completed" => record[t] = "completed"
         /\ record[t] = "running" => status[t] \in {"running", "failed", "cancelled"}

\* A client of wait_for is never told of a result or an exception the record
\* does not show.  The future of a task that is neither timed nor cancels
\* itself never carries a value while that of its workflow carries an exception
\* of the function, or the reverse; a late cancel() may have cancelled it.
FuturesAgree ==
    /\ \A t \in Tasks :
         /\ wfFuture[t] = "result" => record[t] = "completed"
         /\ wfFuture[t] = "exception" => record[t] = "failed"
    /\ \A t \in Tasks \ (Timed \cup SelfCancelling) :
         /\ future[t] = "result" => wfFuture[t] \in {"result", "cancelled"}
         /\ future[t] = "exception" => wfFuture[t] \in {"exception", "cancelled"}

\* After stop() no workflow waits any more, and none is accepted.
StopLeavesNoneQueued == stopping => \A t \in Tasks : record[t] # "queued"

\* A workflow that COMPLETED or FAILED keeps its outcome, whoever cancels it
\* late, and one that ended in any way never waits or starts again.
OutcomeStable ==
    [][\A t \in Tasks :
         /\ record[t] \in {"completed", "failed"} => record'[t] = record[t]
         /\ record[t] = "cancelled" => record'[t] \notin {"queued", "running"}]_vars

\* Where a workflow's function stands: it may run on for a record that says
\* CANCELLED, and it has ended while the queue still calls its task RUNNING.
Fn(t) == CASE record[t] = "none"    -> "none"
           [] status[t] = "pending" -> "waiting"
           [] status[t] = "running" /\ record[t] \in {"running", "cancelled"} -> "running"
           [] OTHER                 -> "ended"

Workflows == INSTANCE WorkflowLifecycle
                 WITH fn <- [t \in Tasks |-> Fn(t)], answer <- wfFuture

\* The scheduler implements what its clients see of it.
ImplementsWorkflows == Workflows!Spec

\* While functions return and handlers end, a workflow that a started queue
\* accepted settles its future, unless its own timeout or its function's
\* CancelledError bypasses the wrapper, the queue is stopped or its workers
\* have all been lost.
AcceptedSettles ==
    FunctionsReturn /\ HandlersEnd =>
        \A t \in Tasks \ (Timed \cup SelfCancelling) :
            started /\ record[t] = "queued" ~>
                wfFuture[t] \in Queue!Settled \/ Queue!Stopping \/ Queue!Live = {}

-----------------------------------------------------------------------------
(* What the documentation says and the code does not do *)

\* workflow_scheduler.py:12: timeouts are enforced, so a workflow does not
\* stay RUNNING when its task has ended.
TimeoutEnforced ==
    \A t \in Tasks : status[t] = "failed" => record[t] # "running"
=============================================================================
