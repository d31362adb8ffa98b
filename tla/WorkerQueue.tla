------------------------------ MODULE WorkerQueue ------------------------------
(***************************************************************************)
(* The bounded priority queue and worker pool of core/worker_queue.py,     *)
(* with the clients that wait for its tasks.                               *)
(*                                                                         *)
(* Everything runs on one asyncio event loop, so a step of the model is    *)
(* what the code does between two points where it may yield.  submit,      *)
(* submit_nowait, start and cancel_task never yield: the body of their     *)
(* `async with self._lock` holds no await, so the lock is never contended, *)
(* and the put in submit follows a full() check with no yield in between.  *)
(***************************************************************************)
EXTENDS Naturals, FiniteSets

CONSTANTS
    Tasks,          \* QueuedTask objects; each has its own task_id
    Workers,        \* the worker_count coroutines of _worker_loop
    Clients,        \* callers of wait_for
    MaxSize,        \* capacity of the asyncio.PriorityQueue
    Priority,       \* task -> priority, lower is more urgent
    Timed,          \* tasks whose timeout_seconds is set
    SelfCancelling, \* tasks whose fn may itself raise CancelledError
    Nowait,         \* tasks that may be handed in with submit_nowait
    NoTask          \* what a worker or a client without a task refers to

ASSUME QueueAssumption ==
    /\ IsFiniteSet(Tasks)
    /\ IsFiniteSet(Workers) /\ Workers # {}
    /\ MaxSize \in Nat \ {0}
    /\ Priority \in [Tasks -> Nat]
    /\ NoTask \notin Tasks

VARIABLES
    status,     \* QueuedTask.status; "new": not in _tasks
    future,     \* the task's asyncio.Future in _completions
    attempts,   \* QueuedTask.attempts
    queued,     \* the tasks whose items are in _queue
    sentinels,  \* the number of (inf, None) items in _queue
    worker,     \* where each _worker_loop stands
    job,        \* the task a busy worker executes
    cancelling, \* workers with a cancellation they have not yet seen
    started,    \* _started
    stop,       \* where stop() stands; "none": _stopping is False
    toSend,     \* sentinels stop() has still to put
    stats,      \* _submitted_count, _completed_count, ...
    wait,       \* where each client's wait_for stands, or how it ended
    waitOn      \* the task that wait_for is about

taskVars == <<status, future, attempts>>
poolVars == <<worker, job, cancelling>>
stopVars == <<started, stop, toSend>>
waitVars == <<wait, waitOn>>
vars == <<taskVars, queued, sentinels, poolVars, stopVars, stats, waitVars>>

-----------------------------------------------------------------------------
Terminal == {"completed", "failed", "cancelled"}        \* TASK_TERMINAL
Settled  == {"result", "exception", "cancelled"}        \* Future.done()

TypeOK ==
    /\ status \in [Tasks -> {"new", "pending", "running"} \cup Terminal]
    /\ future \in [Tasks -> {"none", "pending"} \cup Settled]
    /\ attempts \in [Tasks -> Nat]
    /\ queued \subseteq Tasks
    /\ sentinels \in Nat
    /\ worker \in [Workers -> {"none", "idle", "busy", "exited",
                               "cancelled", "crashed"}]
    /\ job \in [Workers -> Tasks \cup {NoTask}]
    /\ cancelling \subseteq Workers
    /\ started \in BOOLEAN
    /\ stop \in {"none", "putting", "draining", "cancelling", "done", "aborted"}
    /\ toSend \in Nat
    /\ stats \in [submitted: Nat, completed: Nat, failed: Nat, cancelled: Nat]
    /\ wait \in [Clients -> {"none", "direct", "shielded", "orphaned",
                             "gaveUp", "interrupted"} \cup Settled]
    /\ waitOn \in [Clients -> Tasks \cup {NoTask}]

\* Variant: the flag is set only after the sentinels are sent.
StoppingLate == stop \notin {"none", "putting"}
\* self._stopping
Stopping  == stop # "none"
\* _queue.qsize()
Used      == Cardinality(queued) + sentinels
\* _queue.full()
Full      == Used >= MaxSize
Live      == {w \in Workers : worker[w] \in {"idle", "busy"}}
\* Registered by a submit_nowait that then met a full queue.
Leaked(t) == status[t] = "pending" /\ t \notin queued

Init ==
    /\ status = [t \in Tasks |-> "new"]
    /\ future = [t \in Tasks |-> "none"]
    /\ attempts = [t \in Tasks |-> 0]
    /\ queued = {}
    /\ sentinels = 0
    /\ worker = [w \in Workers |-> "none"]
    /\ job = [w \in Workers |-> NoTask]
    /\ cancelling = {}
    /\ started = FALSE
    /\ stop = "none"
    /\ toSend = 0
    /\ stats = [submitted |-> 0, completed |-> 0, failed |-> 0, cancelled |-> 0]
    /\ wait = [c \in Clients |-> "none"]
    /\ waitOn = [c \in Clients |-> NoTask]

-----------------------------------------------------------------------------
(* Submission *)

\* _tasks[id] = task; _completions[id] = create_future().  A client that
\* waits on the future this one replaces keeps the old object.
Register(t) ==
    /\ status' = [status EXCEPT ![t] = "pending"]
    /\ future' = [future EXCEPT ![t] = "pending"]
    /\ wait' = [c \in Clients |->
                  IF waitOn[c] = t /\ wait[c] \in {"direct", "shielded"}
                  THEN "orphaned" ELSE wait[c]]

Enqueue(t) ==
    /\ queued' = queued \cup {t}
    /\ stats' = [stats EXCEPT !.submitted = @ + 1]

\* A task object is handed in again only if its first submission was refused.
Submittable(t) == status[t] = "new" \/ Leaked(t)

Submit(t) ==
    /\ ~Stopping
    /\ ~Full
    /\ Submittable(t)
    /\ Register(t)
    /\ Enqueue(t)
    /\ UNCHANGED <<attempts, sentinels, poolVars, stopVars, waitOn>>

\* Registers first and only then meets the capacity: on QueueFull the task
\* and its future stay behind.
SubmitNowait(t) ==
    /\ t \in Nowait
    /\ ~Stopping
    /\ Submittable(t)
    /\ Register(t)
    /\ \/ ~Full /\ Enqueue(t)
       \/ Full /\ UNCHANGED <<queued, stats>>
    /\ UNCHANGED <<attempts, sentinels, poolVars, stopVars, waitOn>>

\* future.cancel(), future.set_result() and set_exception() behind the
\* `not future.done()` test that every caller makes.
Settle(t, outcome) ==
    future' = IF future[t] = "pending"
              THEN [future EXCEPT ![t] = outcome] ELSE future

\* Variants: a running task is cancelled too; a cancelled one is again.
CancellableRunning(t) == status[t] \in {"pending", "running"}
CancellableTwice(t)   == status[t] \in {"pending", "cancelled"}
Cancellable(t) == status[t] = "pending"

\* Variant: the completion future is left alone.
ForgetFuture(t) == UNCHANGED future
CancelFuture(t) == Settle(t, "cancelled")

\* The item of a cancelled task stays in the queue.
CancelTask(t) ==
    /\ Cancellable(t)
    /\ status' = [status EXCEPT ![t] = "cancelled"]
    /\ CancelFuture(t)
    /\ stats' = [stats EXCEPT !.cancelled = @ + 1]
    /\ UNCHANGED <<attempts, queued, sentinels, poolVars, stopVars, waitVars>>

-----------------------------------------------------------------------------
(* Workers *)

Start ==
    /\ ~started
    /\ started' = TRUE
    /\ worker' = [w \in Workers |-> "idle"]
    /\ UNCHANGED <<taskVars, queued, sentinels, job, cancelling, stop, toSend,
                   stats, waitVars>>

\* The heap's minimum; tasks of equal priority come out in any order.
IsHead(t) == t \in queued /\ \A u \in queued : Priority[t] <= Priority[u]

\* Variant: the worker does not await the task it executes.
AtGetBusy(w) == worker[w] \in {"idle", "busy"} /\ w \notin cancelling
\* The worker is at `await self._queue.get()`, and no cancellation is due.
AtGet(w) == worker[w] = "idle" /\ w \notin cancelling

Runnable(t) == status[t] # "cancelled"

Begin(w, t) ==
    /\ AtGet(w)
    /\ IsHead(t)
    /\ Runnable(t)
    /\ queued' = queued \ {t}
    /\ status' = [status EXCEPT ![t] = "running"]
    /\ attempts' = [attempts EXCEPT ![t] = @ + 1]
    /\ worker' = [worker EXCEPT ![w] = "busy"]
    /\ job' = [job EXCEPT ![w] = t]
    /\ UNCHANGED <<future, sentinels, cancelling, stopVars, stats, waitVars>>

\* Variant: the item of a cancelled task is put back.
SkipPutBack(w, t) == AtGet(w) /\ IsHead(t) /\ ~Runnable(t) /\ UNCHANGED vars
SkipCancelled(w, t) ==
    /\ AtGet(w)
    /\ IsHead(t)
    /\ ~Runnable(t)
    /\ queued' = queued \ {t}
    /\ UNCHANGED <<taskVars, sentinels, poolVars, stopVars, stats, waitVars>>

\* Variant: a sentinel ahead of the tasks.
SentinelFirst  == sentinels > 0
\* A sentinel's priority is infinite: it is the head only of a queue that
\* holds no task.
SentinelIsHead == queued = {} /\ sentinels > 0

TakeSentinel(w) ==
    /\ AtGet(w)
    /\ SentinelIsHead
    /\ sentinels' = sentinels - 1
    /\ worker' = [worker EXCEPT ![w] = "exited"]
    /\ UNCHANGED <<taskVars, queued, job, cancelling, stopVars, stats, waitVars>>

\* The end of _execute_task: the outcome of the task, the answer to those who
\* wait for it, and where the worker goes next.
EndJob(w, outcome, answer, next) ==
    /\ worker[w] = "busy"
    /\ status' = [status EXCEPT ![job[w]] = outcome]
    /\ Settle(job[w], answer)
    /\ stats' = [stats EXCEPT ![outcome] = @ + 1]
    /\ job' = [job EXCEPT ![w] = NoTask]
    /\ worker' = [worker EXCEPT ![w] = next]
    /\ UNCHANGED <<attempts, queued, sentinels, stopVars, waitVars>>

\* fn ends by itself, before any cancellation of the worker.
FnEnds(w, outcome, answer, next) ==
    /\ w \notin cancelling
    /\ EndJob(w, outcome, answer, next)
    /\ UNCHANGED cancelling

Complete(w) == FnEnds(w, "completed", "result", "idle")
Fail(w) == FnEnds(w, "failed", "exception", "idle")

\* asyncio.wait_for raises TimeoutError, an Exception like any other.
TimeOut(w) == job[w] \in Timed /\ Fail(w)

\* fn raises CancelledError of its own accord: re-raised, it ends the worker.
FnCancelled(w) ==
    /\ job[w] \in SelfCancelling
    /\ FnEnds(w, "cancelled", "cancelled", "crashed")

\* A cancellation from stop() arrives while the worker executes a task ...
InterruptBusy(w) ==
    /\ w \in cancelling
    /\ EndJob(w, "cancelled", "cancelled", "cancelled")
    /\ cancelling' = cancelling \ {w}

\* ... or waits in get(), which leaves the queue as it was.
InterruptIdle(w) ==
    /\ w \in cancelling /\ worker[w] = "idle"
    /\ worker' = [worker EXCEPT ![w] = "cancelled"]
    /\ cancelling' = cancelling \ {w}
    /\ UNCHANGED <<taskVars, queued, sentinels, job, stopVars, stats, waitVars>>

-----------------------------------------------------------------------------
(* stop() *)

\* Puts sentinels while there is room; a put that finds the queue full blocks
\* and nothing bounds its wait.
PutSentinels(n) ==
    \E k \in 0..n :
        /\ Used + k <= MaxSize /\ (k < n => Used + k = MaxSize)
        /\ sentinels' = sentinels + k
        /\ toSend' = n - k
        /\ stop' = IF k = n THEN "draining" ELSE "putting"

Stop ==
    /\ started /\ ~Stopping
    /\ PutSentinels(Cardinality(Workers))
    /\ UNCHANGED <<taskVars, queued, poolVars, started, stats, waitVars>>

StopPut ==
    /\ stop = "putting" /\ ~Full
    /\ PutSentinels(toSend)
    /\ UNCHANGED <<taskVars, queued, poolVars, started, stats, waitVars>>

\* Variant: the workers that execute a task are spared.
DrainTimeoutSparing ==
    /\ stop = "draining" /\ Live # {}
    /\ stop' = "cancelling"
    /\ cancelling' = {w \in Live : worker[w] = "idle"}
    /\ UNCHANGED <<taskVars, queued, sentinels, worker, job, started, toSend,
                   stats, waitVars>>
\* drain_timeout, or the caller's own timeout around stop(): cancelling the
\* gather cancels every worker that has not ended.
DrainTimeout ==
    /\ stop = "draining" /\ Live # {}
    /\ stop' = "cancelling"
    /\ cancelling' = Live
    /\ UNCHANGED <<taskVars, queued, sentinels, worker, job, started, toSend,
                   stats, waitVars>>

\* The gather ends only when every worker has, cancelled or not.
StopReturns ==
    /\ stop \in {"draining", "cancelling"} /\ Live = {}
    /\ stop' = "done"
    /\ UNCHANGED <<taskVars, queued, sentinels, poolVars, started, toSend,
                   stats, waitVars>>

\* The caller's timeout around stop() while a put blocks: the workers are not
\* cancelled and the remaining sentinels are never sent.
StopAborted ==
    /\ stop = "putting"
    /\ stop' = "aborted"
    /\ UNCHANGED <<taskVars, queued, sentinels, poolVars, started, toSend,
                   stats, waitVars>>

-----------------------------------------------------------------------------
(* wait_for *)

\* Without a timeout the client awaits the task's own future; with one it
\* awaits a shield around it.
WaitFor(c, t) ==
    /\ wait[c] = "none"
    /\ status[t] # "new"
    /\ \E how \in {"direct", "shielded"} : wait' = [wait EXCEPT ![c] = how]
    /\ waitOn' = [waitOn EXCEPT ![c] = t]
    /\ UNCHANGED <<taskVars, queued, sentinels, poolVars, stopVars, stats>>

\* wait_for ends one way or another and leaves the queue itself alone.
LeaveWait(c, how) ==
    /\ wait' = [wait EXCEPT ![c] = how]
    /\ UNCHANGED <<status, attempts, queued, sentinels, poolVars, stopVars,
                   stats, waitOn>>

WaitReturns(c) ==
    /\ wait[c] \in {"direct", "shielded"}
    /\ future[waitOn[c]] \in Settled
    /\ LeaveWait(c, future[waitOn[c]])
    /\ UNCHANGED future

\* Variant: the timed wait has no shield around the future.
GiveUpUnshielded(c) ==
    /\ wait[c] \in {"shielded", "orphaned"}
    /\ LeaveWait(c, "gaveUp")
    /\ CancelFuture(waitOn[c])
\* The wait's timeout expires, or its client is cancelled: behind the shield,
\* or on a future that was replaced, nobody else notices.
GiveUp(c) ==
    /\ wait[c] \in {"shielded", "orphaned"}
    /\ LeaveWait(c, "gaveUp")
    /\ UNCHANGED future

\* The client of an untimed wait is cancelled.  Task.cancel() cancels the
\* future the task awaits, which every other client of the task awaits too.
WaiterCancelled(c) ==
    /\ wait[c] = "direct"
    /\ LeaveWait(c, "interrupted")
    /\ CancelFuture(waitOn[c])

-----------------------------------------------------------------------------
Take(w) ==
    \/ \E t \in Tasks : Begin(w, t) \/ SkipCancelled(w, t)
    \/ TakeSentinel(w)

Interrupt(w) == InterruptBusy(w) \/ InterruptIdle(w)

Next ==
    \/ Start \/ Stop \/ StopPut \/ DrainTimeout \/ StopReturns \/ StopAborted
    \/ \E t \in Tasks : Submit(t) \/ SubmitNowait(t) \/ CancelTask(t)
    \/ \E w \in Workers :
         \/ Take(w) \/ Complete(w) \/ Fail(w) \/ TimeOut(w)
         \/ FnCancelled(w) \/ Interrupt(w)
    \/ \E c \in Clients :
         \/ \E t \in Tasks : WaitFor(c, t)
         \/ WaitReturns(c) \/ GiveUp(c) \/ WaiterCancelled(c)

Spec == Init /\ [][Next]_vars

\* The event loop resumes whatever can go on, timers fire, and a task function
\* does not suppress the CancelledError thrown into it.  Nothing is said of
\* how long a function runs.
FairSpec ==
    /\ Spec
    /\ WF_vars(StopPut) /\ WF_vars(DrainTimeout) /\ WF_vars(StopReturns)
    /\ WF_vars(\E w \in Workers : Take(w))
    /\ \A w \in Workers : WF_vars(Interrupt(w)) /\ WF_vars(TimeOut(w))

\* Every task function returns or raises in the end: not promised by the code,
\* a premise of the properties that need it.
FunctionsReturn == \A w \in Workers : WF_vars(Complete(w) \/ Fail(w) \/ FnCancelled(w))

=============================================================================
