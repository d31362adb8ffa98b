------------------------- MODULE WorkerQueueProperties -------------------------
(***************************************************************************)
(* What a careful reader wants to know of the worker queue.                *)
(***************************************************************************)
EXTENDS WorkerQueue

-----------------------------------------------------------------------------
(* Safety *)

\* A RUNNING task is in the hands of exactly one worker, was begun exactly
\* once and has left the queue; an idle or ended worker holds no task: no
\* interleaving of workers, cancel_task and stop() runs a task twice or drops
\* it between get() and _execute_task.
RunningIsHeld == \A t \in Tasks : status[t] = "running" <=> \E w \in Workers : job[w] = t
HeldByOne     == \A v, w \in Workers : job[v] = job[w] /\ job[v] # NoTask => v = w
BusyHolds     == \A w \in Workers : worker[w] = "busy" <=> job[w] # NoTask
QueuedUnbegun == \A t \in queued : status[t] \in {"pending", "cancelled"} /\ attempts[t] = 0
BegunOnce     == \A t \in Tasks : attempts[t] <= 1

OneHolder == RunningIsHeld /\ HeldByOne /\ BusyHolds /\ QueuedUnbegun /\ BegunOnce

\* A future and its task never tell different stories: a task that ended has
\* its future settled, a value only comes from a completed task and an
\* exception only from a failed one.
FutureMatchesStatus ==
    \A t \in Tasks :
        /\ status[t] = "new" <=> future[t] = "none"
        /\ status[t] \in Terminal => future[t] \in Settled
        /\ future[t] = "result" => status[t] = "completed"
        /\ future[t] = "exception" => status[t] = "failed"

\* The capacity counts tasks, items of cancelled tasks and sentinels alike,
\* and neither submit nor stop() ever exceeds it.
QueueBounded == Cardinality(queued) + sentinels <= MaxSize

\* A worker that took its sentinel left no task behind: stop() sets _stopping
\* before it sends one, so nothing is submitted after it, and it sorts last.
ExitDrained ==
    /\ sentinels > 0 => Stopping
    /\ \A w \in Workers : worker[w] = "exited" => queued = {} /\ Stopping

With(s) == Cardinality({t \in Tasks : status[t] = s})

\* summary() adds up: each outcome is counted once per task, whoever ended it,
\* and submitted counts every task that reached the queue and none that
\* submit_nowait refused and nobody handed in again.
CountersMatch ==
    /\ stats.completed = With("completed")
    /\ stats.failed = With("failed")
    /\ stats.cancelled = With("cancelled")
    /\ Cardinality(queued \cup {t \in Tasks : attempts[t] > 0}) <= stats.submitted
    /\ stats.submitted <= Cardinality({t \in Tasks : status[t] # "new" /\ ~Leaked(t)})

\* stop() that ended without cancelling a worker, and with none lost before,
\* leaves no task pending or running but those submit_nowait refused.
CleanStopDrains ==
    stop = "done" /\ (\A w \in Workers : worker[w] = "exited") =>
        \A t \in Tasks : status[t] \in {"new"} \cup Terminal \/ Leaked(t)

\* A client of wait_for is handed a value only for a completed task and an
\* exception only for a failed one, and the future of a task that was not
\* cancelled is cancelled only by a client that awaits it without a timeout:
\* the shield of the timed wait holds.
ClientsTold ==
    /\ \A c \in Clients :
         /\ wait[c] = "result" => status[waitOn[c]] = "completed"
         /\ wait[c] = "exception" => status[waitOn[c]] = "failed"
    /\ \A t \in Tasks :
         future[t] = "cancelled" /\ status[t] # "cancelled" =>
             \E c \in Clients : waitOn[c] = t /\ wait[c] = "interrupted"

\* What the proofs add to make these invariants inductive: nothing has run
\* before start(), and a task that still waits was never begun.
Unstarted   == ~started => \A w \in Workers : worker[w] = "none"
WaitingIsNew == \A t \in Tasks : status[t] \in {"new", "pending"} => attempts[t] = 0

IInv == /\ TypeOK /\ OneHolder /\ Unstarted /\ WaitingIsNew
        /\ FutureMatchesStatus /\ QueueBounded /\ ExitDrained

\* A task that ended never changes again, whichever worker, client or stop()
\* comes late.
TerminalStable ==
    [][\A t \in Tasks : status[t] \in Terminal => status'[t] = status[t]]_vars

Lifecycle == INSTANCE TaskLifecycle
                 WITH open <- ~Stopping, Limit <- Cardinality(Workers)

\* The queue implements the abstract task lifecycle.
ImplementsLifecycle == Lifecycle!Spec

-----------------------------------------------------------------------------
(* Liveness *)

\* A stop() that has sent its sentinels returns, however long the task
\* functions would run and whatever was queued.
StopReturnsEventually == stop = "draining" ~> stop = "done"

\* While functions return, a task in a started queue is taken from it, unless
\* stop() gives up on it or the workers have all been lost.
QueuedIsTaken ==
    FunctionsReturn =>
        \A t \in Tasks :
            started /\ t \in queued ~>
                t \notin queued \/ stop \in {"cancelling", "done"} \/ Live = {}

\* While functions return, stop() ends, even where it has to wait for room
\* for its sentinels, unless no worker is left to make room.
StopEnds ==
    FunctionsReturn => (Stopping ~> stop \in {"done", "aborted"} \/ Live = {})
=============================================================================
