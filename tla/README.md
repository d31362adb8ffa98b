# A specification of the autonomous engineering runtime

TLA+ modules, TLC configurations and TLAPS proofs for the runtime under
`src/autonomous_runtime`. The code is Python asyncio: one event loop, where a
coroutine runs undisturbed from one suspension to the next and anything may
happen at a suspension. Threads matter in two places, the phase store and the
dependency container, which alone use locks of `threading`. Line numbers below are
those of the files under `src/autonomous_runtime/core`.

Nothing here is persisted and nothing crosses a network, so there are no crashes
with recovery and no lost messages. What is hard is the interleaving at the
suspensions, cancellation (`CancelledError` is not an `Exception` and slips
through every `except Exception`), timeouts, and shutting down while work goes on.

## Inventory

| Part | State | Operations | Talks to |
|---|---|---|---|
| Worker queue `worker_queue.py` | priority queue of tasks and sentinels, task status, one completion future per task, worker coroutines, counters, `_stopping` | `start`, `submit`, `submit_nowait`, `cancel_task`, `wait_for`, `stop`, `_worker_loop`, `_execute_task` | runs whatever `fn` it is given |
| Workflow scheduler `workflow_scheduler.py` | workflow records, one future per workflow, `_stopping` | `schedule`, `cancel`, `wait_for`, `stop`, the wrapper `_wrap_fn` | submits to and cancels in the queue; publishes on the bus |
| Orchestration engine `orchestration_engine.py` | active and completed plans with their results, counters, `_stopping` | `execute` (sequential, parallel, best effort), `_run_step`, `stop` | schedules and awaits workflows; publishes |
| Runtime state store `runtime_state.py` | phase, history, observers | `transition`, `transition_if_current`, `add_observer`, `remove_observer` | calls its observers, on any thread |
| Lifecycle supervisor and shutdown manager `lifecycle_supervisor.py` | hooks, `_shutdown_initiated`, `_shutdown_complete` | `transition`, `mark_*`, `register_hook`, `shutdown`, `wait_for_shutdown` | moves the phase, publishes, runs the other parts' `stop` |
| Runtime manager `runtime_manager.py` | the services | `start`, `pause`, `resume`, `stop` | builds and starts everything |
| Event bus `event_bus.py` | subscriptions, dead letters | `subscribe`, `unsubscribe`, `publish`, `publish_nowait` | calls handlers in turn |
| Concurrency manager `concurrency_manager.py` | semaphore, spawned tasks | `spawn`, `run_bounded`, `cancel_all`, `drain`, `stop` | |
| Service registry `service_registry.py` | descriptors with a started flag | `register`, `start_all`, `stop_all` | starts and stops services |
| Dependency container `dependency_container.py` | bindings, singletons, per-binding locks | `bind_*`, `resolve` | calls factories, on any thread |
| Execution cycle `execution_cycle.py` | phase, repair count, audit | `transition`, `complete`, `fail` | |
| Runtime session `runtime_session.py` | session status, time stamps | `activate`, `suspend`, `resume`, `complete`, `fail` | |
| Configuration, environment manager, bootstrap, context, command line | frozen values | read once at start | |

Behaviours that are hard, and what makes each part correct:

- *Queue.* A task between `get()` and `_execute_task`, cancelled items left in the
  queue, sentinels that compete with tasks for capacity, workers lost to a
  `CancelledError`, several clients on one future. Correct: each task is run at
  most once by one worker, settled and counted once; a clean stop leaves nothing.
- *Scheduler.* Three descriptions of one workflow (record, workflow future, queue
  task) written by different coroutines. Correct: they agree, an outcome that was
  told is final, and a client that waits is answered.
- *Engine.* Steps overlap with cancellations, step timeouts, refused submissions
  and `stop()`. Correct: a success was earned by every step, fail-fast steps follow
  one another, results are final, and plans end.
- *Phase store.* A lock released between guard and transition, observers notified
  without it. Correct: the history is a path of the graph, observers miss nothing.
- *Bus.* Handlers awaited in turn while publications, subscriptions and
  unsubscriptions overlap. Correct: whoever is owed an event is called once, alone,
  and not after unsubscribing; counts and dead letters are true.
- *Container.* Nested resolutions on several threads, a lock per binding, factories
  that raise in the middle. Correct: one maker and one instance per singleton; every
  `resolve()` ends.
- *Concurrency manager.* A slot granted to a task that is cancelled before it
  resumes; snapshots taken by `stop()` and `drain()`. Correct: no slot is lost,
  everything ends.
- *Execution cycle.* Observers that move the cycle they are told of. Correct: the
  audit trail is a path, and observers miss nothing.
- *Registry.* `start_all()` and `stop_all()` overlap, and names change hands.
  Correct: services start in order, and whatever is up has its turn to stop.
- *Shutdown.* Several callers, pauses and faults in between, hooks that hang.
  Correct: hooks run once and in order, a complete shutdown is STOPPED, it completes.

`PROJECT.json` lists the hazards line by line and the properties that address them.

## Modules

| Module | What it models | Code |
|---|---|---|
| `TaskLifecycle` | abstract: what a queue promises of tasks | |
| `WorkerQueue` | the queue | `worker_queue.py` |
| `WorkerQueueProperties` | its invariants, action and liveness properties | |
| `WorkflowLifecycle` | abstract: what clients of the scheduler see | |
| `WorkflowScheduler` | the scheduler, with the queue as `INSTANCE WorkerQueue` | `workflow_scheduler.py` |
| `OrchestrationEngine` | the engine, over `INSTANCE WorkflowLifecycle` | `orchestration_engine.py` |
| `RuntimePhases` | the phase graph | `runtime_state.py:29-69` |
| `RuntimeState` | the store, its threads and observers | `runtime_state.py` |
| `RuntimeLifecycle` | start, pause, resume, faults and shutdown | `lifecycle_supervisor.py`, `runtime_manager.py` |
| `EventDelivery` | abstract: what a bus promises its subscribers | |
| `EventBus` | subscriptions, publications, dead letters | `event_bus.py` |
| `DependencyContainer` | containers used by several threads | `dependency_container.py` |
| `ConcurrencyManager` | tasks, slots, `stop()`, `drain()` | `concurrency_manager.py` |
| `ExecutionCycle` | one cycle and observers that call back | `execution_cycle.py` |
| `ServiceRegistry` | overlapping `start_all()` and `stop_all()` | `service_registry.py` |
| `PhaseStoreState`, `RuntimeLifecycleState`, `ContainerState` | what the store, the supervisor and the containers keep, and the properties of it; the module of each extends it with the actions | the same files |
| `WorkerQueueProofs`, `WorkflowSchedulerProofs`, `OrchestrationEngineProofs`, `ExecutionCycleProofs` | theorems about the module they are named after | |
| `NotificationProofs` | theorems about the bus and the phase store | |
| `ShutdownProofs` | theorems about the concurrency manager and the supervisor | |
| `ServiceProofs` | theorems about the registry and the containers | |
| `SequenceLemmas` | facts about the sequence operators of the community modules | |
| `MCWorkerQueue`, `MCWorkflowScheduler`, `MCOrchestrationEngine`, `MCRuntimeState`, `MCEventBus`, `MCDependencyContainer`, `MCServiceRegistry` | values of constants for TLC | |

How they compose: the queue implements `TaskLifecycle`; the scheduler drives the
queue's own actions and implements `WorkflowLifecycle`; the engine uses
`WorkflowLifecycle` and nothing else of the layers below. So a property of the
engine holds over the scheduler and the queue as they are, for the refinement is
proved. The bus implements `EventDelivery`, which is proved too. The others stand alone:
in the code as well they meet only through the services they hold.

A proof module about two components takes one of them by `EXTENDS`, under its own
names, and reaches the actions of the other through an instance (`Store`,
`Supervisor`, `Container`), as both have an `Init` and a `Next`. That other component's
state is in a module of its own, so its variables and properties keep their names.

One thing the engine leaves open follows from this. It may meet any behaviour
`WorkflowLifecycle` allows, including workflows that are never answered;
`PlanEnds` takes "workflows end" and "handlers end" as premises.

### How the code is read

*Suspensions.* An action is the code between two points where the coroutine can
yield. An `asyncio.Lock` that nobody holds across a suspension never yields, nor
does `PriorityQueue.put` on a queue that is not full, so `submit`, `cancel_task`,
`cancel` and the scheduler's `stop` are single actions. A publication on the bus
awaits handlers and may yield; each one is therefore a state of its own
("announcing", "closing", "scheduling", a wrapper between outcome and return).

*Functions.* What a task or workflow function does is nondeterministic: it returns,
raises, runs on, raises `CancelledError` itself (`SelfCancelling`) or meets its
timeout (`Timed`). So are handlers, hooks, observers, factories and services.

*Worker queue.* `status`, `future`, `attempts` are per task; `queued` is the set of
items, `sentinels` the number of `(inf, None)` items; `worker` and `job` are the
coroutines; `cancelling` holds those that `cancel()` was requested for; `stop`,
`toSend` say where `stop()` stands. Order in the priority queue is decided by
`Priority` alone: tasks of equal priority are ordered by their creation time, which
need not be the order of submission, so any of them may be the head. `Leaked` names
the tasks that `submit_nowait` refused after registering them. A client of
`wait_for` is in `wait` and `waitOn`.

*Scheduler.* `record` and `wfFuture` per workflow. The wrapper has no state of its
own: a busy worker whose record is RUNNING or CANCELLED awaits the function, one
whose record is COMPLETED or FAILED publishes. Each `workflow_id` is scheduled once.

*Engine.* `fn` and `answer` are the workflow lifecycle; `plan`, `step`, `result`
follow `execute()` and `_run_step`; `active`, `completed`, `stats` are the books.
Sequential plans with `fail_fast` are a kind of their own. Cancelling a sequential
plan hits the step, which swallows it (line 428); cancelling a parallel one goes
through `gather`.

*Phase store.* Each thread's call is a record: where it stands, from which phase,
what it expected, which observers are left. `seen` and `since` are history variables
for the properties. An observer is added and removed at most once.

*Lifecycle.* `start()` is one step, since no service's `start` suspends; its two
failures are those before and after BOOTSTRAPPING. `call` follows every caller of
`shutdown()`; `current` and `ended` follow the hooks. A rejected phase change inside
`shutdown()` is logged and skipped, as in the code.

*Bus.* `table` is the subscription dictionary flattened: the lists of the types one
after the other, which is the order `publish()` calls handlers in. `todo` is what the
loop of one publication has left, the handler it awaits first; `is_active` is tested
when a handler's turn comes. `outcome` and `failures` are history variables.

*Container.* `frames` is a thread's stack of `resolve()` calls, each checking the
instance, waiting for the binding's lock or inside the factory, with what the factory
has yet to resolve; it is at once the `threading.local` stack that detects cycles,
which is per container. `bind_instance()` is two steps, the second of which looks
the key up again (`seeding`). A new object is told apart only by the thread that made it.

*Concurrency manager.* `job` follows a spawned task or a caller of `run_bounded`:
not yet run, in line for a slot, granted one and not resumed, running, ended. The
semaphore (`value`, `waiters`) is that of Python 3.12, external and modelled from
its use: a release wakes the first in line, and a waiter that was granted and
cancelled hands the slot on.

*Execution cycle.* `calls` is the stack of `transition()` calls under way, each at
its own place in the list of observers. `complete`, `fail`, `cancel` and `timeout`
are transitions with one more assignment, made before the transition may be refused.

*Registry.* `at`, `index`, `awaits` follow each call through the registration order;
`owed` and `tried` are history variables of `stop_all()`.

Definitions that begin with "Variant" in their comment are wrong on purpose; they
are used only to show that a property notices a plausible bug.

## Runs

| Run | Instance | States | What it shows |
|---|---|---|---|
| `WQQueue` | 3 tasks (one timed, one that cancels itself, one by `submit_nowait`), 2 workers, a client, capacity 2 | 96 572 | the queue's invariants, what clients are told, refinement of `TaskLifecycle`, `StopReturnsEventually`, `StopEnds`, `QueuedIsTaken` |
| `WSScheduler` | 3 workflows, 2 workers, capacity 2 | 325 350 | record, future and task agree; refinement of `WorkflowLifecycle`; accepted workflows are answered |
| `OEPlans` | one plan of 3 steps, the first timed, every kind of plan, 2 slots | 71 243 | `SuccessIsEarned`, `OneAtATime`, `BooksBalance`, `CompletedIsFinal`, `PlanEnds` |
| `RSPhases` | 2 threads, 2 observers, 4 transitions, 2 guarded calls | 511 620 | `HistoryIsPath` (in `IInv`), `ToldOnceEach` |
| `RLShutdown` | 2 callers, 3 hooks of which the second is slow, 2 pauses | 6 156 | hooks, the final phase, `ShutdownCompletes` |
| `EBDelivery` | 3 subscribers, of which one to every event, 2 events of different types, 2 dead letters | 23 999 | refinement of `EventDelivery`, counts, dead letters, `NoneStarved` |
| `DCResolve` | 2 threads, a child and its parent, 6 bindings with an override, a `bind_instance` and a cycle of transients through both | 79 248 | `OneMaker`, `OneInstance`, `ResolveEnds` |
| `CMTasks` | 2 spawned tasks, 2 callers of `run_bounded`, a `drain()`, 2 slots | 56 584 | `SlotsAccounted`, `StopReachesAll`, `AllEnd` |
| `ECCycle` | 2 observers, a trail of 6 | 1 844 844 | `TrailIsPath`, `ToldOfEach` |
| `SRServices` | 3 names, 4 registrations of which one overrides, 2 `start_all`, 2 `stop_all` | 964 024 | `StartsInOrder`, `StopsAllInReverse` |
| `WSTimeout`, `DCDeadlock` | small | | a statement of the documentation that the code does not keep (below) |

The type invariant of each module is a conjunct of one of the invariants named here,
or of the proved `IInv`.

Why the bounds are enough. Three tasks over two workers and two places give a full
queue, two tasks in execution with a third waiting, sentinels that do not fit, and a
worker lost while the other goes on; two workers suffice for every race of workers,
as no action involves more. Clients meet only over one future, and a client that
was replaced or interrupted is told apart by its own state, so one suffices beside the
workers. Three steps over two slots make a step wait for a slot, and put a step
between a failed one and a later one. A history of four transitions allows a complete
race of two threads twice. Three hooks give one before, one after and the slow one;
the global timeout may strike at any of them.
Three subscribers give a handler before, at and behind the one whose call is under
way, and three failures overflow two dead letters. Two threads are all a lock race
needs; the six bindings give a chain across containers, an override, a race of
`bind_instance` and a cycle. Four jobs over two slots leave two in line, of which one
is granted while the other waits. A trail of six reaches every phase but those behind
a repair loop of more than one round, and lets two nested calls overtake one under
way. Two calls of each kind in the registry overlap in every order.
Plans affect each other only through the counters and `stopping`.

`CHECK_DEADLOCK FALSE` everywhere: each of these systems stops for good when its
work is done and it has been shut down, and the instances have finitely many tasks.

Fairness, and why the code justifies it:

- The event loop resumes a coroutine that can go on: weak fairness of a worker that
  can take an item, of `stop()`, of a plan, of `shutdown()`, of a task that was created
  or granted a slot, of a `drain()`.
- Timers fire: `DrainTimeout`, `TimeOut` (which asyncio enforces by cancelling the
  function, assuming it does not suppress that), step timeouts, hook timeouts (under
  the same assumption). The global timeout of `shutdown()`, that of `drain()` and a
  client's own timeout are not assumed to win any race.
- A thread that can run does (`Continue` of the container).
- That code of others returns is never guaranteed. Where a property needs it, it is a
  premise in the property, never part of `FairSpec`: that functions return
  (`FunctionsReturn` for `QueuedIsTaken`, `StopEnds` and `AcceptedSettles`,
  `WorkflowsEnd` for `PlanEnds`, `CoroutinesEnd` for `AllEnd`), that factories do
  (`FactoriesEnd` for `ResolveEnds`), and that event handlers do (`HandlersEnd` for
  `NoneStarved`, `AcceptedSettles`, `PlanEnds` and `ShutdownCompletes`). The last is no
  formality: the bus awaits each handler without a timeout (`event_bus.py:271`), so one
  that hangs keeps the publisher for ever, be it `execute()` before its first step,
  `schedule()` of a step, a wrapper, or `shutdown()` before, between and after its hooks.
  `LocksAreFair`, for `ResolveEnds`, is a premise too: `threading.Lock` promises no
  order among those who wait. `StopReturnsEventually` holds without any.

`AcceptedSettles` names what still leaves a client waiting: a timed workflow (see
below), a function that raises `CancelledError`, a stopped queue, a queue without
workers. `StopEnds` and `QueuedIsTaken` name a queue whose workers are all lost.
`PlanEnds` names a plan of which, from some moment on, an untimed step awaits a
workflow whose function was aborted without an answer; refused, timed out and cancelled
steps are no excuse, and must give back their slots. None of these is hidden in the
fairness. What bounds hide: tasks and workflows are finitely many, so `QueuedIsTaken` and
`AcceptedSettles` do not see the starvation of a task by an endless stream of more urgent
ones, which the priority queue allows (`worker_queue.py:74`).

## Proofs

TLAPS proves, for every value of the constants that their assumptions allow
(`QueueAssumption`, `CycleAssumption` and their like in each module state what little
is required: sets are finite, bounds are naturals, maps have their domains):

| Module | Theorem | Statement |
|---|---|---|
| `WorkerQueueProofs` | `TypeCorrect` | `Spec => []TypeOK` |
| | `OneHolderHolds` | a running task has one worker and is begun once |
| | `FutureMatchesStatusHolds` | futures tell the story of their tasks |
| | `QueueBoundedHolds` | tasks and sentinels never exceed the capacity |
| | `ExitDrainedHolds` | a worker ends by its sentinel only on an empty, closed queue |
| | `TerminalStableHolds` | a task that ended stays as it is |
| | `Implementation` | the queue implements `TaskLifecycle` |
| | `CountersMatchHolds` | counters agree with what became of the tasks |
| | `CleanStopDrainsHolds` | a clean stop leaves no task behind |
| | `ClientsToldHolds` | clients are told what became of their task |
| `WorkflowSchedulerProofs` | `InStepHolds` | record and queue task stay in step |
| | `FuturesAgreeHolds` | futures agree with the record and each other |
| | `StopLeavesNoneQueuedHolds` | after `stop()` no workflow waits |
| | `OutcomeStableHolds` | a workflow that completed or failed stays so |
| | `Implementation` | the scheduler implements `WorkflowLifecycle` |
| `OrchestrationEngineProofs` | `SuccessIsEarnedHolds` | a success was earned by every step |
| | `OneAtATimeHolds` | fail-fast steps follow one another |
| | `BooksBalanceHolds` | dictionaries and counters agree |
| | `CompletedIsFinalHolds` | a completed result never changes |
| `NotificationProofs` | `CountsTrueHolds` | the bus's counters agree with what handlers did |
| | `LatestFailuresHolds` | the dead letters are the latest failures, in order, no more than the bound |
| | `DeliveryImplemented` | the bus implements `EventDelivery` |
| | `PathHolds` | the history is a path of the phase graph |
| | `NoWayBackHolds` | STOPPED is final, STOPPING leads only there |
| | `ToldOnceEachHolds` | observers are told once, of everything since they were added |
| `ShutdownProofs` | `SlotsAccountedHolds` | no slot of the semaphore is lost, and none is free while a task waits that nobody wakes |
| | `StopReachesAllHolds` | once `stop()` went round, every task ended or is being cancelled |
| | `HooksRunOnceHolds` | hooks run once and in order |
| | `CompleteIsStoppedHolds` | a complete shutdown is STOPPED after every hook |
| `ServiceProofs` | `StartsInOrderHolds` | a service starts after those registered before it |
| | `StopsAllInReverseHolds` | `stop_all()` gives its turn to whatever was up, the last registered first |
| | `OneMakerHolds` | a singleton is made by one thread at a time |
| | `OneInstanceHolds` | a singleton stays what it is |
| | `NoCircularWaitHolds` | where no singleton needs itself, no threads wait for one another in a circle |
| `ExecutionCycleProofs` | `TrailIsPathHolds` | the trail is a path that returns only through repairs, and agrees with the counters |
| | `ToldOfEachHolds` | observers are told of each transition once |

*Queue.* `OneHolder` is not inductive alone: before `start()` nothing says that
workers hold no task (`Unstarted`), and a task cancelled while it waits must be known
not to have been begun (`WaitingIsNew`) for "begun once" to survive a second
submission. `Holding` is the conjunction of the three, and `HoldingStep` treats
`Next` one action at a time; the ends of a job share `EndJobHolds`, the submissions
share `RegisterHolds`. `FutureMatchesStatus` then needs only `OneHolder` (the job of a
busy worker is a running task). `QueueBounded` and `ExitDrained` are proved together:
`sentinels > 0 => Stopping` is what stops submissions after the first worker left.
`IInv` in `WorkerQueueProperties` is the whole, and was checked by TLC first.

*Refinement.* `LifecycleStep` maps every action to a step of `TaskLifecycle` or a
stutter. The one that needs counting is `Begin`: the running tasks are in bijection
with the busy workers by `OneHolder`, so an idle worker leaves room below the limit
(`RoomForOne`).

*Queue, its clients and counters.* `ClientsTold` needs only that a client which waits
names a task (`Telling`), once it is known how a step can move a client (`WaitMoves`)
and a future (`FutureMoves`): a future is cancelled only with its task, or by a client
interrupted in an untimed wait. `CountersMatch` compares a counter with the size of a
set. A task that ends moves into one of three disjoint sets and out of none
(`OneMoves`), one that does not end leaves all three alone (`NoneEnds`), and the bounds
on `submitted` survive whatever shrinks the lower or grows the upper one
(`BoundsStay`). `CleanStopDrains` follows from `ExitDrained` and `OneHolder`: what is
pending is queued or leaked, what is running is held by a worker that is gone.

*Scheduler.* `IInv == TypeOK /\ RecordsStand /\ WorkersHold /\ FuturesTold /\
StopLeavesNoneQueued`. `RecordsStand` is `InStep` with the cases it leaves open (the
task of a workflow nobody scheduled or the queue refused, and what is left in the
queue), `WorkersHold` the queue's `OneHolder` as far as the scheduler needs it,
`FuturesTold` adds to `FuturesAgree` that a record and its future are final together.
The actions of the queue are expanded through the instance, one lemma per action of
the composition; all the ways a job ends share `EndJobKeepsIInv`. For the refinement, `FnMoves` says that a step which
moves one workflow's function, and answers at most its client, is a step of the
lifecycle. A publication and a cancellation that comes late are stutters; a job that
ends while its record is RUNNING, or CANCELLED before the function returned, is the
lifecycle's abort without an answer.

*Engine.* `IInv == TypeOK /\ BooksStand /\ StepsEarned`. `BooksStand` strengthens
`BooksBalance` by where a plan in either dictionary stands, so that an end counts it
once; `StepsEarned` ties what a step reported to the answer of its workflow, keeps the
steps of a fail-fast plan behind one another, and says that a plan about to close has
tallied every step it claims. The cardinalities are moved by one element at a time
with the library's facts.

*Bus.* `BusInv` describes a publication in terms of its own record (`Stands`): it awaits
the first handler of those it has left, which are all different and, that one aside,
not called yet. `CountsTrue` is then a matter of sets that grow by one (`Counted`), and
`LatestFailures` of a sequence and its suffix (`LettersKept`). Both the start of a
publication and the end of a handler go on with the loop of `publish()`, whose step is
treated once (`LoopKeeps`): the next handler is the least place whose subscription is
active. The refinement maps the start of a publication and every end of a handler to a
step of `EventDelivery` (`LoopTurns`, `OneEvent`): whoever the loop passes over was
unsubscribed, so the promise no longer includes it (`AwaitNextSkips`).

*Concurrency manager.* `SlotsAccounted` compares a counter with the size of two sets of
tasks. `ManagerInv` adds that the semaphore's queue holds exactly those who are in
line, each once (`Lined`), that free and held slots together are all there are
(`AllThere`), and that a free slot beside a waiting task is about to be passed on by one
that was granted it or cancelled (`HandsOut`). The last is what a release, a
cancellation and a resumption must each restore, and the one that fails when a
cancelled waiter keeps its slot. `StopReachesAll` is proved along with it.

*Phase store.* `IInv == TypeOK /\ HistoryIsPath` is inductive because the test of the
graph and the assignment are under one lock (`CommitHolds`), whatever guard a thread
saw before. `Successors` unfolds the graph once. `ToldOnceEach` needs `Telling`:
every notifying thread has a transition of its own (`CallsStand`), whoever it has left
to tell was not told of it and joined before it, and every transition since an observer
joined was told to it or is owed to it by a thread (`ToldOrOwed`).

*Lifecycle.* `OneActs` says that one caller at most is past the guard of `shutdown()`,
for the guard and the flag are one step; `HooksInOrder` that the hooks before the
current one have ended and those behind it have not begun; `PhaseFollows` relates the
phase to how far that caller is, through pauses and faults in between.

*Container.* `ThreadsStand` describes the frames of one thread: only the innermost may
wait, a binding occurs once in the stack of its container, and what is being made is
locked by the thread; `TableStands` and `InstancesStand` say which binding a key leads
to and who may still write its instance.
A pop of the stack, with or without an exception, gives back exactly the lock of its
frame (`OneMaker`), and an instance is written only by the lock's holder while it is
absent, or by a `bind_instance` that is alone with its key (`OneInstance`).

`NoCircularWait` fails where two singletons need each other (`DCDeadlock`).
`NoCircularWaitHolds` says that this is the only way: it assumes `Acyclic`, that the
bindings can be ranked such that what a factory may be handed ranks no higher than its
own binding, and lower if it is a singleton. Transients may need each other, as in
`DCResolve`, whose bindings are ranked by giving 1 to `service` and 0 to the rest. The
calls on the stack of a thread then descend (`Descends`), and a thread that waits for the
lock of another that waits does so for a binding of a higher rank (`WaitsHigher`). Of
threads waiting in a circle, consider one whose binding has the least rank.

*Registry.* Neither `StartsInOrder` nor `StopsAllInReverse` says enough of a call in the
middle of its loop. `StarterStands` adds that what lies before the place of a
`start_all()` has come up, and that the place is still that of the service it awaits
unless another was registered over it meanwhile. `StopperStands` says the
mirror image from the other end of the order, and that what `stop_all()` owes a turn was
up: a service registered later is never owed one. `StartsInOrder` claims nothing of the
start of a service that took another's place: it inherits a place in the middle, which a
`start_all()` may have passed.

*Execution cycle.* `CallsStand` says that nested calls are newer entries of the trail,
each at its own place among the observers, and `Told` that what an observer was told
of, together with what the calls under way have left for it, is every transition since
it joined, once. With `TrailIsPath` this is inductive. That the trail comes back to a phase
only through a repair is not: `RanksRise` says instead that without one it leads to
phases of a higher and higher `Rank`.

Every invariant, action property and refinement that a run checks is a theorem. Only
model-checked are the nine liveness properties (`StopReturnsEventually`, `StopEnds`,
`QueuedIsTaken`, `AcceptedSettles`, `PlanEnds`, `ShutdownCompletes`, `NoneStarved`,
`ResolveEnds`, `AllEnd`): liveness under fairness and `ENABLED` are outside TLAPS, as is
induction over data. The models do without it. A loop that passes over elements stops at
the least place that qualifies, and `MinElement` and its like in `SequenceLemmas`
say what that is; sums over sets are cardinalities, moved one element at a time. No
module declares a RECURSIVE operator.

## What the code does not keep

Shown by a run each:

- `WSTimeout`: a timed-out workflow stays RUNNING and its future pending, for the
  timeout passes the wrapper's `except Exception` (`workflow_scheduler.py:370`).
- `DCDeadlock`: two threads that resolve two singletons whose factories need each other
  wait for each other for ever, where `dependency_container.py:169` promises
  `CircularDependencyError`: the cycle is on two stacks and neither shows it.

Met while modelling and visible in the models, without a run:

- `stop()` of the queue puts its sentinels before the drain timeout starts; with its
  workers lost and a full queue it blocks for ever (`worker_queue.py:193`; `StopEnds`
  excepts it).
- Cancelling one client of an untimed `wait_for` cancels the shared future, and every
  other client with it (`worker_queue.py:265`; `WaiterCancelled`).
- `submit_nowait` registers a task before it raises QueueFull, and leaves it PENDING
  (`worker_queue.py:243`; `Leaked`).
- A worker lost to a `CancelledError` is not replaced, though `worker_queue.py:10`
  speaks of a supervisor; after a drain timeout queued tasks stay PENDING.
- A cancelled running workflow turns COMPLETED or FAILED (`workflow_scheduler.py:350`;
  `OutcomeStable` claims no more).
- A workflow the queue refuses keeps a pending future (`workflow_scheduler.py:253`;
  `WorkflowLifecycle!Refuse`). `max_retries` is never read.
- `OrchestrationEngine.stop()` marks active plans but they go on, and their own
  outcome overwrites the mark (`orchestration_engine.py:248`). `execute()` raises,
  against `:270`. A step that timed out leaves its function running, so functions
  overlap in a sequential plan without fail-fast and exceed `max_parallel_steps` in a
  parallel one. `enable_timeout` is never read.
- A plan whose announcement is cancelled stays in `_active_plans` for ever
  (`orchestration_engine.py:292`; `BooksBalance` excepts it).
- `transition_if_current` may move from a phase other than the expected one
  (`runtime_state.py:204`). Two threads may tell an observer of their transitions in the
  wrong order, as they notify without the lock (`runtime_state.py:183`); `ToldOnceEach`
  says nothing of order.
- Slow hooks, or many, use up the global timeout, and later hooks never run
  (`lifecycle_supervisor.py:248`).
- A handler of an event of `shutdown()` that hangs blocks it for ever, before the hooks
  or behind them: no timeout covers the publications (`lifecycle_supervisor.py:244`,
  `event_bus.py:271`; `HandlersEnd`).
- `RuntimeManager.start()` moves the phase past the supervisor, so no event announces
  BOOTSTRAPPING, READY and RUNNING (`runtime_manager.py:111`).
- The bus calls handlers grouped by type, in the order the types were first subscribed
  to, not in that of registration (`event_bus.py:251`, `:336`), and delivers after `stop()`.
- A second `bind_instance` may store its instance in the binding that overrode its own,
  and a binding may be resolved before its instance is stored
  (`dependency_container.py:153-156`; `Contested`, `seeding`). A singleton factory that
  returns None is run again, as its result counts as absent.
- Overlapping `start_all()` calls start one service twice, and `stop_all()` passes over
  a service that is still starting (`service_registry.py:194`, `:207`).
- `drain()` does not wait for what is spawned after it began (`concurrency_manager.py:233`).
- `complete()` and `fail()` store result and error before the transition may be refused,
  so a cycle that is over may change them (`execution_cycle.py:230-234`).
- `execution_cycle.py:8` says "States form a DAG - no cycles, no ambiguity"; the table
  has the cycle EXECUTING, REPAIRING, EXECUTING, and the one through VERIFYING.
  `docs/RUNTIME_EXECUTION_FLOW.md:73-82` draws REPAIRING leading to FINALIZING, an edge
  the table does not have, and omits VERIFYING to REPAIRING and REPAIRING to EXECUTING,
  which it has. The model follows the table, and `TrailIsPath` states what is left of the
  claim: a repair is the only way back.
  `max_repair_attempts` is never enforced.

## Not modelled

The runtime session is a status graph of one object on one thread, without observers:
each operation is a test and an assignment. Configuration, environment manager,
bootstrap, context and command line keep no state that changes concurrently.
`RuntimeManager.extend` is an entry in the registry. A publication by the queue, the
scheduler, the engine or the supervisor is taken as a suspension at which everything
else may happen, which covers any bus. Metadata, logging, time stamps, event payloads,
summaries other than the counters are left out. An observer of the phase store that
makes a transition itself, on the thread that notifies it, is not modelled. `start()`
of the concurrency manager, which would replace the semaphore, happens once. Reuse of a
`workflow_id`, as by executing one plan object twice, is excluded by the scheduler's
"Globally unique ID" and listed as a hazard.

## Plan

1. Scheduler with reused ids; the engine over the concrete scheduler if it stays small.
2. The phase store with an observer that transitions, as the execution cycle has it.
3. Proofs: what these additions change in `RecordsStand` and `Telling`.
