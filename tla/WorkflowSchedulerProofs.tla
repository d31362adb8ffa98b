------------------------ MODULE WorkflowSchedulerProofs ------------------------
(***************************************************************************)
(* The scheduler over its queue, proved for any number of workflows and    *)
(* workers and any capacity.                                               *)
(***************************************************************************)
EXTENDS WorkflowScheduler, FiniteSetTheorems, TLAPS

\* Where a workflow's record and its task may stand together.
RecordsStand ==
    \A t \in Tasks :
        /\ record[t] = "none" => status[t] = "new"
        /\ status[t] = "new" => record[t] \in {"none", "failed"} /\ future[t] = "none"
        /\ record[t] = "queued" <=> status[t] = "pending"
        /\ status[t] = "pending" => t \in queued
        /\ t \in queued => status[t] \in {"pending", "cancelled"}
        /\ status[t] = "completed" => record[t] = "completed"
        /\ record[t] = "running" => status[t] \in {"running", "failed", "cancelled"}

\* A busy worker has a running task to itself.
WorkersHold ==
    \A w \in Workers : worker[w] = "busy" =>
        /\ job[w] \in Tasks
        /\ status[job[w]] = "running"
        /\ \A v \in Workers : worker[v] = "busy" /\ job[v] = job[w] => v = w

\* A workflow that is scheduled has a future, and one whose wrapper has
\* written the record has told it.
FuturesTold ==
    /\ FuturesAgree
    /\ \A t \in Tasks :
         /\ wfFuture[t] = "none" <=> record[t] = "none"
         /\ record[t] = "completed" => wfFuture[t] \in {"result", "cancelled"}
         /\ record[t] = "failed" /\ status[t] # "new" => wfFuture[t] \in {"exception", "cancelled"}

IInv == TypeOK /\ RecordsStand /\ WorkersHold /\ FuturesTold /\ StopLeavesNoneQueued

-----------------------------------------------------------------------------
(* The queue's definitions, seen through the instance *)

LEMMA SameCount == \A S : Queue!Cardinality(S) = Cardinality(S)
  BY DEF Queue!Cardinality, Cardinality

LEMMA WorkerCount == Queue!Cardinality(Workers) \in Nat
  BY SchedulerAssumption, SameCount, FS_CardinalityType

\* A step of the queue that touches no task keeps the scheduler in step.
LEMMA QueueAloneKeepsIInv == IInv /\ QueueAlone => IInv'
<1> SUFFICES ASSUME IInv, QueueAlone PROVE IInv'
  OBVIOUS
<1> USE DEF IInv, TypeOK, Queue!TypeOK, schedVars, Queue!taskVars, Queue!poolVars,
            Queue!stopVars, Queue!waitVars
<1>1. ASSUME NEW n \in Nat, Queue!PutSentinels(n)
      PROVE  sentinels' \in Nat /\ toSend' \in Nat /\ stop' \in {"draining", "putting"}
  BY <1>1 DEF Queue!PutSentinels
<1>2. /\ TypeOK'
      /\ UNCHANGED <<status, future, record, wfFuture, stopping, job>>
      /\ queued' \subseteq queued
      /\ \A t \in queued \ queued' : status[t] # "pending"
      /\ \A w \in Workers : worker'[w] = "busy" => worker[w] = "busy"
  <2>1. CASE Queue!Start
    BY <2>1 DEF QueueAlone, Queue!Start
  <2>2. CASE Queue!Stop
    BY <1>1, <2>2, WorkerCount DEF QueueAlone, Queue!Stop
  <2>3. CASE Queue!StopPut
    BY <1>1, <2>3 DEF QueueAlone, Queue!StopPut
  <2>4. CASE Queue!DrainTimeout
    BY <2>4 DEF QueueAlone, Queue!DrainTimeout, Queue!Live
  <2>5. CASE Queue!StopReturns \/ Queue!StopAborted
    BY <2>5 DEF QueueAlone, Queue!StopReturns, Queue!StopAborted
  <2>6. ASSUME NEW w \in Workers, Queue!TakeSentinel(w)
        PROVE  <1>2!:
    BY <2>6 DEF QueueAlone, Queue!TakeSentinel, Queue!SentinelIsHead
  <2>7. ASSUME NEW w \in Workers, Queue!InterruptIdle(w)
        PROVE  <1>2!:
    BY <2>7 DEF QueueAlone, Queue!InterruptIdle
  <2>8. ASSUME NEW w \in Workers, NEW t \in Tasks, Queue!SkipCancelled(w, t)
        PROVE  <1>2!:
    BY <2>8 DEF QueueAlone, Queue!SkipCancelled, Queue!Runnable
  <2> QED
    BY <2>1, <2>2, <2>3, <2>4, <2>5, <2>6, <2>7, <2>8 DEF QueueAlone
<1>3. RecordsStand'
  BY <1>2 DEF RecordsStand
<1>4. WorkersHold'
  BY <1>2 DEF WorkersHold
<1>5. FuturesTold' /\ StopLeavesNoneQueued'
  BY <1>2 DEF FuturesTold, FuturesAgree, StopLeavesNoneQueued
<1> QED
  BY <1>2, <1>3, <1>4, <1>5

\* schedule() registers a workflow nobody knew, accepted or not.
LEMMA ScheduleKeepsIInv ==
    ASSUME IInv, NEW t \in Tasks, Schedule(t)
    PROVE  IInv'
<1> USE DEF IInv, TypeOK, Queue!TypeOK
<1>1. record[t] = "none" /\ status[t] = "new" /\ ~stopping /\ stopping' = stopping
  BY DEF Schedule, Open, RecordsStand
<1>2. CASE Queue!Submit(t) /\ record' = [record EXCEPT ![t] = "queued"]
  <2> USE <1>2 DEF Queue!Submit, Queue!Register, Queue!Enqueue, Queue!poolVars, Queue!stopVars
  <2>1. /\ status' = [status EXCEPT ![t] = "pending"]
        /\ future' = [future EXCEPT ![t] = "pending"]
        /\ wfFuture' = [wfFuture EXCEPT ![t] = "pending"]
        /\ queued' = queued \cup {t}
        /\ UNCHANGED <<worker, job>>
    BY DEF Schedule
  <2>2. stats' \in [submitted: Nat, completed: Nat, failed: Nat, cancelled: Nat]
    OBVIOUS
  <2>3. TypeOK'
    BY <1>1, <2>1, <2>2
  <2>4. RecordsStand'
    BY <1>1, <1>2, <2>1 DEF RecordsStand
  <2>5. WorkersHold'
    BY <1>1, <2>1 DEF WorkersHold
  <2>6. FuturesTold' /\ StopLeavesNoneQueued'
    BY <1>1, <1>2, <2>1 DEF FuturesTold, FuturesAgree, StopLeavesNoneQueued, RecordsStand
  <2> QED
    BY <2>3, <2>4, <2>5, <2>6
<1>3. CASE record' = [record EXCEPT ![t] = "failed"] /\ UNCHANGED queueVars
  <2>1. /\ wfFuture' = [wfFuture EXCEPT ![t] = "pending"]
        /\ UNCHANGED <<status, future, attempts, queued, sentinels, worker, job,
                        cancelling, started, stop, toSend, stats>>
    BY <1>3 DEF Schedule, queueVars
  <2>2. TypeOK'
    BY <1>1, <1>3, <2>1 DEF RecordTerminal
  <2>3. RecordsStand'
    BY <1>1, <1>3, <2>1 DEF RecordsStand
  <2>4. WorkersHold'
    BY <2>1 DEF WorkersHold
  <2>5. FuturesTold' /\ StopLeavesNoneQueued'
    BY <1>1, <1>3, <2>1 DEF FuturesTold, FuturesAgree, StopLeavesNoneQueued, RecordsStand
  <2> QED
    BY <2>2, <2>3, <2>4, <2>5
<1> QED
  BY <1>2, <1>3 DEF Schedule

\* cancel() and stop() change records and tasks of the same workflows.
LEMMA CancelAllKeepsIInv ==
    ASSUME IInv, NEW T \in SUBSET Tasks, CancelAll(T),
           \A t \in T : Cancellable(t),
           stopping' \in BOOLEAN, stopping' => stopping \/ T = {t \in Tasks : record[t] = "queued"}
    PROVE  IInv'
<1> USE DEF IInv, TypeOK, Queue!TypeOK
<1> DEFINE C == {t \in T : status[t] = "pending"}
<1>1. /\ status' = [t \in Tasks |-> IF t \in C THEN "cancelled" ELSE status[t]]
      /\ future' = [t \in Tasks |-> IF t \in C /\ future[t] = "pending"
                                     THEN "cancelled" ELSE future[t]]
      /\ stats' = [stats EXCEPT !.cancelled = @ + Cardinality(C)]
      /\ record' = [t \in Tasks |-> IF t \in T THEN "cancelled" ELSE record[t]]
      /\ wfFuture' = [t \in Tasks |-> IF t \in T /\ wfFuture[t] = "pending"
                                       THEN "cancelled" ELSE wfFuture[t]]
      /\ UNCHANGED <<attempts, queued, sentinels, worker, job, cancelling, started, stop, toSend>>
  BY DEF CancelAll, Withdraw
<1>2. stats' \in [submitted: Nat, completed: Nat, failed: Nat, cancelled: Nat]
  <2>1. Cardinality(C) \in Nat
    BY SchedulerAssumption, FS_Subset, FS_CardinalityType
  <2> QED
    BY <1>1, <2>1
<1>3. TypeOK'
  BY <1>1, <1>2, Zenon DEF RecordTerminal, Queue!Settled, Queue!Terminal
<1>4. RecordsStand'
  BY <1>1 DEF RecordsStand, Cancellable
<1>5. WorkersHold'
  BY <1>1 DEF WorkersHold
<1>6. FuturesTold'
  BY <1>1 DEF FuturesTold, FuturesAgree, RecordsStand, Cancellable
<1>7. StopLeavesNoneQueued'
  BY <1>1 DEF StopLeavesNoneQueued
<1> QED
  BY <1>3, <1>4, <1>5, <1>6, <1>7

\* A client that is cancelled takes the future of its workflow with it.
LEMMA WaiterCancelledKeepsIInv ==
    ASSUME IInv, NEW t \in Tasks, WaiterCancelled(t)
    PROVE  IInv'
<1>1. /\ wfFuture' = [wfFuture EXCEPT ![t] = "cancelled"] /\ wfFuture[t] = "pending"
      /\ UNCHANGED <<status, future, attempts, queued, sentinels, worker, job, cancelling,
                     started, stop, toSend, stats, record, stopping>>
  BY DEF WaiterCancelled, queueVars
<1> QED
  BY <1>1 DEF IInv, TypeOK, Queue!TypeOK, Queue!Settled, RecordsStand, WorkersHold, FuturesTold,
              FuturesAgree, StopLeavesNoneQueued

\* A worker takes a workflow that still waits.
LEMMA BeginRunKeepsIInv ==
    ASSUME IInv, NEW w \in Workers, NEW t \in Tasks, BeginRun(w, t)
    PROVE  IInv'
<1> USE DEF IInv, TypeOK, Queue!TypeOK
<1>1. /\ status' = [status EXCEPT ![t] = "running"]
      /\ record' = [record EXCEPT ![t] = "running"]
      /\ worker' = [worker EXCEPT ![w] = "busy"]
      /\ job' = [job EXCEPT ![w] = t]
      /\ queued' = queued \ {t}
      /\ attempts' = [attempts EXCEPT ![t] = @ + 1]
      /\ UNCHANGED <<future, sentinels, cancelling, started, stop, toSend, stats,
                     wfFuture, stopping>>
  BY DEF BeginRun, Queue!Begin, Queue!stopVars
<1>2. status[t] = "pending" /\ record[t] = "queued"
  BY DEF BeginRun, Queue!Begin, Queue!IsHead, Queue!Runnable, RecordsStand
<1>3. TypeOK'
  BY <1>1
<1>4. RecordsStand'
  BY <1>1, <1>2 DEF RecordsStand
<1>5. WorkersHold'
  BY <1>1, <1>2 DEF WorkersHold
<1>6. FuturesTold' /\ StopLeavesNoneQueued'
  BY <1>1, <1>2 DEF FuturesTold, FuturesAgree, StopLeavesNoneQueued
<1> QED
  BY <1>3, <1>4, <1>5, <1>6

\* The function ends and the wrapper writes the record.
LEMMA FunctionEndKeepsIInv ==
    ASSUME IInv, NEW w \in Workers, FnReturns(w) \/ FnRaises(w)
    PROVE  IInv'
<1> USE DEF IInv, TypeOK, Queue!TypeOK
<1>1. /\ job[w] \in Tasks /\ status[job[w]] = "running"
      /\ record[job[w]] \in {"running", "cancelled"}
      /\ wfFuture[job[w]] \in {"pending", "cancelled"}
  BY DEF FnReturns, FnRaises, InFunction, WorkersHold, FuturesTold, FuturesAgree, Queue!Settled
<1>2. /\ UNCHANGED <<status, future, attempts, queued, sentinels, worker, job, cancelling,
                     started, stop, toSend, stats, stopping>>
      /\ \/ /\ record' = [record EXCEPT ![job[w]] = "completed"]
            /\ wfFuture' = [wfFuture EXCEPT ![job[w]] = IF @ = "pending" THEN "result" ELSE @]
         \/ /\ record' = [record EXCEPT ![job[w]] = "failed"]
            /\ wfFuture' = [wfFuture EXCEPT ![job[w]] = IF @ = "pending" THEN "exception" ELSE @]
  BY <1>1 DEF FnReturns, FnRaises, Resolve, queueVars
<1>3. TypeOK'
  BY <1>1, <1>2 DEF RecordTerminal, Queue!Settled
<1>4. RecordsStand'
  BY <1>1, <1>2 DEF RecordsStand
<1>5. WorkersHold'
  BY <1>2 DEF WorkersHold
<1>6. FuturesTold'
  BY <1>1, <1>2 DEF FuturesTold, FuturesAgree
<1>7. StopLeavesNoneQueued'
  BY <1>1, <1>2 DEF StopLeavesNoneQueued
<1> QED
  BY <1>3, <1>4, <1>5, <1>6, <1>7

\* The queue learns how a job ended, from the wrapper or past it.
LEMMA EndJobKeepsIInv ==
    ASSUME IInv, NEW w \in Workers,
           NEW outcome \in Queue!Terminal, NEW answer \in Queue!Settled,
           NEW next \in {"idle", "crashed", "cancelled"},
           Queue!EndJob(w, outcome, answer, next),
           cancelling' \subseteq Workers, UNCHANGED schedVars,
           outcome = "completed" => record[job[w]] = "completed",
           answer = "result" => record[job[w]] = "completed",
           answer = "exception" => record[job[w]] = "failed" \/ job[w] \in Timed
    PROVE  IInv'
<1> USE DEF IInv, TypeOK, Queue!TypeOK
<1>1. job[w] \in Tasks /\ status[job[w]] = "running" /\ worker[w] = "busy"
  BY DEF WorkersHold, Queue!EndJob
<1>2. /\ status' = [status EXCEPT ![job[w]] = outcome]
      /\ future' = [future EXCEPT ![job[w]] = IF @ = "pending" THEN answer ELSE @]
      /\ stats' = [stats EXCEPT ![outcome] = @ + 1]
      /\ job' = [job EXCEPT ![w] = NoTask]
      /\ worker' = [worker EXCEPT ![w] = next]
      /\ UNCHANGED <<attempts, queued, sentinels, started, stop, toSend, record, wfFuture, stopping>>
  BY <1>1 DEF Queue!EndJob, Queue!Settle, Queue!stopVars, schedVars
<1>3. stats' \in [submitted: Nat, completed: Nat, failed: Nat, cancelled: Nat]
  <2>1. outcome \in {"completed", "failed", "cancelled"}
    BY DEF Queue!Terminal
  <2> QED
    BY <1>2, <2>1
<1>4. TypeOK'
  BY <1>1, <1>2, <1>3 DEF Queue!Terminal, Queue!Settled
<1>5. RecordsStand'
  BY <1>1, <1>2 DEF RecordsStand, Queue!Terminal
<1>6. WorkersHold'
  BY <1>1, <1>2 DEF WorkersHold
<1>7. FuturesTold'
  BY <1>1, <1>2 DEF FuturesTold, FuturesAgree, Queue!Terminal
<1>8. StopLeavesNoneQueued'
  BY <1>2 DEF StopLeavesNoneQueued
<1> QED
  BY <1>4, <1>5, <1>6, <1>7, <1>8

LEMMA PublishedKeepsIInv ==
    ASSUME IInv, NEW w \in Workers, Published(w)
    PROVE  IInv'
<1> USE DEF Published, Queue!FnEnds
<1>1. cancelling' = cancelling /\ cancelling \subseteq Workers
  BY DEF IInv, TypeOK, Queue!TypeOK, Queue!Complete, Queue!Fail
<1>2. CASE record[job[w]] = "completed" /\ Queue!Complete(w)
  <2>1. Queue!EndJob(w, "completed", "result", "idle")
    BY <1>2 DEF Queue!Complete
  <2> QED
    BY <1>1, <1>2, <2>1, EndJobKeepsIInv DEF Queue!Terminal, Queue!Settled
<1>3. CASE record[job[w]] = "failed" /\ Queue!Fail(w)
  <2>1. Queue!EndJob(w, "failed", "exception", "idle")
    BY <1>3 DEF Queue!Fail
  <2> QED
    BY <1>1, <1>3, <2>1, EndJobKeepsIInv DEF Queue!Terminal, Queue!Settled
<1> QED
  BY <1>2, <1>3

LEMMA PassThroughKeepsIInv ==
    ASSUME IInv, NEW w \in Workers, PassThrough(w)
    PROVE  IInv'
<1>1. cancelling \subseteq Workers
  BY DEF IInv, TypeOK, Queue!TypeOK
<1>2. CASE Queue!TimeOut(w)
  <2>1. /\ Queue!EndJob(w, "failed", "exception", "idle") /\ job[w] \in Timed
        /\ cancelling' \subseteq Workers
    BY <1>1, <1>2 DEF Queue!TimeOut, Queue!Fail, Queue!FnEnds
  <2> QED
    BY <2>1, EndJobKeepsIInv DEF PassThrough, Queue!Terminal, Queue!Settled
<1>3. CASE Queue!FnCancelled(w)
  <2>1. Queue!EndJob(w, "cancelled", "cancelled", "crashed") /\ cancelling' \subseteq Workers
    BY <1>1, <1>3 DEF Queue!FnCancelled, Queue!FnEnds
  <2> QED
    BY <2>1, EndJobKeepsIInv DEF PassThrough, Queue!Terminal, Queue!Settled
<1>4. CASE Queue!InterruptBusy(w)
  <2>1. Queue!EndJob(w, "cancelled", "cancelled", "cancelled") /\ cancelling' \subseteq Workers
    BY <1>1, <1>4 DEF Queue!InterruptBusy
  <2> QED
    BY <2>1, EndJobKeepsIInv DEF PassThrough, Queue!Terminal, Queue!Settled
<1> QED
  BY <1>2, <1>3, <1>4 DEF PassThrough

-----------------------------------------------------------------------------
(* The scheduler *)

LEMMA InitIInv == Init => IInv
<1> SUFFICES ASSUME Init PROVE IInv
  OBVIOUS
<1> USE DEF Init, Queue!Init
<1>1. \A S : <<>> \in [{} -> S]
  OBVIOUS
<1>2. TypeOK
  BY <1>1 DEF TypeOK, Queue!TypeOK
<1> QED
  BY <1>2 DEF IInv, RecordsStand, WorkersHold, FuturesTold, FuturesAgree, StopLeavesNoneQueued

LEMMA NextIInv == IInv /\ [Next]_vars => IInv'
<1> SUFFICES ASSUME IInv, [Next]_vars PROVE IInv'
  OBVIOUS
<1>1. ASSUME NEW t \in Tasks, Cancel(t) PROVE IInv'
  <2>1. CancelAll({t}) /\ Cancellable(t) /\ stopping' = stopping /\ stopping \in BOOLEAN
    BY <1>1 DEF Cancel, IInv, TypeOK
  <2> QED
    BY <2>1, CancelAllKeepsIInv
<1>2. CASE StopScheduler
  <2> DEFINE T == {t \in Tasks : record[t] = "queued"}
  <2>1. CancelAll(T) /\ stopping' = TRUE /\ \A t \in T : Cancellable(t)
    BY <1>2 DEF StopScheduler, Cancellable
  <2>2. T \in SUBSET Tasks
    OBVIOUS
  <2> HIDE DEF T
  <2>3. T = {t \in Tasks : record[t] = "queued"}
    BY DEF T
  <2> QED
    BY <2>1, <2>2, <2>3, CancelAllKeepsIInv
<1>3. CASE UNCHANGED vars
  BY <1>3 DEF vars, queueVars, schedVars, IInv, TypeOK, Queue!TypeOK, RecordsStand, WorkersHold,
              FuturesTold, FuturesAgree, StopLeavesNoneQueued
<1> QED
  BY <1>1, <1>2, <1>3, QueueAloneKeepsIInv, ScheduleKeepsIInv, WaiterCancelledKeepsIInv,
     BeginRunKeepsIInv, FunctionEndKeepsIInv, PublishedKeepsIInv, PassThroughKeepsIInv DEF Next

\* Records, workflow futures and queue tasks stay as IInv says.
THEOREM IInvHolds == Spec => []IInv
  BY InitIInv, NextIInv, PTL DEF Spec

\* A workflow is QUEUED exactly while its task waits in the queue, and one that
\* was cancelled there is never begun.
THEOREM InStepHolds == Spec => []InStep
<1>1. IInv => InStep
  BY DEF IInv, RecordsStand, InStep
<1> QED
  BY <1>1, IInvHolds, PTL

\* The future of a workflow, its record and the future of its task agree.
THEOREM FuturesAgreeHolds == Spec => []FuturesAgree
<1>1. IInv => FuturesAgree
  BY DEF IInv, FuturesTold
<1> QED
  BY <1>1, IInvHolds, PTL

\* After the scheduler's stop() no workflow waits and none is accepted.
THEOREM StopLeavesNoneQueuedHolds == Spec => []StopLeavesNoneQueued
<1>1. IInv => StopLeavesNoneQueued
  BY DEF IInv
<1> QED
  BY <1>1, IInvHolds, PTL

-----------------------------------------------------------------------------
(* What the steps do to records *)

\* A workflow that COMPLETED or FAILED stays so, and none that was cancelled
\* waits or starts again.
THEOREM OutcomeStableHolds == Spec => OutcomeStable
<1> DEFINE Stable ==
      \A t \in Tasks :
         /\ record[t] \in {"completed", "failed"} => record'[t] = record[t]
         /\ record[t] = "cancelled" => record'[t] \notin {"queued", "running"}
<1>1. IInv /\ [Next]_vars => Stable
  <2> SUFFICES ASSUME IInv, [Next]_vars PROVE Stable
    OBVIOUS
  <2> USE DEF IInv, TypeOK, schedVars
  <2>1. ASSUME NEW t \in Tasks, Schedule(t) PROVE Stable
    BY <2>1 DEF Schedule
  <2>2. ASSUME NEW T \in SUBSET Tasks, CancelAll(T), \A t \in T : Cancellable(t) PROVE Stable
    BY <2>2 DEF CancelAll, Cancellable
  <2>3. ASSUME NEW t \in Tasks, Cancel(t) PROVE Stable
    <3>1. CancelAll({t}) /\ \A u \in {t} : Cancellable(u)
      BY <2>3 DEF Cancel
    <3> QED
      BY <2>2, <3>1
  <2>4. CASE StopScheduler
    <3>1. CancelAll({t \in Tasks : record[t] = "queued"})
      BY <2>4 DEF StopScheduler
    <3> QED
      BY <2>2, <3>1 DEF Cancellable
  <2>5. ASSUME NEW w \in Workers, NEW t \in Tasks, BeginRun(w, t) PROVE Stable
    <3>1. record[t] = "queued" /\ record' = [record EXCEPT ![t] = "running"]
      BY <2>5 DEF BeginRun, Queue!Begin, Queue!IsHead, Queue!Runnable, RecordsStand
    <3> QED
      BY <3>1
  <2>6. ASSUME NEW w \in Workers, FnReturns(w) \/ FnRaises(w) PROVE Stable
    BY <2>6 DEF FnReturns, FnRaises, InFunction
  <2>7. ASSUME record' = record PROVE Stable
    BY <2>7
  <2>8. ASSUME NEW t \in Tasks, WaiterCancelled(t) PROVE Stable
    BY <2>7, <2>8 DEF WaiterCancelled
  <2>9. ASSUME NEW w \in Workers, Published(w) \/ PassThrough(w) PROVE Stable
    BY <2>7, <2>9 DEF Published, PassThrough
  <2>10. CASE QueueAlone \/ UNCHANGED vars
    BY <2>7, <2>10 DEF QueueAlone, vars
  <2> QED
    BY <2>1, <2>3, <2>4, <2>5, <2>6, <2>8, <2>9, <2>10 DEF Next
<1> QED
  BY <1>1, IInvHolds, PTL DEF Spec, OutcomeStable

-----------------------------------------------------------------------------
(* The scheduler implements the workflow lifecycle *)

\* One function moves, and the others stay where they are.
LEMMA FnMoves ==
    ASSUME NEW t \in Tasks, NEW to, Fn(t)' = to,
           \A u \in Tasks : u # t => record'[u] = record[u] /\ status'[u] = status[u]
    PROVE  [u \in Tasks |-> Fn(u)]' = [[u \in Tasks |-> Fn(u)] EXCEPT ![t] = to]
<1>1. \A u \in Tasks : u # t => Fn(u)' = Fn(u)
  BY DEF Fn
<1> QED
  BY <1>1

LEMMA ScheduleImplements ==
    ASSUME IInv, NEW t \in Tasks, Schedule(t)
    PROVE  Workflows!Schedule(t) \/ Workflows!Refuse(t)
<1> USE DEF IInv, TypeOK, Queue!TypeOK
<1>1. /\ record[t] = "none" /\ status[t] = "new"
      /\ wfFuture' = [wfFuture EXCEPT ![t] = "pending"]
  BY DEF Schedule, RecordsStand
<1>2. Fn(t) = "none"
  BY <1>1 DEF Fn
<1>3. CASE Queue!Submit(t) /\ record' = [record EXCEPT ![t] = "queued"]
  <2>1. status' = [status EXCEPT ![t] = "pending"]
    BY <1>3 DEF Queue!Submit, Queue!Register
  <2>2. record'[t] = "queued" /\ status'[t] = "pending"
    BY <1>3, <2>1
  <2>3. Fn(t)' = "waiting"
    BY <2>2 DEF Fn
  <2>4. [u \in Tasks |-> Fn(u)]' = [[u \in Tasks |-> Fn(u)] EXCEPT ![t] = "waiting"]
    BY <1>3, <2>1, <2>3, FnMoves
  <2> QED
    BY <1>1, <1>2, <2>4 DEF Workflows!Schedule, Workflows!Register
<1>4. CASE record' = [record EXCEPT ![t] = "failed"] /\ UNCHANGED queueVars
  <2>1. status' = status
    BY <1>4 DEF queueVars
  <2>2. record'[t] = "failed" /\ status'[t] = "new"
    BY <1>1, <1>4, <2>1
  <2>3. Fn(t)' = "ended"
    BY <2>2 DEF Fn
  <2>4. [u \in Tasks |-> Fn(u)]' = [[u \in Tasks |-> Fn(u)] EXCEPT ![t] = "ended"]
    BY <1>4, <2>1, <2>3, FnMoves
  <2> QED
    BY <1>1, <1>2, <2>4 DEF Workflows!Refuse, Workflows!Register
<1> QED
  BY <1>3, <1>4 DEF Schedule

LEMMA StopImplements ==
    ASSUME IInv, StopScheduler
    PROVE  Workflows!Withdraw({t \in Tasks : record[t] = "queued"})
<1> USE DEF IInv, TypeOK, Queue!TypeOK
<1> DEFINE T == {t \in Tasks : record[t] = "queued"}
<1>1. /\ status' = [t \in Tasks |-> IF t \in T /\ status[t] = "pending" THEN "cancelled" ELSE status[t]]
      /\ record' = [t \in Tasks |-> IF t \in T THEN "cancelled" ELSE record[t]]
      /\ wfFuture' = [t \in Tasks |-> IF t \in T /\ wfFuture[t] = "pending"
                                       THEN "cancelled" ELSE wfFuture[t]]
  BY DEF StopScheduler, CancelAll, Withdraw
<1>2. \A t \in T : status[t] = "pending" /\ Fn(t) = "waiting"
  BY DEF RecordsStand, Fn
<1>3. [t \in Tasks |-> Fn(t)]' = [t \in Tasks |-> IF t \in T THEN "ended" ELSE [u \in Tasks |-> Fn(u)][t]]
  BY <1>1, <1>2 DEF Fn
<1> QED
  BY <1>1, <1>2, <1>3 DEF Workflows!Withdraw, Workflows!Settle

LEMMA CancelImplements ==
    ASSUME IInv, NEW t \in Tasks, Cancel(t)
    PROVE  \/ Workflows!Withdraw({t}) \/ Workflows!Disown(t)
           \/ UNCHANGED <<[u \in Tasks |-> Fn(u)], wfFuture>>
<1> USE DEF IInv, TypeOK, Queue!TypeOK
<1>1. /\ status' = [u \in Tasks |-> IF u = t /\ status[u] = "pending" THEN "cancelled" ELSE status[u]]
      /\ record' = [u \in Tasks |-> IF u = t THEN "cancelled" ELSE record[u]]
      /\ wfFuture' = [u \in Tasks |-> IF u = t /\ wfFuture[u] = "pending"
                                       THEN "cancelled" ELSE wfFuture[u]]
  BY DEF Cancel, CancelAll, Withdraw
<1>2. CASE record[t] = "queued"
  <2>1. status[t] = "pending" /\ Fn(t) = "waiting"
    BY <1>2 DEF RecordsStand, Fn
  <2>2. [u \in Tasks |-> Fn(u)]' = [u \in Tasks |-> IF u \in {t} THEN "ended" ELSE [v \in Tasks |-> Fn(v)][u]]
    BY <1>1, <2>1 DEF Fn
  <2> QED
    BY <1>1, <2>1, <2>2 DEF Workflows!Withdraw, Workflows!Settle
<1>3. CASE record[t] = "running"
  <2>1. status[t] \in {"running", "failed", "cancelled"}
    BY <1>3 DEF RecordsStand
  <2>2. [u \in Tasks |-> Fn(u)]' = [u \in Tasks |-> Fn(u)]
    BY <1>1, <1>3, <2>1 DEF Fn
  <2>3. CASE wfFuture[t] = "pending"
    BY <1>1, <2>2, <2>3 DEF Workflows!Disown, Workflows!Settle
  <2>4. CASE wfFuture[t] # "pending"
    <3>1. wfFuture' = wfFuture
      BY <1>1, <2>4
    <3> QED
      BY <2>2, <3>1
  <2> QED
    BY <2>3, <2>4
<1> QED
  BY <1>2, <1>3 DEF Cancel, Cancellable

LEMMA WaiterCancelledImplements ==
    ASSUME IInv, NEW t \in Tasks, WaiterCancelled(t)
    PROVE  Workflows!Disown(t)
<1>1. /\ UNCHANGED <<status, record>> /\ wfFuture[t] = "pending"
      /\ wfFuture' = [wfFuture EXCEPT ![t] = "cancelled"]
      /\ wfFuture \in [Tasks -> {"none", "pending"} \cup Queue!Settled]
  BY DEF WaiterCancelled, queueVars, IInv, TypeOK
<1>2. [u \in Tasks |-> Fn(u)]' = [u \in Tasks |-> Fn(u)]
  BY <1>1 DEF Fn
<1>3. wfFuture' = [u \in Tasks |-> IF u \in {t} /\ wfFuture[u] = "pending"
                                   THEN "cancelled" ELSE wfFuture[u]]
  BY <1>1
<1> QED
  BY <1>1, <1>2, <1>3 DEF Workflows!Disown, Workflows!Settle

LEMMA BeginRunImplements ==
    ASSUME IInv, NEW w \in Workers, NEW t \in Tasks, BeginRun(w, t)
    PROVE  Workflows!Begin(t)
<1> USE DEF IInv, TypeOK, Queue!TypeOK
<1>1. /\ status' = [status EXCEPT ![t] = "running"]
      /\ record' = [record EXCEPT ![t] = "running"]
      /\ wfFuture' = wfFuture
      /\ status[t] = "pending" /\ record[t] = "queued"
  BY DEF BeginRun, Queue!Begin, Queue!IsHead, Queue!Runnable, RecordsStand
<1>2. record'[t] = "running" /\ status'[t] = "running"
  BY <1>1
<1>3. Fn(t) = "waiting" /\ Fn(t)' = "running"
  BY <1>1, <1>2 DEF Fn
<1>4. [u \in Tasks |-> Fn(u)]' = [[u \in Tasks |-> Fn(u)] EXCEPT ![t] = "running"]
  BY <1>1, <1>3, FnMoves
<1> QED
  BY <1>1, <1>3, <1>4 DEF Workflows!Begin

LEMMA FunctionEndImplements ==
    ASSUME IInv, NEW w \in Workers, FnReturns(w) \/ FnRaises(w)
    PROVE  Workflows!Return(job[w]) \/ Workflows!Raise(job[w])
<1> USE DEF IInv, TypeOK, Queue!TypeOK
<1>0. PICK t \in Tasks : t = job[w]
  BY DEF FnReturns, FnRaises, InFunction, WorkersHold
<1>1. /\ status[t] = "running" /\ record[t] \in {"running", "cancelled"}
      /\ status' = status
  BY <1>0 DEF FnReturns, FnRaises, InFunction, WorkersHold, queueVars
<1>2. \/ FnReturns(w) /\ record' = [record EXCEPT ![t] = "completed"] /\ Resolve(t, "result")
      \/ FnRaises(w) /\ record' = [record EXCEPT ![t] = "failed"] /\ Resolve(t, "exception")
  BY <1>0 DEF FnReturns, FnRaises
<1>3. record'[t] \in {"completed", "failed"} /\ status'[t] = "running"
  BY <1>1, <1>2
<1>4. Fn(t) = "running" /\ Fn(t)' = "ended"
  BY <1>1, <1>3 DEF Fn
<1>5. [u \in Tasks |-> Fn(u)]' = [[u \in Tasks |-> Fn(u)] EXCEPT ![t] = "ended"]
  BY <1>1, <1>2, <1>4, FnMoves
<1>6. ASSUME NEW answer, Resolve(t, answer) PROVE Workflows!Settle({t}, answer)
  BY <1>1, <1>6 DEF Resolve, Workflows!Settle
<1>7. Workflows!End(t)
  BY <1>1, <1>4, <1>5 DEF Workflows!End
<1>8. Workflows!Return(t) \/ Workflows!Raise(t)
  BY <1>2, <1>6, <1>7 DEF Workflows!Return, Workflows!Raise
<1> QED
  BY <1>0, <1>8

\* The queue learns of an end that the clients know, or the function is cut
\* off and they learn nothing.
LEMMA JobEndImplements ==
    ASSUME IInv, NEW w \in Workers, NEW outcome \in Queue!Terminal, NEW answer, NEW next,
           Queue!EndJob(w, outcome, answer, next), UNCHANGED schedVars
    PROVE  \/ Workflows!Abort(job[w])
           \/ UNCHANGED <<[t \in Tasks |-> Fn(t)], wfFuture>>
<1> USE DEF IInv, TypeOK, Queue!TypeOK
<1>0. PICK t \in Tasks : t = job[w]
  BY DEF WorkersHold, Queue!EndJob
<1>1. status[t] = "running" /\ record[t] # "none"
  BY <1>0 DEF WorkersHold, Queue!EndJob, RecordsStand
<1>2. /\ status' = [status EXCEPT ![t] = outcome]
      /\ record' = record /\ wfFuture' = wfFuture
      /\ outcome \in {"completed", "failed", "cancelled"}
  BY <1>0 DEF Queue!EndJob, schedVars, Queue!Terminal
<1>3. record'[t] # "none" /\ status'[t] \notin {"pending", "running"}
  BY <1>1, <1>2
<1>4. Fn(t)' = "ended"
  BY <1>3 DEF Fn
<1>5. [u \in Tasks |-> Fn(u)]' = [[u \in Tasks |-> Fn(u)] EXCEPT ![t] = "ended"]
  BY <1>2, <1>4, FnMoves
<1>6. CASE record[t] \in {"running", "cancelled"}
  <2>1. Fn(t) = "running"
    BY <1>1, <1>6 DEF Fn
  <2> QED
    BY <1>0, <1>2, <1>5, <2>1 DEF Workflows!Abort, Workflows!End
<1>7. CASE record[t] \notin {"running", "cancelled"}
  <2>1. Fn(t) = "ended"
    BY <1>1, <1>7 DEF Fn
  <2>2. [u \in Tasks |-> Fn(u)]' = [u \in Tasks |-> Fn(u)]
    BY <1>5, <2>1
  <2> QED
    BY <1>2, <2>2
<1> QED
  BY <1>6, <1>7

LEMMA LifecycleStep ==
    IInv /\ [Next]_vars => [Workflows!Next]_<<[t \in Tasks |-> Fn(t)], wfFuture>>
<1> SUFFICES ASSUME IInv, [Next]_vars
             PROVE  [Workflows!Next]_<<[t \in Tasks |-> Fn(t)], wfFuture>>
  OBVIOUS
<1> USE DEF Workflows!Next, Workflows!Progress
<1>1. ASSUME NEW t \in Tasks, Schedule(t) \/ Cancel(t) \/ WaiterCancelled(t)
      PROVE  [Workflows!Next]_<<[u \in Tasks |-> Fn(u)], wfFuture>>
  BY <1>1, ScheduleImplements, CancelImplements, WaiterCancelledImplements
<1>2. CASE StopScheduler
  BY <1>2, StopImplements
<1>3. ASSUME NEW w \in Workers, NEW t \in Tasks, BeginRun(w, t)
      PROVE  [Workflows!Next]_<<[u \in Tasks |-> Fn(u)], wfFuture>>
  BY <1>3, BeginRunImplements
<1>4. ASSUME NEW w \in Workers, FnReturns(w) \/ FnRaises(w)
      PROVE  [Workflows!Next]_<<[u \in Tasks |-> Fn(u)], wfFuture>>
  <2>1. job[w] \in Tasks
    BY <1>4 DEF FnReturns, FnRaises, InFunction, IInv, WorkersHold
  <2> QED
    BY <1>4, <2>1, FunctionEndImplements
<1>5. ASSUME NEW w \in Workers, Published(w) \/ PassThrough(w)
      PROVE  [Workflows!Next]_<<[u \in Tasks |-> Fn(u)], wfFuture>>
  <2>1. PICK outcome, answer, next :
           outcome \in Queue!Terminal /\ Queue!EndJob(w, outcome, answer, next)
    BY <1>5 DEF Published, PassThrough, Queue!Complete, Queue!Fail, Queue!TimeOut,
                Queue!FnCancelled, Queue!InterruptBusy, Queue!FnEnds, Queue!Terminal
  <2>2. job[w] \in Tasks /\ UNCHANGED schedVars
    BY <1>5, <2>1 DEF Published, PassThrough, Queue!EndJob, IInv, WorkersHold
  <2> QED
    BY <2>1, <2>2, JobEndImplements
<1>6. CASE QueueAlone \/ UNCHANGED vars
  <2>1. UNCHANGED <<status, record, wfFuture>>
    BY <1>6 DEF QueueAlone, vars, queueVars, schedVars, Queue!Start, Queue!Stop, Queue!StopPut,
                Queue!DrainTimeout, Queue!StopReturns, Queue!StopAborted, Queue!TakeSentinel,
                Queue!InterruptIdle, Queue!SkipCancelled, Queue!taskVars
  <2> QED
    BY <2>1 DEF Fn
<1> QED
  BY <1>1, <1>2, <1>3, <1>4, <1>5, <1>6 DEF Next

\* The scheduler over its queue implements what its clients see of it.
THEOREM Implementation == Spec => ImplementsWorkflows
<1>1. Init => Workflows!Init
  BY DEF Init, Queue!Init, Workflows!Init, Fn
<1> QED
  BY <1>1, LifecycleStep, IInvHolds, PTL DEF Spec, ImplementsWorkflows, Workflows!Spec
=============================================================================
