--------------------------- MODULE WorkerQueueProofs ---------------------------
(***************************************************************************)
(* Proofs about the worker queue, for every number of tasks, workers and   *)
(* clients, every capacity and every assignment of priorities.             *)
(***************************************************************************)
EXTENDS WorkerQueueProperties, FiniteSetTheorems, TLAPS

\* Every action of the queue, waiters and stop() included, keeps every
\* variable in its type: in particular no count goes below zero.
LEMMA Typing == TypeOK /\ [Next]_vars => TypeOK'
<1> SUFFICES ASSUME TypeOK, [Next]_vars PROVE TypeOK'
  OBVIOUS
<1> USE DEF TypeOK, Terminal, Settled, taskVars, poolVars, stopVars, waitVars
<1>0. Cardinality(Workers) \in Nat
  BY QueueAssumption, FS_CardinalityType
<1>1. CASE Start
  BY <1>1 DEF Start
<1>2. ASSUME NEW n \in Nat, PutSentinels(n)
      PROVE  sentinels' \in Nat /\ toSend' \in Nat /\ stop' \in {"draining", "putting"}
  BY <1>2 DEF PutSentinels
<1>3. CASE Stop
  BY <1>0, <1>2, <1>3 DEF Stop
<1>4. CASE StopPut
  BY <1>2, <1>4 DEF StopPut
<1>5. CASE DrainTimeout
  BY <1>5 DEF DrainTimeout, Live
<1>6. CASE StopReturns
  BY <1>6 DEF StopReturns
<1>7. CASE StopAborted
  BY <1>7 DEF StopAborted
<1>8. ASSUME NEW t \in Tasks, Register(t)
      PROVE  /\ status' \in [Tasks -> {"new", "pending", "running"} \cup Terminal]
             /\ future' \in [Tasks -> {"none", "pending"} \cup Settled]
             /\ wait' \in [Clients -> {"none", "direct", "shielded", "orphaned",
                                       "gaveUp", "interrupted"} \cup Settled]
  BY <1>8 DEF Register
<1>9. ASSUME NEW t \in Tasks, Enqueue(t)
      PROVE  queued' \subseteq Tasks
             /\ stats' \in [submitted: Nat, completed: Nat, failed: Nat, cancelled: Nat]
  BY <1>9 DEF Enqueue
<1>10. ASSUME NEW t \in Tasks, Submit(t) PROVE TypeOK'
  BY <1>8, <1>9, <1>10 DEF Submit
<1>11. ASSUME NEW t \in Tasks, SubmitNowait(t) PROVE TypeOK'
  BY <1>8, <1>9, <1>11 DEF SubmitNowait
<1>12. ASSUME NEW t, NEW answer \in Settled, Settle(t, answer)
       PROVE  future' \in [Tasks -> {"none", "pending"} \cup Settled]
  BY <1>12 DEF Settle
<1>13. ASSUME NEW t \in Tasks, CancelTask(t) PROVE TypeOK'
  BY <1>12, <1>13 DEF CancelTask, CancelFuture
<1>14. ASSUME NEW w \in Workers, Take(w) PROVE TypeOK'
  <2>1. ASSUME NEW t \in Tasks, Begin(w, t) PROVE TypeOK'
    BY <2>1 DEF Begin
  <2>2. ASSUME NEW t \in Tasks, SkipCancelled(w, t) PROVE TypeOK'
    BY <2>2 DEF SkipCancelled
  <2>3. CASE TakeSentinel(w)
    BY <2>3 DEF TakeSentinel, SentinelIsHead
  <2> QED BY <1>14, <2>1, <2>2, <2>3 DEF Take
<1>15. ASSUME NEW w \in Workers,
              NEW outcome \in {"completed", "failed", "cancelled"},
              NEW answer \in Settled,
              NEW next \in {"idle", "crashed", "cancelled"},
              EndJob(w, outcome, answer, next),
              cancelling' \subseteq Workers
       PROVE  TypeOK'
  <2>1. stats' \in [submitted: Nat, completed: Nat, failed: Nat, cancelled: Nat]
    <3>1. CASE outcome = "completed"
      BY <1>15, <3>1 DEF EndJob
    <3>2. CASE outcome = "failed"
      BY <1>15, <3>2 DEF EndJob
    <3>3. CASE outcome = "cancelled"
      BY <1>15, <3>3 DEF EndJob
    <3> QED BY <3>1, <3>2, <3>3
  <2>2. future' \in [Tasks -> {"none", "pending"} \cup Settled]
    BY <1>12, <1>15 DEF EndJob
  <2>3. status' \in [Tasks -> {"new", "pending", "running"} \cup Terminal]
    BY <1>15 DEF EndJob
  <2>4. /\ worker' \in [Workers -> {"none", "idle", "busy", "exited",
                                    "cancelled", "crashed"}]
        /\ job' \in [Workers -> Tasks \cup {NoTask}]
    BY <1>15 DEF EndJob
  <2> QED BY <1>15, <2>1, <2>2, <2>3, <2>4 DEF EndJob
<1>16. ASSUME NEW w \in Workers,
              Complete(w) \/ Fail(w) \/ TimeOut(w) \/ FnCancelled(w)
       PROVE  TypeOK'
  BY <1>15, <1>16 DEF Complete, Fail, TimeOut, FnCancelled, FnEnds
<1>17. ASSUME NEW w \in Workers, Interrupt(w) PROVE TypeOK'
  <2>1. CASE InterruptBusy(w)
    BY <1>15, <2>1 DEF InterruptBusy
  <2>2. CASE InterruptIdle(w)
    BY <2>2 DEF InterruptIdle
  <2> QED BY <1>17, <2>1, <2>2 DEF Interrupt
<1>18. ASSUME NEW c \in Clients, NEW t \in Tasks, WaitFor(c, t) PROVE TypeOK'
  BY <1>18 DEF WaitFor
<1>19. ASSUME NEW c \in Clients,
              WaitReturns(c) \/ GiveUp(c) \/ WaiterCancelled(c)
       PROVE  TypeOK'
  BY <1>12, <1>19 DEF WaitReturns, GiveUp, WaiterCancelled, LeaveWait, CancelFuture
<1>20. CASE UNCHANGED vars
  BY <1>20 DEF vars
<1> QED
  BY <1>1, <1>3, <1>4, <1>5, <1>6, <1>7, <1>10, <1>11, <1>13, <1>14, <1>16,
     <1>17, <1>18, <1>19, <1>20 DEF Next

\* Type correctness of the queue.
THEOREM TypeCorrect == Spec => []TypeOK
<1>1. Init => TypeOK
  <2> SUFFICES ASSUME Init PROVE TypeOK
    OBVIOUS
  <2>1. /\ status \in [Tasks -> {"new", "pending", "running"} \cup Terminal]
        /\ future \in [Tasks -> {"none", "pending"} \cup Settled]
        /\ attempts \in [Tasks -> Nat]
    BY DEF Init
  <2>2. /\ worker \in [Workers -> {"none", "idle", "busy", "exited",
                                   "cancelled", "crashed"}]
        /\ job \in [Workers -> Tasks \cup {NoTask}]
    BY DEF Init
  <2>3. stats \in [submitted: Nat, completed: Nat, failed: Nat, cancelled: Nat]
    BY DEF Init
  <2>4. /\ wait \in [Clients -> {"none", "direct", "shielded", "orphaned",
                                 "gaveUp", "interrupted"} \cup Settled]
        /\ waitOn \in [Clients -> Tasks \cup {NoTask}]
    BY DEF Init
  <2> QED BY <2>1, <2>2, <2>3, <2>4 DEF Init, TypeOK
<1> QED BY <1>1, Typing, PTL DEF Spec

-----------------------------------------------------------------------------
(* Who holds a task *)

Holding == OneHolder /\ Unstarted /\ WaitingIsNew

\* A worker that ends the task it holds, whatever the outcome, lets go of it
\* alone.
LEMMA EndJobHolds ==
    ASSUME TypeOK, Holding, NEW w \in Workers,
           NEW outcome \in Terminal, NEW answer, NEW next \in {"idle", "crashed", "cancelled"},
           EndJob(w, outcome, answer, next)
    PROVE  Holding'
<1> USE DEF TypeOK, Holding, OneHolder, EndJob, stopVars, Terminal
<1>0. job[w] \in Tasks /\ status[job[w]] = "running"
  BY DEF BusyHolds, RunningIsHeld
<1>1. RunningIsHeld'
  <2> SUFFICES ASSUME NEW t \in Tasks
               PROVE  status'[t] = "running" <=> \E v \in Workers : job'[v] = t
    BY DEF RunningIsHeld
  <2>1. t # NoTask
    BY QueueAssumption
  <2>2. ASSUME NEW v \in Workers PROVE job'[v] = t <=> v # w /\ job[v] = t
    BY <2>1
  <2>3. CASE t = job[w]
    BY <1>0, <2>1, <2>2, <2>3 DEF HeldByOne
  <2>4. CASE t # job[w]
    <3>1. status'[t] = status[t]
      BY <2>4
    <3>2. status[t] = "running" <=> \E v \in Workers : job[v] = t
      BY DEF RunningIsHeld
    <3> QED BY <2>2, <2>4, <3>1, <3>2
  <2> QED BY <2>3, <2>4
<1>2. HeldByOne'
  BY DEF HeldByOne
<1>3. BusyHolds'
  BY DEF BusyHolds
<1>4. QueuedUnbegun'
  BY <1>0 DEF QueuedUnbegun
<1>5. BegunOnce'
  BY DEF BegunOnce
<1>6. Unstarted'
  BY DEF Unstarted
<1>7. WaitingIsNew'
  BY <1>0 DEF WaitingIsNew
<1> QED BY <1>1, <1>2, <1>3, <1>4, <1>5, <1>6, <1>7

\* Handing in a task touches no task that a worker holds.
LEMMA RegisterHolds ==
    ASSUME TypeOK, Holding, NEW t \in Tasks, Submittable(t), Register(t),
           queued' \in {queued, queued \cup {t}},
           UNCHANGED <<attempts, worker, job, started>>
    PROVE  Holding'
<1> USE DEF TypeOK, Holding, OneHolder, Register
<1>0. status[t] \in {"new", "pending"} /\ attempts[t] = 0
  BY DEF Submittable, Leaked, WaitingIsNew
<1>1. RunningIsHeld'
  BY <1>0 DEF RunningIsHeld
<1>2. QueuedUnbegun'
  BY <1>0 DEF QueuedUnbegun
<1>3. WaitingIsNew'
  BY <1>0 DEF WaitingIsNew
<1> QED BY <1>1, <1>2, <1>3 DEF HeldByOne, BusyHolds, BegunOnce, Unstarted

LEMMA HoldingStep == TypeOK /\ Holding /\ [Next]_vars => Holding'
<1> SUFFICES ASSUME TypeOK, Holding, [Next]_vars PROVE Holding'
  OBVIOUS
<1> USE DEF taskVars, poolVars, stopVars, waitVars
<1>a. ASSUME UNCHANGED <<status, attempts, queued, worker, job, started>>
      PROVE  Holding'
  BY <1>a DEF Holding, OneHolder, RunningIsHeld, HeldByOne, BusyHolds,
              QueuedUnbegun, BegunOnce, Unstarted, WaitingIsNew
<1>1. CASE Start
  <2>1. \A w \in Workers : job[w] = NoTask
    BY <1>1 DEF Start, Holding, OneHolder, Unstarted, BusyHolds
  <2> QED
    BY <1>1, <2>1 DEF Start, Holding, OneHolder, RunningIsHeld, HeldByOne,
              BusyHolds, QueuedUnbegun, BegunOnce, Unstarted, WaitingIsNew
<1>2. CASE Stop \/ StopPut \/ DrainTimeout \/ StopReturns \/ StopAborted
  BY <1>a, <1>2 DEF Stop, StopPut, DrainTimeout, StopReturns, StopAborted, PutSentinels
<1>3. ASSUME NEW t \in Tasks, Submit(t) \/ SubmitNowait(t) PROVE Holding'
  BY <1>3, RegisterHolds DEF Submit, SubmitNowait, Enqueue
<1>4. ASSUME NEW t \in Tasks, CancelTask(t) PROVE Holding'
  <2> USE <1>4 DEF CancelTask, Cancellable, Holding, OneHolder, TypeOK
  <2>1. RunningIsHeld'
    BY DEF RunningIsHeld
  <2>2. QueuedUnbegun'
    BY DEF QueuedUnbegun
  <2>3. WaitingIsNew'
    BY DEF WaitingIsNew
  <2> QED BY <2>1, <2>2, <2>3 DEF HeldByOne, BusyHolds, BegunOnce, Unstarted
<1>5. ASSUME NEW w \in Workers, NEW t \in Tasks, Begin(w, t) PROVE Holding'
  <2> USE <1>5 DEF Begin, AtGet, IsHead, Runnable, Holding, OneHolder, TypeOK
  <2>0. /\ status[t] = "pending" /\ attempts[t] = 0 /\ job[w] = NoTask
        /\ \A v \in Workers : job[v] # t
    BY DEF QueuedUnbegun, BusyHolds, RunningIsHeld
  <2>1. RunningIsHeld'
    BY <2>0, QueueAssumption DEF RunningIsHeld
  <2>2. HeldByOne'
    BY <2>0 DEF HeldByOne
  <2>3. BusyHolds'
    BY <2>0, QueueAssumption DEF BusyHolds
  <2>4. QueuedUnbegun'
    BY <2>0 DEF QueuedUnbegun
  <2>5. BegunOnce'
    BY <2>0 DEF BegunOnce
  <2>6. WaitingIsNew'
    BY <2>0 DEF WaitingIsNew
  <2>7. Unstarted'
    BY DEF Unstarted
  <2> QED BY <2>1, <2>2, <2>3, <2>4, <2>5, <2>6, <2>7
<1>6. ASSUME NEW w \in Workers, NEW t \in Tasks, SkipCancelled(w, t) PROVE Holding'
  BY <1>6 DEF SkipCancelled, Holding, OneHolder, RunningIsHeld, HeldByOne,
              BusyHolds, QueuedUnbegun, BegunOnce, Unstarted, WaitingIsNew
<1>7. ASSUME NEW w \in Workers, TakeSentinel(w) \/ InterruptIdle(w) PROVE Holding'
  <2> USE <1>7 DEF TakeSentinel, InterruptIdle, AtGet, Holding, OneHolder, TypeOK
  <2>1. BusyHolds'
    BY DEF BusyHolds
  <2>2. Unstarted'
    BY DEF Unstarted
  <2> QED BY <2>1, <2>2 DEF RunningIsHeld, HeldByOne, QueuedUnbegun, BegunOnce,
                            WaitingIsNew
<1>8. ASSUME NEW w \in Workers,
             Complete(w) \/ Fail(w) \/ TimeOut(w) \/ FnCancelled(w) \/ InterruptBusy(w)
      PROVE  Holding'
  BY <1>8, EndJobHolds DEF Complete, Fail, TimeOut, FnCancelled, FnEnds,
                           InterruptBusy, Terminal
<1>9. ASSUME NEW c \in Clients, NEW t \in Tasks, WaitFor(c, t) PROVE Holding'
  BY <1>a, <1>9 DEF WaitFor
<1>10. ASSUME NEW c \in Clients, WaitReturns(c) \/ GiveUp(c) \/ WaiterCancelled(c)
       PROVE  Holding'
  BY <1>a, <1>10 DEF WaitReturns, GiveUp, WaiterCancelled, LeaveWait
<1>11. CASE UNCHANGED vars
  BY <1>a, <1>11 DEF vars
<1> QED
  BY <1>1, <1>2, <1>3, <1>4, <1>5, <1>6, <1>7, <1>8, <1>9, <1>10, <1>11
     DEF Next, Take, Interrupt

LEMMA HoldingInit == Init => Holding
  BY QueueAssumption DEF Init, Holding, OneHolder, RunningIsHeld, HeldByOne,
     BusyHolds, QueuedUnbegun, BegunOnce, Unstarted, WaitingIsNew

\* A task is run by one worker at most, and once.
THEOREM OneHolderHolds == Spec => []OneHolder
<1>1. Holding => OneHolder
  BY DEF Holding
<1> QED BY <1>1, HoldingInit, HoldingStep, TypeCorrect, PTL DEF Spec

-----------------------------------------------------------------------------
(* What becomes of a future *)

LEMMA EndJobSettles ==
    ASSUME TypeOK, Holding, FutureMatchesStatus, NEW w \in Workers,
           NEW outcome, NEW answer, NEW next,
           <<outcome, answer>> \in {<<"completed", "result">>, <<"failed", "exception">>,
                                   <<"cancelled", "cancelled">>},
           EndJob(w, outcome, answer, next)
    PROVE  FutureMatchesStatus'
<1> USE DEF TypeOK, EndJob, Terminal, Settled
<1>0. job[w] \in Tasks /\ status[job[w]] = "running"
  BY DEF Holding, OneHolder, BusyHolds, RunningIsHeld
<1>1. \/ outcome = "completed" /\ answer = "result"
      \/ outcome = "failed" /\ answer = "exception"
      \/ outcome = "cancelled" /\ answer = "cancelled"
  OBVIOUS
<1>2. future[job[w]] \in {"pending", "cancelled"}
  BY <1>0 DEF FutureMatchesStatus
<1> QED BY <1>0, <1>1, <1>2 DEF FutureMatchesStatus, Settle

LEMMA FutureStep ==
    TypeOK /\ Holding /\ FutureMatchesStatus /\ [Next]_vars => FutureMatchesStatus'
<1> SUFFICES ASSUME TypeOK, Holding, FutureMatchesStatus, [Next]_vars
             PROVE  FutureMatchesStatus'
  OBVIOUS
<1> USE DEF taskVars, waitVars
<1>a. ASSUME UNCHANGED <<status, future>> PROVE FutureMatchesStatus'
  BY <1>a DEF FutureMatchesStatus
<1>1. CASE Start \/ Stop \/ StopPut \/ DrainTimeout \/ StopReturns \/ StopAborted
  BY <1>a, <1>1 DEF Start, Stop, StopPut, DrainTimeout, StopReturns, StopAborted
<1>2. ASSUME NEW t \in Tasks, Submit(t) \/ SubmitNowait(t) PROVE FutureMatchesStatus'
  BY <1>2 DEF Submit, SubmitNowait, Register, TypeOK, FutureMatchesStatus, Terminal, Settled
<1>3. ASSUME NEW t \in Tasks, CancelTask(t) PROVE FutureMatchesStatus'
  BY <1>3 DEF CancelTask, Cancellable, CancelFuture, Settle, TypeOK,
              FutureMatchesStatus, Terminal, Settled
<1>4. ASSUME NEW w \in Workers, NEW t \in Tasks, Begin(w, t) PROVE FutureMatchesStatus'
  <2>1. status[t] = "pending"
    BY <1>4 DEF Begin, IsHead, Runnable, Holding, OneHolder, QueuedUnbegun
  <2> QED BY <1>4, <2>1 DEF Begin, TypeOK, FutureMatchesStatus, Terminal, Settled
<1>5. ASSUME NEW w \in Workers,
             (\E t \in Tasks : SkipCancelled(w, t)) \/ TakeSentinel(w) \/ InterruptIdle(w)
      PROVE  FutureMatchesStatus'
  BY <1>a, <1>5 DEF SkipCancelled, TakeSentinel, InterruptIdle
<1>6. ASSUME NEW w \in Workers,
             Complete(w) \/ Fail(w) \/ TimeOut(w) \/ FnCancelled(w) \/ InterruptBusy(w)
      PROVE  FutureMatchesStatus'
  BY <1>6, EndJobSettles DEF Complete, Fail, TimeOut, FnCancelled, FnEnds, InterruptBusy
<1>7. ASSUME NEW c \in Clients, NEW t \in Tasks, WaitFor(c, t) PROVE FutureMatchesStatus'
  BY <1>a, <1>7 DEF WaitFor
<1>8. ASSUME NEW c \in Clients, WaitReturns(c) \/ GiveUp(c) PROVE FutureMatchesStatus'
  BY <1>a, <1>8 DEF WaitReturns, GiveUp, LeaveWait
<1>9. ASSUME NEW c \in Clients, WaiterCancelled(c) PROVE FutureMatchesStatus'
  BY <1>9 DEF WaiterCancelled, LeaveWait, CancelFuture, Settle, TypeOK,
              FutureMatchesStatus, Terminal, Settled
<1>10. CASE UNCHANGED vars
  BY <1>a, <1>10 DEF vars
<1> QED
  BY <1>1, <1>2, <1>3, <1>4, <1>5, <1>6, <1>7, <1>8, <1>9, <1>10 DEF Next, Take, Interrupt

\* The future of a task agrees with its status, cancelled waiters included.
THEOREM FutureMatchesStatusHolds == Spec => []FutureMatchesStatus
<1>1. Init => FutureMatchesStatus
  BY DEF Init, FutureMatchesStatus, Terminal
<1> QED BY <1>1, HoldingInit, HoldingStep, FutureStep, TypeCorrect, PTL DEF Spec

-----------------------------------------------------------------------------
(* The queue and its sentinels *)

\* Adding or removing one item moves the count by one at most.
LEMMA OneItem ==
    ASSUME TypeOK, NEW t \in Tasks
    PROVE  /\ Cardinality(queued) \in Nat
           /\ Cardinality(queued \ {t}) \in Nat
           /\ Cardinality(queued \cup {t}) \in Nat
           /\ Cardinality(queued \ {t}) <= Cardinality(queued)
           /\ Cardinality(queued \cup {t}) <= Cardinality(queued) + 1
<1>1. IsFiniteSet(queued)
  BY QueueAssumption, FS_Subset DEF TypeOK
<1>2. IsFiniteSet(queued \ {t}) /\ IsFiniteSet(queued \cup {t})
  BY <1>1, FS_RemoveElement, FS_AddElement
<1> QED BY <1>1, <1>2, FS_RemoveElement, FS_AddElement, FS_CardinalityType

Bounding == QueueBounded /\ ExitDrained

LEMMA BoundingStep == TypeOK /\ Bounding /\ [Next]_vars => Bounding'
<1> SUFFICES ASSUME TypeOK, Bounding, [Next]_vars PROVE Bounding'
  OBVIOUS
<1> USE DEF taskVars, poolVars, stopVars, waitVars, Bounding, QueueBounded, ExitDrained, Stopping
<1>0. Cardinality(queued) \in Nat
  BY QueueAssumption, FS_Subset, FS_CardinalityType DEF TypeOK
<1>a. ASSUME UNCHANGED <<queued, sentinels, worker, stop>> PROVE Bounding'
  BY <1>a
<1>1. CASE Start
  BY <1>1 DEF Start, TypeOK
<1>2. ASSUME NEW n \in Nat, PutSentinels(n), UNCHANGED <<queued, worker>> PROVE Bounding'
  <2>1. PICK k \in 0..n : /\ Cardinality(queued) + sentinels + k <= MaxSize
                          /\ sentinels' = sentinels + k
    BY <1>2 DEF PutSentinels, Used
  <2>2. QueueBounded'
    BY <1>0, <1>2, <2>1, QueueAssumption DEF TypeOK
  <2>3. stop' # "none"
    BY <1>2 DEF PutSentinels
  <2> QED BY <1>2, <2>2, <2>3
<1>3. CASE Stop \/ StopPut
  BY <1>2, <1>3, QueueAssumption, FS_CardinalityType DEF Stop, StopPut, TypeOK
<1>4. CASE DrainTimeout \/ StopReturns \/ StopAborted
  BY <1>4 DEF DrainTimeout, StopReturns, StopAborted
<1>5. ASSUME NEW t \in Tasks, Submit(t) \/ SubmitNowait(t) PROVE Bounding'
  <2>1. CASE UNCHANGED queued
    BY <1>5, <2>1 DEF Submit, SubmitNowait
  <2>2. CASE ~Full /\ queued' = queued \cup {t}
    BY <1>0, <1>5, <2>2, OneItem, QueueAssumption
       DEF Submit, SubmitNowait, Full, Used, TypeOK
  <2> QED BY <1>5, <2>1, <2>2 DEF Submit, SubmitNowait, Enqueue
<1>6. ASSUME NEW t \in Tasks, CancelTask(t) PROVE Bounding'
  BY <1>a, <1>6 DEF CancelTask
<1>7. ASSUME NEW w \in Workers, NEW t \in Tasks, Begin(w, t) \/ SkipCancelled(w, t)
      PROVE  Bounding'
  <2>0. sentinels \in Nat /\ sentinels' = sentinels /\ queued' = queued \ {t}
    BY <1>7 DEF Begin, SkipCancelled, TypeOK
  <2>1. QueueBounded'
    <3>1. Cardinality(queued \ {t}) \in Nat /\ Cardinality(queued \ {t}) <= Cardinality(queued)
      BY OneItem
    <3> QED BY <1>0, <2>0, <3>1, QueueAssumption
  <2>2. ExitDrained'
    BY <1>7 DEF Begin, SkipCancelled, TypeOK
  <2> QED BY <2>1, <2>2
<1>8. ASSUME NEW w \in Workers, TakeSentinel(w) PROVE Bounding'
  BY <1>0, <1>8, QueueAssumption DEF TakeSentinel, SentinelIsHead, TypeOK
<1>9. ASSUME NEW w \in Workers,
             Complete(w) \/ Fail(w) \/ TimeOut(w) \/ FnCancelled(w) \/ Interrupt(w)
      PROVE  Bounding'
  <2>1. /\ UNCHANGED <<queued, sentinels, stop>>
        /\ \A v \in Workers : worker'[v] = "exited" => worker[v] = "exited"
    BY <1>9 DEF Complete, Fail, TimeOut, FnCancelled, FnEnds, Interrupt,
                InterruptBusy, InterruptIdle, EndJob, TypeOK
  <2> QED BY <2>1
<1>10. ASSUME NEW c \in Clients, NEW t \in Tasks, WaitFor(c, t) PROVE Bounding'
  BY <1>a, <1>10 DEF WaitFor
<1>11. ASSUME NEW c \in Clients, WaitReturns(c) \/ GiveUp(c) \/ WaiterCancelled(c)
       PROVE  Bounding'
  BY <1>a, <1>11 DEF WaitReturns, GiveUp, WaiterCancelled, LeaveWait
<1>12. CASE UNCHANGED vars
  BY <1>a, <1>12 DEF vars
<1> QED
  BY <1>1, <1>3, <1>4, <1>5, <1>6, <1>7, <1>8, <1>9, <1>10, <1>11, <1>12 DEF Next, Take

LEMMA BoundingInit == Init => Bounding
  BY FS_EmptySet, QueueAssumption DEF Init, Bounding, QueueBounded, ExitDrained

\* Tasks, items of cancelled tasks and sentinels together never exceed the
\* capacity.
THEOREM QueueBoundedHolds == Spec => []QueueBounded
<1>1. Bounding => QueueBounded
  BY DEF Bounding
<1> QED BY <1>1, BoundingInit, BoundingStep, TypeCorrect, PTL DEF Spec

\* A worker that left on its sentinel left an empty queue, for good.
THEOREM ExitDrainedHolds == Spec => []ExitDrained
<1>1. Bounding => ExitDrained
  BY DEF Bounding
<1> QED BY <1>1, BoundingInit, BoundingStep, TypeCorrect, PTL DEF Spec

-----------------------------------------------------------------------------
(* Tasks that ended *)

\* No step changes the status of a task that ended.
Stays == \A t \in Tasks : status[t] \in Terminal => status'[t] = status[t]

LEMMA EndedStays == TypeOK /\ Holding /\ [Next]_vars => Stays
<1> SUFFICES ASSUME TypeOK, Holding, [Next]_vars PROVE Stays
  OBVIOUS
<1> USE DEF Stays
<1> USE DEF taskVars, waitVars, Terminal, TypeOK
<1>a. ASSUME UNCHANGED status PROVE Stays
  BY <1>a
<1>1. CASE Start \/ Stop \/ StopPut \/ DrainTimeout \/ StopReturns \/ StopAborted
  BY <1>a, <1>1 DEF Start, Stop, StopPut, DrainTimeout, StopReturns, StopAborted
<1>2. ASSUME NEW t \in Tasks, Submit(t) \/ SubmitNowait(t) \/ CancelTask(t) PROVE Stays
  BY <1>2 DEF Submit, SubmitNowait, Submittable, Leaked, Register, CancelTask, Cancellable
<1>3. ASSUME NEW w \in Workers, NEW t \in Tasks, Begin(w, t) PROVE Stays
  BY <1>3 DEF Begin, IsHead, Runnable, Holding, OneHolder, QueuedUnbegun
<1>4. ASSUME NEW w \in Workers,
             (\E t \in Tasks : SkipCancelled(w, t)) \/ TakeSentinel(w) \/ InterruptIdle(w)
      PROVE  Stays
  BY <1>a, <1>4 DEF SkipCancelled, TakeSentinel, InterruptIdle
<1>5. ASSUME NEW w \in Workers,
             Complete(w) \/ Fail(w) \/ TimeOut(w) \/ FnCancelled(w) \/ InterruptBusy(w)
      PROVE  Stays
  <2>1. /\ status[job[w]] = "running"
        /\ \E s : status' = [status EXCEPT ![job[w]] = s]
    BY <1>5 DEF Complete, Fail, TimeOut, FnCancelled, FnEnds, InterruptBusy,
                EndJob, Holding, OneHolder, BusyHolds, RunningIsHeld
  <2> QED BY <2>1
<1>6. ASSUME NEW c \in Clients,
             (\E t \in Tasks : WaitFor(c, t)) \/ WaitReturns(c) \/ GiveUp(c) \/ WaiterCancelled(c)
      PROVE  Stays
  BY <1>a, <1>6 DEF WaitFor, WaitReturns, GiveUp, WaiterCancelled, LeaveWait
<1>7. CASE UNCHANGED vars
  BY <1>a, <1>7 DEF vars
<1> QED BY <1>1, <1>2, <1>3, <1>4, <1>5, <1>6, <1>7 DEF Next, Take, Interrupt

\* A task that ended stays as it is.
THEOREM TerminalStableHolds == Spec => TerminalStable
<1>1. TypeOK /\ Holding /\ [Next]_vars => [Stays]_vars
  BY EndedStays
<1> QED
  BY <1>1, HoldingInit, HoldingStep, TypeCorrect, PTL DEF Spec, TerminalStable, Stays

\* stop() that lost no worker leaves nothing behind: what waits is in the
\* queue, which the last worker left empty, and what runs has a worker.
THEOREM CleanStopDrainsHolds == Spec => []CleanStopDrains
<1>1. TypeOK /\ Holding /\ Bounding => CleanStopDrains
  <2> SUFFICES ASSUME TypeOK, Holding, Bounding, \A w \in Workers : worker[w] = "exited",
                      NEW t \in Tasks
               PROVE  status[t] \in {"new"} \cup Terminal \/ Leaked(t)
    BY DEF CleanStopDrains
  <2>1. queued = {}
    BY QueueAssumption DEF Bounding, ExitDrained
  <2>2. \A w \in Workers : job[w] = NoTask
    BY DEF Holding, OneHolder, BusyHolds
  <2>3. status[t] # "running"
    BY <2>2, QueueAssumption DEF Holding, OneHolder, RunningIsHeld
  <2> QED BY <2>1, <2>3 DEF TypeOK, Leaked, Terminal
<1> QED BY <1>1, HoldingInit, HoldingStep, BoundingInit, BoundingStep, TypeCorrect, PTL DEF Spec

-----------------------------------------------------------------------------
(* What clients are told *)

\* One step of a client's wait, and of a future.
WaitMoves(c) ==
    \/ wait'[c] = wait[c] /\ waitOn'[c] = waitOn[c]
    \/ wait[c] = "none" /\ wait'[c] \in {"direct", "shielded"} /\ waitOn'[c] \in Tasks
    \/ /\ wait[c] \in {"direct", "shielded", "orphaned"} /\ waitOn'[c] = waitOn[c]
       /\ \/ wait'[c] \in {"orphaned", "gaveUp", "interrupted"}
          \/ wait'[c] = future[waitOn[c]] /\ wait'[c] \in Settled

FutureMoves(t) ==
    \/ future'[t] = future[t]
    \/ future'[t] \in {"pending", "result", "exception"}
    \/ status'[t] = "cancelled"
    \/ \E c \in Clients : waitOn'[c] = t /\ wait'[c] = "interrupted"

Telling == ClientsTold /\ \A c \in Clients : wait[c] # "none" => waitOn[c] \in Tasks

LEMMA ClientsMove ==
    ASSUME TypeOK, Holding, Telling, [Next]_vars
    PROVE  (\A c \in Clients : WaitMoves(c)) /\ (\A t \in Tasks : FutureMoves(t))
<1> USE DEF TypeOK, Settled, taskVars, waitVars, WaitMoves, FutureMoves
<1> DEFINE Moves == (\A c \in Clients : WaitMoves(c)) /\ (\A t \in Tasks : FutureMoves(t))
<1>a. ASSUME UNCHANGED <<future, wait, waitOn>> PROVE Moves
  BY <1>a
<1>1. CASE Start \/ Stop \/ StopPut \/ DrainTimeout \/ StopReturns \/ StopAborted
  BY <1>a, <1>1 DEF Start, Stop, StopPut, DrainTimeout, StopReturns, StopAborted
<1>2. ASSUME NEW t \in Tasks, Submit(t) \/ SubmitNowait(t) PROVE Moves
  BY <1>2 DEF Submit, SubmitNowait, Register
<1>3. ASSUME NEW t \in Tasks, CancelTask(t) PROVE Moves
  BY <1>3 DEF CancelTask, CancelFuture, Settle
<1>4. ASSUME NEW w \in Workers,
             (\E t \in Tasks : Begin(w, t) \/ SkipCancelled(w, t)) \/ TakeSentinel(w) \/ InterruptIdle(w)
      PROVE  Moves
  BY <1>a, <1>4 DEF Begin, SkipCancelled, TakeSentinel, InterruptIdle
<1>5. ASSUME NEW w \in Workers,
             Complete(w) \/ Fail(w) \/ TimeOut(w) \/ FnCancelled(w) \/ InterruptBusy(w)
      PROVE  Moves
  <2>1. PICK outcome, answer, next :
             /\ EndJob(w, outcome, answer, next)
             /\ answer \in {"result", "exception"} \/ outcome = "cancelled"
    BY <1>5 DEF Complete, Fail, TimeOut, FnCancelled, FnEnds, InterruptBusy
  <2> QED BY <2>1 DEF EndJob, Settle
<1>6. ASSUME NEW c \in Clients, NEW t \in Tasks, WaitFor(c, t) PROVE Moves
  BY <1>6 DEF WaitFor
<1>7. ASSUME NEW c \in Clients, WaitReturns(c) \/ GiveUp(c) PROVE Moves
  BY <1>7 DEF WaitReturns, GiveUp, LeaveWait
<1>8. ASSUME NEW c \in Clients, WaiterCancelled(c) PROVE Moves
  <2>1. waitOn[c] \in Tasks
    BY <1>8 DEF WaiterCancelled, Telling
  <2> QED BY <1>8, <2>1 DEF WaiterCancelled, LeaveWait, CancelFuture, Settle
<1>9. CASE UNCHANGED vars
  BY <1>a, <1>9 DEF vars
<1> QED
  BY <1>1, <1>2, <1>3, <1>4, <1>5, <1>6, <1>7, <1>8, <1>9 DEF Next, Take, Interrupt

LEMMA TellingStep ==
    TypeOK /\ Holding /\ FutureMatchesStatus /\ Telling /\ [Next]_vars => Telling'
<1> SUFFICES ASSUME TypeOK, Holding, FutureMatchesStatus, Telling, [Next]_vars PROVE Telling'
  OBVIOUS
<1>1. /\ \A c \in Clients : WaitMoves(c)
      /\ \A t \in Tasks : FutureMoves(t)
      /\ Stays
  BY ClientsMove, EndedStays
<1>2. ASSUME NEW c \in Clients, wait'[c] # "none" PROVE waitOn'[c] \in Tasks
  BY <1>1, <1>2 DEF WaitMoves, Telling
<1>3. ASSUME NEW c \in Clients
      PROVE  /\ wait'[c] = "result" => status'[waitOn'[c]] = "completed"
             /\ wait'[c] = "exception" => status'[waitOn'[c]] = "failed"
  BY <1>1 DEF WaitMoves, Telling, ClientsTold, Stays, Terminal, FutureMatchesStatus
<1>4. ASSUME NEW t \in Tasks, future'[t] = "cancelled", status'[t] # "cancelled"
      PROVE  \E c \in Clients : waitOn'[c] = t /\ wait'[c] = "interrupted"
  <2>1. CASE future'[t] = future[t]
    <3>1. status[t] # "cancelled"
      BY <1>1, <1>4 DEF Stays, Terminal
    <3>2. PICK c \in Clients : waitOn[c] = t /\ wait[c] = "interrupted"
      BY <1>4, <2>1, <3>1 DEF Telling, ClientsTold
    <3> QED BY <1>1, <3>2 DEF WaitMoves
  <2>2. CASE future'[t] # future[t]
    BY <1>1, <1>4, <2>2 DEF FutureMoves
  <2> QED BY <2>1, <2>2
<1> QED BY <1>2, <1>3, <1>4 DEF Telling, ClientsTold

\* Clients are told of their task as it ended, and only a client that awaits
\* without a timeout can cancel the future of a task that was not.
THEOREM ClientsToldHolds == Spec => []ClientsTold
<1>1. Init => Telling
  BY DEF Init, Telling, ClientsTold
<1>2. Init => FutureMatchesStatus
  BY DEF Init, FutureMatchesStatus, Terminal
<1>3. Telling => ClientsTold
  BY DEF Telling
<1> QED
  BY <1>1, <1>2, <1>3, HoldingInit, HoldingStep, FutureStep, TellingStep, TypeCorrect, PTL DEF Spec

-----------------------------------------------------------------------------
(* The counters *)

\* Tasks that reached the queue or a worker, and those that may have.
Reached   == queued \cup {t \in Tasks : attempts[t] > 0}
Submitted == {t \in Tasks : status[t] # "new" /\ ~Leaked(t)}

LEMMA TaskSets ==
    ASSUME NEW S \in SUBSET Tasks
    PROVE  IsFiniteSet(S) /\ Cardinality(S) \in Nat
  BY QueueAssumption, FS_Subset, FS_CardinalityType

\* Only ends are counted.
LEMMA NoneEnds ==
    ASSUME NEW t \in Tasks, status[t] \notin Terminal, status'[t] \notin Terminal,
           \A u \in Tasks \ {t} : status'[u] = status[u]
    PROVE  \A x \in Terminal : With(x)' = With(x)
<1> SUFFICES ASSUME NEW x \in Terminal PROVE With(x)' = With(x)
  OBVIOUS
<1>1. {u \in Tasks : status'[u] = x} = {u \in Tasks : status[u] = x}
  OBVIOUS
<1> QED BY <1>1 DEF With

\* A task that moves to status s is one more there.
LEMMA OneMoves ==
    ASSUME TypeOK, NEW t \in Tasks, status[t] \notin Terminal,
           NEW s, status' = [status EXCEPT ![t] = s], NEW x \in Terminal
    PROVE  With(x)' = IF x = s THEN With(x) + 1 ELSE With(x)
<1> DEFINE S == {u \in Tasks : status[u] = x}
<1>1. IsFiniteSet(S) /\ t \notin S
  BY TaskSets
<1>2. CASE x = s
  <2>1. {u \in Tasks : status'[u] = x} = S \cup {t}
    BY <1>2 DEF TypeOK
  <2>2. Cardinality(S \cup {t}) = Cardinality(S) + 1
    BY <1>1, FS_AddElement
  <2> QED BY <1>2, <2>1, <2>2 DEF With
<1>3. CASE x # s
  <2>1. {u \in Tasks : status'[u] = x} = S
    BY <1>3 DEF TypeOK
  <2> QED BY <1>3, <2>1 DEF With
<1> QED BY <1>2, <1>3

\* The bounds on `submitted` when nothing is submitted.
LEMMA BoundsStay ==
    ASSUME TypeOK, TypeOK', CountersMatch, stats'.submitted = stats.submitted,
           Reached' \subseteq Reached, Submitted \subseteq Submitted'
    PROVE  Cardinality(Reached)' <= stats'.submitted /\ stats'.submitted <= Cardinality(Submitted)'
<1>0. /\ Reached \subseteq Tasks /\ Reached' \subseteq Tasks
      /\ Submitted \subseteq Tasks /\ Submitted' \subseteq Tasks
  BY DEF TypeOK, Reached, Submitted
<1>1. /\ Cardinality(Reached') <= Cardinality(Reached)
      /\ Cardinality(Submitted) <= Cardinality(Submitted')
  BY <1>0, TaskSets, FS_Subset
<1>2. /\ Cardinality(Reached) \in Nat /\ Cardinality(Reached') \in Nat
      /\ Cardinality(Submitted) \in Nat /\ Cardinality(Submitted') \in Nat
  BY <1>0, TaskSets
<1>3. Cardinality(Reached) <= stats.submitted /\ stats.submitted <= Cardinality(Submitted)
      /\ stats.submitted \in Nat
  BY DEF CountersMatch, Reached, Submitted, TypeOK
<1> QED BY <1>1, <1>2, <1>3

\* A submission that is accepted counts once on either side.
LEMMA SubmitCounts ==
    ASSUME TypeOK, TypeOK', Holding, CountersMatch, NEW t \in Tasks, Submittable(t),
           Register(t), Enqueue(t), UNCHANGED attempts
    PROVE  CountersMatch'
<1>0. /\ status' = [status EXCEPT ![t] = "pending"] /\ queued' = queued \cup {t}
      /\ status[t] \in {"new", "pending"} /\ t \notin Submitted
      /\ stats' = [stats EXCEPT !.submitted = @ + 1]
  BY DEF Register, Enqueue, Submittable, Leaked, Submitted
<1>1. \A x \in Terminal : With(x)' = With(x)
  <2>1. status[t] \notin Terminal /\ status'[t] \notin Terminal
    BY <1>0 DEF TypeOK, Terminal
  <2> QED BY <1>0, <2>1, NoneEnds DEF TypeOK
<1>2. /\ stats'.completed = stats.completed /\ stats'.failed = stats.failed
      /\ stats'.cancelled = stats.cancelled /\ stats'.submitted = stats.submitted + 1
      /\ stats.submitted \in Nat
  BY <1>0 DEF TypeOK
<1>3. Reached' = Reached \cup {t}
  BY <1>0 DEF Reached
<1>4. Submitted' = Submitted \cup {t}
  BY <1>0 DEF Submitted, Leaked, TypeOK
<1>5. Reached \subseteq Tasks /\ Submitted \subseteq Tasks
  BY DEF TypeOK, Reached, Submitted
<1>6. /\ Cardinality(Reached) \in Nat /\ Cardinality(Submitted) \in Nat
      /\ Cardinality(Reached') \in Nat /\ Cardinality(Reached') <= Cardinality(Reached) + 1
      /\ Cardinality(Submitted') = Cardinality(Submitted) + 1
  <2> DEFINE R == Reached
             S == Submitted
  <2>1. IsFiniteSet(R) /\ IsFiniteSet(S) /\ Cardinality(R) \in Nat /\ Cardinality(S) \in Nat
    BY <1>5, TaskSets
  <2>2. t \notin S
    BY <1>0
  <2> HIDE DEF R, S
  <2>3. Cardinality(S \cup {t}) = Cardinality(S) + 1
    BY <2>1, <2>2, FS_AddElement
  <2>4. Cardinality(R \cup {t}) \in Nat /\ Cardinality(R \cup {t}) <= Cardinality(R) + 1
    <3>1. CASE t \in R
      <4>1. R \cup {t} = R
        BY <3>1
      <4>2. Cardinality(R \cup {t}) = Cardinality(R)
        BY <4>1
      <4> QED BY <2>1, <4>2
    <3>2. CASE t \notin R
      <4>1. Cardinality(R \cup {t}) = Cardinality(R) + 1
        BY <2>1, <3>2, FS_AddElement
      <4> QED BY <2>1, <4>1
    <3> QED BY <3>1, <3>2
  <2> QED BY <1>3, <1>4, <2>1, <2>3, <2>4 DEF R, S
<1>7. Cardinality(Reached)' <= stats'.submitted /\ stats'.submitted <= Cardinality(Submitted)'
  BY <1>2, <1>6 DEF CountersMatch, Reached, Submitted
<1> QED BY <1>1, <1>2, <1>7 DEF CountersMatch, Reached, Submitted, Terminal

\* A task that ends, by its worker or by cancel_task, counts once.
LEMMA EndCounts ==
    ASSUME TypeOK, TypeOK', CountersMatch, NEW t \in Tasks, NEW s \in Terminal,
           status[t] \in {"pending", "running"},
           status' = [status EXCEPT ![t] = s], stats' = [stats EXCEPT ![s] = @ + 1],
           UNCHANGED <<attempts, queued>>
    PROVE  CountersMatch'
<1>1. \A x \in Terminal : With(x)' = IF x = s THEN With(x) + 1 ELSE With(x)
  BY OneMoves DEF Terminal
<1>2. stats'.submitted = stats.submitted
  BY DEF TypeOK, Terminal
<1>3. /\ stats'.completed = IF s = "completed" THEN stats.completed + 1 ELSE stats.completed
      /\ stats'.failed = IF s = "failed" THEN stats.failed + 1 ELSE stats.failed
      /\ stats'.cancelled = IF s = "cancelled" THEN stats.cancelled + 1 ELSE stats.cancelled
  BY DEF TypeOK, Terminal
<1>4. Reached' = Reached /\ Submitted \subseteq Submitted'
  BY DEF Reached, Submitted, Leaked, TypeOK, Terminal
<1>5. Cardinality(Reached)' <= stats'.submitted /\ stats'.submitted <= Cardinality(Submitted)'
  BY <1>2, <1>4, BoundsStay
<1>6. /\ stats'.completed = With("completed")' /\ stats'.failed = With("failed")'
      /\ stats'.cancelled = With("cancelled")'
  BY <1>1, <1>3 DEF CountersMatch, Terminal
<1> QED BY <1>5, <1>6 DEF CountersMatch, Reached, Submitted

LEMMA CountersStep ==
    TypeOK /\ Holding /\ CountersMatch /\ [Next]_vars => CountersMatch'
<1> SUFFICES ASSUME TypeOK, Holding, CountersMatch, [Next]_vars PROVE CountersMatch'
  OBVIOUS
<1>0. TypeOK'
  BY Typing
<1> USE DEF taskVars, waitVars
\* Nothing is counted, and no task enters or leaves an end.
<1>a. ASSUME UNCHANGED stats, Reached' \subseteq Reached, Submitted \subseteq Submitted',
             \A x \in Terminal : With(x)' = With(x)
      PROVE  CountersMatch'
  BY <1>0, <1>a, BoundsStay DEF CountersMatch, Reached, Submitted, Terminal
<1>b. ASSUME UNCHANGED <<status, attempts, queued, stats>> PROVE CountersMatch'
  BY <1>b DEF CountersMatch, With, Leaked
<1>1. CASE Start \/ Stop \/ StopPut \/ DrainTimeout \/ StopReturns \/ StopAborted
  BY <1>b, <1>1 DEF Start, Stop, StopPut, DrainTimeout, StopReturns, StopAborted
<1>2. ASSUME NEW t \in Tasks, Submit(t) \/ (SubmitNowait(t) /\ Enqueue(t)) PROVE CountersMatch'
  BY <1>0, <1>2, SubmitCounts DEF Submit, SubmitNowait
<1>3. ASSUME NEW t \in Tasks, SubmitNowait(t), UNCHANGED <<queued, stats>> PROVE CountersMatch'
  <2>1. /\ status[t] \in {"new", "pending"} /\ t \notin queued
        /\ status' = [status EXCEPT ![t] = "pending"] /\ attempts' = attempts
    BY <1>3 DEF SubmitNowait, Register, Submittable, Leaked, Holding, OneHolder, QueuedUnbegun
  <2>2. \A x \in Terminal : With(x)' = With(x)
    <3>1. status[t] \notin Terminal /\ status'[t] \notin Terminal
      BY <2>1 DEF TypeOK, Terminal
    <3> QED BY <2>1, <3>1, NoneEnds DEF TypeOK
  <2>3. Reached' = Reached /\ Submitted' = Submitted
    BY <1>3, <2>1 DEF Reached, Submitted, Leaked, TypeOK
  <2> QED BY <1>3, <1>a, <2>2, <2>3
<1>4. ASSUME NEW t \in Tasks, CancelTask(t) PROVE CountersMatch'
  BY <1>0, <1>4, EndCounts DEF CancelTask, Cancellable, Terminal
<1>5. ASSUME NEW w \in Workers, NEW t \in Tasks, Begin(w, t) PROVE CountersMatch'
  <2>1. /\ status[t] = "pending" /\ t \in queued
        /\ status' = [status EXCEPT ![t] = "running"] /\ queued' = queued \ {t}
        /\ attempts' = [attempts EXCEPT ![t] = @ + 1] /\ stats' = stats
    BY <1>5 DEF Begin, IsHead, Runnable, Holding, OneHolder, QueuedUnbegun
  <2>2. \A x \in Terminal : With(x)' = With(x)
    <3>1. status[t] \notin Terminal /\ status'[t] \notin Terminal
      BY <2>1 DEF TypeOK, Terminal
    <3> QED BY <2>1, <3>1, NoneEnds DEF TypeOK
  <2>3. Reached' \subseteq Reached /\ Submitted \subseteq Submitted'
    BY <2>1 DEF Reached, Submitted, Leaked, TypeOK
  <2> QED BY <1>a, <2>1, <2>2, <2>3
<1>6. ASSUME NEW w \in Workers, NEW t \in Tasks, SkipCancelled(w, t) PROVE CountersMatch'
  <2>1. status[t] = "cancelled" /\ queued' = queued \ {t} /\ UNCHANGED <<status, attempts, stats>>
    BY <1>6 DEF SkipCancelled, Runnable
  <2>2. Reached' \subseteq Reached /\ Submitted \subseteq Submitted'
    BY <2>1 DEF Reached, Submitted, Leaked
  <2> QED BY <1>a, <2>1, <2>2 DEF With
<1>7. ASSUME NEW w \in Workers, TakeSentinel(w) \/ InterruptIdle(w) PROVE CountersMatch'
  BY <1>b, <1>7 DEF TakeSentinel, InterruptIdle
<1>8. ASSUME NEW w \in Workers,
             Complete(w) \/ Fail(w) \/ TimeOut(w) \/ FnCancelled(w) \/ InterruptBusy(w)
      PROVE  CountersMatch'
  <2>1. PICK outcome, answer, next : outcome \in Terminal /\ EndJob(w, outcome, answer, next)
    BY <1>8 DEF Complete, Fail, TimeOut, FnCancelled, FnEnds, InterruptBusy, Terminal
  <2>2. job[w] \in Tasks /\ status[job[w]] = "running"
    BY <2>1 DEF EndJob, Holding, OneHolder, BusyHolds, RunningIsHeld, TypeOK
  <2>3. /\ status' = [status EXCEPT ![job[w]] = outcome] /\ stats' = [stats EXCEPT ![outcome] = @ + 1]
        /\ UNCHANGED <<attempts, queued>>
    BY <2>1 DEF EndJob
  <2> QED BY <1>0, <2>1, <2>2, <2>3, EndCounts
<1>9. ASSUME NEW c \in Clients,
             (\E t \in Tasks : WaitFor(c, t)) \/ WaitReturns(c) \/ GiveUp(c) \/ WaiterCancelled(c)
      PROVE  CountersMatch'
  BY <1>b, <1>9 DEF WaitFor, WaitReturns, GiveUp, WaiterCancelled, LeaveWait
<1>10. CASE UNCHANGED vars
  BY <1>b, <1>10 DEF vars
<1> QED
  BY <1>1, <1>2, <1>3, <1>4, <1>5, <1>6, <1>7, <1>8, <1>9, <1>10
     DEF Next, Take, Interrupt, SubmitNowait

\* Each outcome is counted once, and submitted counts what reached the queue.
THEOREM CountersMatchHolds == Spec => []CountersMatch
<1>1. Init => CountersMatch
  <2> SUFFICES ASSUME Init PROVE CountersMatch
    OBVIOUS
  <2>1. /\ {t \in Tasks : status[t] = "completed"} = {}
        /\ {t \in Tasks : status[t] = "failed"} = {}
        /\ {t \in Tasks : status[t] = "cancelled"} = {}
        /\ queued \cup {t \in Tasks : attempts[t] > 0} = {}
        /\ {t \in Tasks : status[t] # "new" /\ ~Leaked(t)} = {}
    BY DEF Init
  <2>2. Cardinality({}) = 0
    BY FS_EmptySet
  <2>3. With("completed") = 0 /\ With("failed") = 0 /\ With("cancelled") = 0
    BY <2>1, <2>2 DEF With
  <2>4. /\ Cardinality(queued \cup {t \in Tasks : attempts[t] > 0}) = 0
        /\ Cardinality({t \in Tasks : status[t] # "new" /\ ~Leaked(t)}) = 0
    BY <2>1, <2>2
  <2>5. /\ stats.submitted = 0 /\ stats.completed = 0
        /\ stats.failed = 0 /\ stats.cancelled = 0
    BY DEF Init
  <2> QED BY <2>3, <2>4, <2>5 DEF CountersMatch
<1> QED BY <1>1, HoldingInit, HoldingStep, CountersStep, TypeCorrect, PTL DEF Spec

-----------------------------------------------------------------------------
(* The queue implements the task lifecycle *)

\* The instance counts with its own copy of Cardinality.
LEMMA SameCount == \A S : Lifecycle!Cardinality(S) = Cardinality(S)
  BY DEF Lifecycle!Cardinality, Cardinality

\* While a worker holds no task, fewer tasks run than there are workers: the
\* running tasks map one-to-one into the others.
LEMMA RoomForOne ==
    ASSUME TypeOK, Holding, NEW w \in Workers, job[w] = NoTask
    PROVE  Cardinality(Lifecycle!Running) < Cardinality(Workers)
<1> DEFINE Run    == Lifecycle!Running
           Others == Workers \ {w}
           f      == [t \in Run |-> CHOOSE v \in Others : job[v] = t]
<1>1. \A t \in Run : \E v \in Others : job[v] = t
  BY QueueAssumption DEF Lifecycle!Running, Holding, OneHolder, RunningIsHeld
<1>2. \A t \in Run : f[t] \in Others /\ job[f[t]] = t
  BY <1>1
<1>3. f \in Injection(Run, Others)
  BY <1>2 DEF Injection, IsInjective
<1>4. IsFiniteSet(Others) /\ Cardinality(Others) = Cardinality(Workers) - 1
      /\ Cardinality(Workers) \in Nat
  BY QueueAssumption, FS_RemoveElement, FS_CardinalityType
<1> HIDE DEF f, Run, Others
<1>5. Cardinality(Run) <= Cardinality(Others) /\ IsFiniteSet(Run)
  BY <1>3, <1>4, FS_Injection
<1>6. Cardinality(Run) \in Nat
  BY <1>5, FS_CardinalityType
<1> QED BY <1>4, <1>5, <1>6 DEF Run

LEMMA LifecycleStep ==
    TypeOK /\ Holding /\ [Next]_vars => [Lifecycle!Next]_<<status, ~Stopping>>
<1> SUFFICES ASSUME TypeOK, Holding, Next
             PROVE  Lifecycle!Next \/ UNCHANGED <<status, ~Stopping>>
  BY DEF vars, taskVars, stopVars, Stopping
<1> USE DEF taskVars, stopVars, waitVars, Stopping
<1> DEFINE Goal == Lifecycle!Next \/ UNCHANGED <<status, ~Stopping>>
<1>a. ASSUME UNCHANGED <<status, stop>> PROVE Goal
  BY <1>a
<1>1. CASE Start
  BY <1>a, <1>1 DEF Start
<1>2. CASE Stop
  <2>1. Lifecycle!Close
    BY <1>2 DEF Stop, PutSentinels, Lifecycle!Close
  <2> QED BY <2>1 DEF Lifecycle!Next
<1>3. CASE StopPut \/ DrainTimeout \/ StopReturns \/ StopAborted
  BY <1>3 DEF StopPut, PutSentinels, DrainTimeout, StopReturns, StopAborted
<1>4. ASSUME NEW t \in Tasks, Submit(t) \/ SubmitNowait(t) PROVE Goal
  <2>1. ~Stopping /\ UNCHANGED stop /\ status' = [status EXCEPT ![t] = "pending"]
        /\ status[t] \in {"new", "pending"}
    BY <1>4 DEF Submit, SubmitNowait, Submittable, Leaked, Register
  <2>2. CASE status[t] = "new"
    BY <2>1, <2>2 DEF Lifecycle!Accept, Lifecycle!Move, Lifecycle!Next
  <2>3. CASE status[t] = "pending"
    BY <2>1, <2>3 DEF TypeOK
  <2> QED BY <2>1, <2>2, <2>3
<1>5. ASSUME NEW t \in Tasks, CancelTask(t) PROVE Goal
  <2>1. Lifecycle!Cancel(t)
    BY <1>5 DEF CancelTask, Cancellable, Lifecycle!Cancel, Lifecycle!Move
  <2> QED BY <2>1 DEF Lifecycle!Next
<1>6. ASSUME NEW w \in Workers, NEW t \in Tasks, Begin(w, t) PROVE Goal
  <2>1. status[t] = "pending" /\ job[w] = NoTask
    BY <1>6 DEF Begin, AtGet, IsHead, Runnable, Holding, OneHolder, QueuedUnbegun, BusyHolds
  <2>2. Cardinality(Lifecycle!Running) < Cardinality(Workers)
    BY <2>1, RoomForOne
  <2>3. Lifecycle!Move(t, {"pending"}, {"running"})
    BY <1>6, <2>1 DEF Begin, Lifecycle!Move
  <2> QED BY <2>2, <2>3, SameCount DEF Lifecycle!Begin, Lifecycle!Next
<1>7. ASSUME NEW w \in Workers,
             (\E t \in Tasks : SkipCancelled(w, t)) \/ TakeSentinel(w) \/ InterruptIdle(w)
      PROVE  Goal
  BY <1>a, <1>7 DEF SkipCancelled, TakeSentinel, InterruptIdle
<1>8. ASSUME NEW w \in Workers,
             Complete(w) \/ Fail(w) \/ TimeOut(w) \/ FnCancelled(w) \/ InterruptBusy(w)
      PROVE  Goal
  <2>1. /\ UNCHANGED stop
        /\ \E s \in Terminal : status' = [status EXCEPT ![job[w]] = s]
        /\ worker[w] = "busy"
    BY <1>8 DEF Complete, Fail, TimeOut, FnCancelled, FnEnds, InterruptBusy, EndJob, Terminal
  <2>2. job[w] \in Tasks /\ status[job[w]] = "running"
    BY <2>1 DEF TypeOK, Holding, OneHolder, BusyHolds, RunningIsHeld
  <2>3. Lifecycle!Finish(job[w])
    BY <2>1, <2>2 DEF Lifecycle!Finish, Lifecycle!Move, Terminal
  <2> QED BY <2>2, <2>3 DEF Lifecycle!Next
<1>9. ASSUME NEW c \in Clients,
             (\E t \in Tasks : WaitFor(c, t)) \/ WaitReturns(c) \/ GiveUp(c) \/ WaiterCancelled(c)
      PROVE  Goal
  BY <1>a, <1>9 DEF WaitFor, WaitReturns, GiveUp, WaiterCancelled, LeaveWait
<1> QED
  BY <1>1, <1>2, <1>3, <1>4, <1>5, <1>6, <1>7, <1>8, <1>9 DEF Next, Take, Interrupt

\* Seen through its statuses and its _stopping flag alone, the queue is the
\* abstract lifecycle: no task is started twice, leaves its outcome, or runs
\* beside as many others as there are workers.
THEOREM Implementation == Spec => ImplementsLifecycle
<1>1. Init => Lifecycle!Init
  BY DEF Init, Lifecycle!Init, Stopping
<1> QED
  BY <1>1, HoldingInit, HoldingStep, LifecycleStep, TypeCorrect, PTL
     DEF Spec, ImplementsLifecycle, Lifecycle!Spec
=============================================================================
