--------------------------- MODULE ConcurrencyManager ---------------------------
(***************************************************************************)
(* The concurrency manager of core/concurrency_manager.py over an          *)
(* asyncio.Semaphore (as of Python 3.12).  Its own lock is never contended,*)
(* so spawn, cancel_task, cancel_all and stop are one step each.           *)
(***************************************************************************)
EXTENDS Naturals, SequencesExt

CONSTANTS
    Tracked,    \* tasks of spawn()
    Bounded,    \* callers of run_bounded(), which nobody tracks
    Drains,     \* calls of drain()
    MaxConcurrent  \* max_concurrent

ASSUME ManagerAssumption ==
    /\ IsFiniteSet(Tracked) /\ IsFiniteSet(Bounded) /\ Tracked \cap Bounded = {}
    /\ MaxConcurrent \in Nat \ {0}

Jobs == Tracked \cup Bounded

VARIABLES
    started, stopped,   \* _started, _stopped
    job,        \* where each task or caller stands
    asked,      \* those, not ended yet, whose task.cancel() was called
    token,      \* those whose CancellationToken is cancelled
    value,      \* Semaphore._value
    waiters,    \* Semaphore._waiters
    drain,      \* where each drain() stands
    pending     \* the tasks it waits for

flags == <<started, stopped>>
semaphore == <<value, waiters>>
drains == <<drain, pending>>
vars == <<flags, job, asked, token, semaphore, drains>>

\* A result and an exception differ for the caller only.
Ended == {"finished", "cancelled"}
\* A waiting job is granted a slot, or cancelled, before it runs again itself.
InLine == {"waiting", "granted", "withdrawn"}

TypeOK ==
    /\ started \in BOOLEAN /\ stopped \in BOOLEAN
    /\ job \in [Jobs -> {"none", "new", "running"} \cup InLine \cup Ended]
    /\ asked \subseteq Jobs /\ token \subseteq Tracked
    /\ value \in 0..MaxConcurrent
    /\ waiters \in Seq(Jobs)
    /\ \A j \in Jobs : j \in ToSet(waiters) <=> job[j] \in InLine
    /\ drain \in [Drains -> {"none", "waiting", "giving up", "returned", "raised"}]
    /\ pending \in [Drains -> SUBSET Tracked]

Init ==
    /\ started = FALSE /\ stopped = FALSE
    /\ job = [j \in Jobs |-> "none"]
    /\ asked = {} /\ token = {}
    /\ value = 0 /\ waiters = <<>>
    /\ drain = [d \in Drains |-> "none"]
    /\ pending = [d \in Drains |-> {}]

Start ==
    /\ ~started /\ started' = TRUE
    /\ value' = MaxConcurrent
    /\ UNCHANGED <<stopped, job, asked, token, waiters, drains>>

\* A CancelledError that was delivered is no longer pending, and of a task
\* that has ended nobody asks whether it was told to end.
Forget(S) == asked' = asked \ S /\ token' = token \ S

-----------------------------------------------------------------------------
(* The semaphore *)

\* A job j that waits no longer than for others that are cancelled gets a slot.
Acquire(j) ==
    IF value > 0 /\ \A i \in DOMAIN waiters : job[waiters[i]] = "withdrawn"
    THEN /\ value' = value - 1
         /\ job' = [job EXCEPT ![j] = "running"]
         /\ UNCHANGED waiters
    ELSE /\ waiters' = Append(waiters, j)
         /\ job' = [job EXCEPT ![j] = "waiting"]
         /\ UNCHANGED value

\* Of v free slots, up to `most` go to those who wait first in line q; `jobs`
\* says where the jobs stand otherwise.
HandOut(v, most, q, jobs) ==
    LET Line == {i \in DOMAIN q : jobs[q[i]] = "waiting"} IN
    \E First \in SUBSET Line :
        /\ Cardinality(First) = Min({v, most, Cardinality(Line)})
        /\ \A i \in First, k \in Line \ First : i < k
        /\ value' = v - Cardinality(First)
        /\ job' = [j \in Jobs |-> IF \E i \in First : q[i] = j THEN "granted" ELSE jobs[j]]

\* Variant: a slot goes back without waking anybody.
ReleaseQuietly(jobs) == value' = value + 1 /\ job' = jobs
Release(jobs) == HandOut(value + 1, 1, waiters, jobs)

\* Variant: a job that is cancelled after it was granted keeps the slot.
ReturnedNone(j) == 0
\* The slot that a job cancelled after it was granted gives back.
Returned(j) == IF job[j] = "granted" /\ j \in asked THEN 1 ELSE 0

\* The job resumes in acquire(), and passes on what slots are free.
Resume(j) ==
    LET free == value + Returned(j)
        next == IF j \in asked THEN "cancelled" ELSE "running"
    IN  /\ job[j] \in {"granted", "withdrawn"}
        /\ \E i \in DOMAIN waiters : waiters[i] = j /\ waiters' = RemoveAt(waiters, i)
        /\ HandOut(free, free, waiters', [job EXCEPT ![j] = next])
        /\ Forget({j} \cap asked)
        /\ UNCHANGED <<flags, drains>>

-----------------------------------------------------------------------------
(* spawn, _guarded, run_bounded *)

Running == started /\ ~stopped

Spawn(j) ==
    /\ Running /\ job[j] = "none"
    /\ job' = [job EXCEPT ![j] = "new"]
    /\ UNCHANGED <<flags, asked, token, semaphore, drains>>

\* The task runs for the first time, unless it was cancelled before.
Begin(j) ==
    /\ job[j] = "new"
    /\ IF j \in asked THEN job' = [job EXCEPT ![j] = "cancelled"] /\ UNCHANGED semaphore
                      ELSE Acquire(j)
    /\ Forget({j} \cap asked)
    /\ UNCHANGED <<flags, drains>>

RunBounded(j) ==
    /\ Running /\ job[j] = "none"
    /\ Acquire(j)
    /\ UNCHANGED <<flags, asked, token, drains>>

\* The coroutine returns, raises (a timeout is a way to raise), or lets a
\* CancelledError through; it may also go on as if nobody had asked.
CoroutineEnds(j) ==
    /\ job[j] = "running"
    /\ \E how \in Ended :
         /\ how = "cancelled" => j \in asked
         /\ Release([job EXCEPT ![j] = how])
    /\ Forget({j})
    /\ UNCHANGED <<flags, waiters, drains>>

-----------------------------------------------------------------------------
(* cancel_task, cancel_all, stop, drain *)

Over(j)    == job[j] \in Ended
Unfinished == {j \in Tracked : job[j] # "none" /\ ~Over(j)}

\* task.cancel() of every task in S.
Cancel(S) ==
    /\ asked' = asked \cup {j \in S : ~Over(j)}
    /\ job' = [j \in Jobs |-> IF j \in S /\ job[j] = "waiting" THEN "withdrawn" ELSE job[j]]

CancelTask(j) ==
    /\ j \in Unfinished
    /\ Cancel({j}) /\ token' = token \cup {j}
    /\ UNCHANGED <<flags, semaphore, drains>>

CancelAll ==
    /\ Cancel(Unfinished) /\ token' = token \cup Unfinished
    /\ UNCHANGED <<flags, semaphore, drains>>

\* Variant: only the tasks that hold a slot are cancelled.
StopTargetsRunning == {j \in Unfinished : job[j] = "running"}
StopTargets == Unfinished

Stop ==
    /\ ~stopped /\ stopped' = TRUE
    /\ Cancel(StopTargets) /\ token' = token \cup StopTargets
    /\ UNCHANGED <<started, semaphore, drains>>

CallerCancelled(j) ==
    /\ job[j] \in InLine \cup {"running"} /\ j \notin asked
    /\ Cancel({j})
    /\ UNCHANGED <<flags, token, semaphore, drains>>

Drain(d) ==
    /\ drain[d] = "none"
    /\ pending' = [pending EXCEPT ![d] = Unfinished]
    /\ drain' = [drain EXCEPT ![d] = IF Unfinished = {} THEN "returned" ELSE "waiting"]
    /\ UNCHANGED <<flags, job, asked, token, semaphore>>

\* The timeout, or the cancellation of drain()'s caller, goes to every task it
\* waits for (their tokens do not learn of it), and drain() waits on.
GiveUp(d) ==
    /\ drain[d] = "waiting"
    /\ drain' = [drain EXCEPT ![d] = "giving up"]
    /\ Cancel(pending[d])
    /\ UNCHANGED <<flags, token, semaphore, pending>>

DrainEnds(d) ==
    /\ drain[d] \in {"waiting", "giving up"}
    /\ \A j \in pending[d] : Over(j)
    /\ drain' = [drain EXCEPT ![d] = IF @ = "waiting" THEN "returned" ELSE "raised"]
    /\ UNCHANGED <<flags, job, asked, token, semaphore, pending>>

Next ==
    \/ Start \/ CancelAll \/ Stop
    \/ \E j \in Tracked : Spawn(j) \/ Begin(j) \/ CancelTask(j)
    \/ \E j \in Bounded : RunBounded(j) \/ CallerCancelled(j)
    \/ \E j \in Jobs : Resume(j) \/ CoroutineEnds(j)
    \/ \E d \in Drains : Drain(d) \/ GiveUp(d) \/ DrainEnds(d)

Spec == Init /\ [][Next]_vars

\* The event loop runs what is ready.
FairSpec ==
    /\ Spec
    /\ \A j \in Tracked : WF_vars(Begin(j))
    /\ \A j \in Jobs : WF_vars(Resume(j))
    /\ \A d \in Drains : WF_vars(DrainEnds(d))

\* Coroutines return or raise: a premise.
CoroutinesEnd == \A j \in Jobs : WF_vars(CoroutineEnds(j))

-----------------------------------------------------------------------------
(* Properties *)

In(s) == {j \in Jobs : job[j] = s}

\* No slot is lost or used twice, however jobs fail, are cancelled while they
\* wait, or are cancelled with a slot already granted to them; and a free slot
\* never sits beside a waiting job unless somebody is about to resume and hand
\* it out.
SlotsAccounted ==
    /\ TypeOK
    /\ started => value + Cardinality(In("running")) + Cardinality(In("granted")) = MaxConcurrent
    /\ value > 0 /\ In("waiting") # {} => In("granted") \cup In("withdrawn") # {}

\* stop() reaches every task that has not ended, those that wait for a slot or
\* have not begun included, and none comes after it.
StopReachesAll == stopped => \A j \in Unfinished : j \in asked /\ j \in token

\* While coroutines end, every job ends, and so does every drain(), whatever
\* is spawned after it.
AllEnd ==
    CoroutinesEnd =>
        /\ \A j \in Jobs : job[j] # "none" ~> Over(j)
        /\ \A d \in Drains : drain[d] = "waiting" ~> drain[d] \in {"returned", "raised"}
=============================================================================
