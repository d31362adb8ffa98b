--------------------------- MODULE WorkflowLifecycle ---------------------------
(***************************************************************************)
(* What the workflow scheduler promises those who schedule workflows and   *)
(* wait for them, said without queue, workers and records: a function is   *)
(* begun once and while its workflow still waits, and the answer that      *)
(* wait_for gives is settled once, with a result or an exception only by   *)
(* the function itself.                                                    *)
(***************************************************************************)

CONSTANT Tasks

VARIABLES
    fn,     \* where the workflow's function stands
    answer  \* the workflow's future

TypeOK ==
    /\ fn \in [Tasks -> {"none", "waiting", "running", "ended"}]
    /\ answer \in [Tasks -> {"none", "pending", "result", "exception", "cancelled"}]

Init ==
    /\ fn = [t \in Tasks |-> "none"]
    /\ answer = [t \in Tasks |-> "none"]

Register(t, to) ==
    /\ fn[t] = "none"
    /\ fn' = [fn EXCEPT ![t] = to]
    /\ answer' = [answer EXCEPT ![t] = "pending"]

Schedule(t) == Register(t, "waiting")
\* The queue has no room: nobody will ever answer.
Refuse(t) == Register(t, "ended")

Begin(t) ==
    /\ fn[t] = "waiting"
    /\ fn' = [fn EXCEPT ![t] = "running"]
    /\ UNCHANGED answer

Settle(T, a) ==
    answer' = [t \in Tasks |-> IF t \in T /\ answer[t] = "pending" THEN a ELSE answer[t]]

End(t) == fn[t] = "running" /\ fn' = [fn EXCEPT ![t] = "ended"]

Return(t) == End(t) /\ Settle({t}, "result")
Raise(t)  == End(t) /\ Settle({t}, "exception")
\* A timeout or a CancelledError ends the function and nobody answers.
Abort(t)  == End(t) /\ UNCHANGED answer

\* cancel() of workflows that wait, or stop() of the scheduler.
Withdraw(T) ==
    /\ \A t \in T : fn[t] = "waiting"
    /\ fn' = [t \in Tasks |-> IF t \in T THEN "ended" ELSE fn[t]]
    /\ Settle(T, "cancelled")

\* cancel() of a running workflow, or a cancelled client: the function goes on.
Disown(t) == UNCHANGED fn /\ answer[t] = "pending" /\ Settle({t}, "cancelled")

\* What happens to a workflow once it is scheduled.
Progress ==
    \/ \E t \in Tasks : Begin(t) \/ Return(t) \/ Raise(t) \/ Abort(t) \/ Disown(t)
    \/ \E T \in SUBSET Tasks : Withdraw(T)

Next == Progress \/ \E t \in Tasks : Schedule(t) \/ Refuse(t)

Spec == Init /\ [][Next]_<<fn, answer>>
=============================================================================
