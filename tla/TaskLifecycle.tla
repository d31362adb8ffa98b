----------------------------- MODULE TaskLifecycle -----------------------------
(***************************************************************************)
(* What a worker queue promises of the tasks handed to it, said without    *)
(* queue, workers or futures: a task moves pending -> running -> terminal  *)
(* or pending -> cancelled and stays where it ended, at most Limit tasks   *)
(* run at a time, and a queue that is stopping takes no more of them.      *)
(***************************************************************************)
EXTENDS Naturals, FiniteSets

CONSTANTS Tasks, Limit

VARIABLES status, open

Running == {t \in Tasks : status[t] = "running"}

Move(t, from, to) ==
    /\ status[t] \in from
    /\ \E s \in to : status' = [status EXCEPT ![t] = s]
    /\ UNCHANGED open

Accept(t) == open /\ Move(t, {"new"}, {"pending"})
Begin(t)  == Cardinality(Running) < Limit /\ Move(t, {"pending"}, {"running"})
Finish(t) == Move(t, {"running"}, {"completed", "failed", "cancelled"})
Cancel(t) == Move(t, {"pending"}, {"cancelled"})
Close     == open /\ open' = FALSE /\ UNCHANGED status

Init == status = [t \in Tasks |-> "new"] /\ open = TRUE

Next == Close \/ \E t \in Tasks : Accept(t) \/ Begin(t) \/ Finish(t) \/ Cancel(t)

Spec == Init /\ [][Next]_<<status, open>>
=============================================================================
