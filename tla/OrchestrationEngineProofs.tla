------------------------ MODULE OrchestrationEngineProofs ------------------------
(***************************************************************************)
(* What the engine reports of its plans, proved for any number of plans,   *)
(* steps and slots.                                                        *)
(***************************************************************************)
EXTENDS OrchestrationEngine, FiniteSetTheorems, TLAPS

\* Where a plan stands and in which book it is; the counters count the books.
BooksStand ==
    /\ \A p \in Plans :
         /\ plan[p] = "new" => p \notin active \cup completed
         /\ plan[p] \in {"announcing", "running"} => p \in active
         /\ plan[p] \in {"closing", "returned"} => p \in completed
         /\ p \in active => plan[p] \in {"announcing", "running", "raised"}
    /\ active \cap completed = {}
    /\ stats.submitted = Cardinality(active \cup completed)
    /\ stats.succeeded + stats.failed = Cardinality(completed)
    /\ stats.succeeded = Cardinality({p \in completed : result[p].success})

\* A success, of a step or of a plan, has a result behind it.
StepsEarned ==
    /\ \A s \in Steps : step[s] = "succeeded" => answer[s] = "result"
    /\ \A s \in Steps : answer[s] = "result" => fn[s] = "ended"
    /\ \A p \in completed : result[p].success /\ kind[p] # "best_effort" => AllSucceed(p)
    /\ OneAtATime

IInv == TypeOK /\ BooksStand /\ StepsEarned

\* What a step may do to the workflows: no end and no result is taken back.
WorkflowsGrow ==
    /\ Workflows!TypeOK'
    /\ \A s \in Steps :
         /\ fn[s] = "ended" => fn'[s] = "ended"
         /\ answer[s] = "result" => answer'[s] = "result"
         /\ answer'[s] = "result" => fn'[s] = "ended"

-----------------------------------------------------------------------------
(* The workflows of the steps *)

LEMMA StepPairs == \A p \in Plans : \A i \in Indexes(p) : <<p, i>> \in Steps
BY DEF Steps

LEMMA RegisterGrows ==
    ASSUME IInv, NEW s \in Steps, NEW to \in {"waiting", "ended"}, Workflows!Register(s, to)
    PROVE  /\ WorkflowsGrow /\ fn[s] = "none"
           /\ \A t \in Steps \ {s} : fn'[t] = fn[t]
<1>1. /\ fn \in [Steps -> {"none", "waiting", "running", "ended"}]
      /\ answer \in [Steps -> {"none", "pending", "result", "exception", "cancelled"}]
  BY DEF IInv, TypeOK, Workflows!TypeOK
<1>2. /\ fn[s] = "none" /\ fn' = [fn EXCEPT ![s] = to]
      /\ answer' = [answer EXCEPT ![s] = "pending"]
  BY DEF Workflows!Register
<1>3. \A t \in Steps : answer[t] = "result" => fn[t] = "ended"
  BY DEF IInv, StepsEarned
<1> QED
  BY <1>1, <1>2, <1>3 DEF WorkflowsGrow, Workflows!TypeOK

\* Settling some workflows while no function is begun or ended.
LEMMA SettleGrows ==
    ASSUME IInv, NEW T, NEW a \in {"exception", "cancelled"}, Workflows!Settle(T, a),
           fn' \in [Steps -> {"none", "waiting", "running", "ended"}],
           \A s \in Steps : fn[s] = "ended" => fn'[s] = "ended"
    PROVE  WorkflowsGrow
<1>1. answer \in [Steps -> {"none", "pending", "result", "exception", "cancelled"}]
  BY DEF IInv, TypeOK, Workflows!TypeOK
<1>2. answer' = [t \in Steps |-> IF t \in T /\ answer[t] = "pending" THEN a ELSE answer[t]]
  BY DEF Workflows!Settle
<1>3. \A t \in Steps : answer[t] = "result" => fn[t] = "ended"
  BY DEF IInv, StepsEarned
<1> QED
  BY <1>1, <1>2, <1>3 DEF WorkflowsGrow, Workflows!TypeOK

LEMMA ProgressGrows ==
    ASSUME IInv, Workflows!Progress
    PROVE  /\ WorkflowsGrow
           /\ \A s \in Steps : fn'[s] # "none" => fn[s] # "none"
<1>1. /\ fn \in [Steps -> {"none", "waiting", "running", "ended"}]
      /\ answer \in [Steps -> {"none", "pending", "result", "exception", "cancelled"}]
  BY DEF IInv, TypeOK, Workflows!TypeOK
<1>2. \A t \in Steps : answer[t] = "result" => fn[t] = "ended"
  BY DEF IInv, StepsEarned
<1>3. ASSUME NEW t \in Steps, Workflows!Begin(t) \/ Workflows!Abort(t)
      PROVE  /\ WorkflowsGrow
             /\ \A s \in Steps : fn'[s] # "none" => fn[s] # "none"
  BY <1>1, <1>2, <1>3
     DEF WorkflowsGrow, Workflows!TypeOK, Workflows!Begin, Workflows!Abort, Workflows!End
<1>4. ASSUME NEW t \in Steps, Workflows!Return(t)
      PROVE  /\ WorkflowsGrow
             /\ \A s \in Steps : fn'[s] # "none" => fn[s] # "none"
  <2>1. /\ fn[t] = "running" /\ fn' = [fn EXCEPT ![t] = "ended"]
        /\ answer' = [s \in Steps |->
                        IF s \in {t} /\ answer[s] = "pending" THEN "result" ELSE answer[s]]
    BY <1>4 DEF Workflows!Return, Workflows!End, Workflows!Settle
  <2> QED
    BY <1>1, <1>2, <2>1 DEF WorkflowsGrow, Workflows!TypeOK
<1>5. ASSUME NEW t \in Steps, Workflows!Raise(t)
      PROVE  /\ WorkflowsGrow
             /\ \A s \in Steps : fn'[s] # "none" => fn[s] # "none"
  <2>1. fn[t] = "running" /\ fn' = [fn EXCEPT ![t] = "ended"] /\ Workflows!Settle({t}, "exception")
    BY <1>5 DEF Workflows!Raise, Workflows!End
  <2> QED
    BY <1>1, <2>1, SettleGrows
<1>6. ASSUME NEW t \in Steps, Workflows!Disown(t)
      PROVE  /\ WorkflowsGrow
             /\ \A s \in Steps : fn'[s] # "none" => fn[s] # "none"
  BY <1>1, <1>6, SettleGrows DEF Workflows!Disown
<1>7. ASSUME NEW T \in SUBSET Steps, Workflows!Withdraw(T)
      PROVE  /\ WorkflowsGrow
             /\ \A s \in Steps : fn'[s] # "none" => fn[s] # "none"
  <2>1. /\ \A t \in T : fn[t] = "waiting"
        /\ fn' = [t \in Steps |-> IF t \in T THEN "ended" ELSE fn[t]]
        /\ Workflows!Settle(T, "cancelled")
    BY <1>7 DEF Workflows!Withdraw
  <2> QED
    BY <1>1, <2>1, SettleGrows
<1> QED
  BY <1>3, <1>4, <1>5, <1>6, <1>7 DEF Workflows!Progress

-----------------------------------------------------------------------------
(* Steps *)

\* A step of the engine under which no success is taken back keeps what the
\* completed plans rest on.
LEMMA GrowthKeepsIInv ==
    ASSUME IInv, WorkflowsGrow, UNCHANGED <<stopping, kind, plan, result, bookVars>>,
           step' \in [Steps -> {"idle", "scheduling", "awaiting", "succeeded", "failed"}],
           \A s \in Steps : step[s] = "succeeded" => step'[s] = "succeeded",
           \A s \in Steps : step'[s] = "succeeded" => answer'[s] = "result",
           OneAtATime'
    PROVE  IInv'
<1>1. TypeOK'
  BY DEF IInv, TypeOK, WorkflowsGrow, bookVars
<1>2. BooksStand'
  BY DEF IInv, BooksStand, bookVars
<1>3. ASSUME NEW p \in completed', result'[p].success, kind'[p] # "best_effort"
      PROVE  AllSucceed(p)'
  <2>1. p \in completed /\ p \in Plans /\ AllSucceed(p)
    BY <1>3 DEF IInv, TypeOK, StepsEarned, bookVars
  <2> QED
    BY <2>1, StepPairs DEF AllSucceed
<1>4. StepsEarned'
  BY <1>3 DEF StepsEarned, WorkflowsGrow
<1> QED
  BY <1>1, <1>2, <1>4 DEF IInv

\* Where no function is begun, nothing overlaps that did not before.
LEMMA GrowthKeepsOrder ==
    ASSUME IInv, WorkflowsGrow, UNCHANGED kind,
           \A s \in Steps : fn'[s] # "none" => fn[s] # "none"
    PROVE  OneAtATime'
BY StepPairs DEF IInv, StepsEarned, OneAtATime, WorkflowsGrow

LEMMA StartStepKeepsIInv ==
    ASSUME IInv, NEW p \in Plans, NEW i \in Indexes(p), StartStep(p, i)
    PROVE  IInv'
<1> DEFINE s == <<p, i>>
           States == {"idle", "scheduling", "awaiting", "succeeded", "failed"}
<1>1. /\ s \in Steps /\ step[s] = "idle" /\ PredecessorsAllow(p, i)
      /\ step \in [Steps -> States]
      /\ UNCHANGED <<stopping, kind, plan, result, bookVars>>
  BY StepPairs DEF StartStep, IInv, TypeOK
<1>2. PICK to \in {"scheduling", "failed"} : step' = [step EXCEPT ![s] = to]
  BY DEF StartStep
<1>3. /\ WorkflowsGrow
      /\ \A t \in Steps \ {s} : fn'[t] = fn[t]
      /\ UNCHANGED fn \/ fn[s] = "none"
  <2>1. CASE Workflows!Schedule(s)
    BY <1>1, <2>1, RegisterGrows DEF Workflows!Schedule
  <2>2. CASE Workflows!Refuse(s)
    BY <1>1, <2>2, RegisterGrows DEF Workflows!Refuse
  <2>3. CASE UNCHANGED workflowVars
    BY <2>3 DEF IInv, TypeOK, StepsEarned, WorkflowsGrow, Workflows!TypeOK, workflowVars
  <2> QED
    BY <2>1, <2>2, <2>3 DEF StartStep
<1>4. /\ step' \in [Steps -> States]
      /\ \A t \in Steps : step'[t] = "succeeded" <=> step[t] = "succeeded"
  BY <1>1, <1>2
<1>5. \A t \in Steps : step'[t] = "succeeded" => answer'[t] = "result"
  BY <1>3, <1>4 DEF IInv, StepsEarned, WorkflowsGrow
<1>6. ASSUME NEW q \in Plans, kind'[q] = "fail_fast",
             NEW k \in Indexes(q), NEW j \in Indexes(q), k < j, fn'[<<q, j>>] # "none"
      PROVE  fn'[<<q, k>>] = "ended" /\ answer'[<<q, k>>] = "result"
  <2>0. <<q, k>> \in Steps /\ <<q, j>> \in Steps /\ kind[q] = "fail_fast"
    BY <1>1, <1>6, StepPairs
  <2>1. CASE fn[<<q, j>>] # "none"
    BY <1>3, <1>6, <2>0, <2>1 DEF IInv, StepsEarned, OneAtATime, WorkflowsGrow
  <2>2. CASE fn[<<q, j>>] = "none"
    <3>1. q = p /\ j = i
      BY <1>3, <1>6, <2>0, <2>2
    <3>2. k \in 1..(i - 1)
      BY <1>6, <3>1, EngineAssumption DEF Indexes
    <3>3. step[<<q, k>>] = "succeeded"
      BY <1>1, <2>0, <3>1, <3>2 DEF PredecessorsAllow, Sequential
    <3> QED
      BY <1>3, <2>0, <3>3 DEF IInv, StepsEarned, WorkflowsGrow
  <2> QED
    BY <2>1, <2>2
<1>7. OneAtATime'
  BY <1>6 DEF OneAtATime, Indexes
<1> QED
  BY <1>1, <1>3, <1>4, <1>5, <1>7, GrowthKeepsIInv

\* The steps of one plan move on without touching the workflows.
LEMMA StepMovesKeepsIInv ==
    ASSUME IInv, NEW s \in Steps, Scheduled(s) \/ StepAnswered(s) \/ StepTimesOut(s)
    PROVE  IInv'
<1> DEFINE States == {"idle", "scheduling", "awaiting", "succeeded", "failed"}
<1>1. PICK to \in {"awaiting", "succeeded", "failed"} :
        /\ step' = [step EXCEPT ![s] = to] /\ step[s] \in {"scheduling", "awaiting"}
        /\ to = "succeeded" => answer[s] = "result"
  BY DEF Scheduled, StepAnswered, StepTimesOut, StepMoves, Outcome
<1>2. /\ UNCHANGED <<workflowVars, stopping, kind, plan, result, bookVars>>
      /\ step \in [Steps -> States]
  BY DEF Scheduled, StepAnswered, StepTimesOut, StepMoves, IInv, TypeOK
<1>3. WorkflowsGrow
  BY <1>2 DEF IInv, TypeOK, StepsEarned, WorkflowsGrow, Workflows!TypeOK, workflowVars
<1>4. OneAtATime'
  BY <1>2, <1>3, GrowthKeepsOrder DEF workflowVars
<1>5. step' \in [Steps -> States] /\ \A t \in Steps : step[t] = "succeeded" => step'[t] = "succeeded"
  BY <1>1, <1>2
<1>6. \A t \in Steps : step'[t] = "succeeded" => answer'[t] = "result"
  BY <1>1, <1>2 DEF IInv, StepsEarned, workflowVars
<1> QED
  BY <1>2, <1>3, <1>4, <1>5, <1>6, GrowthKeepsIInv

\* A cancellation ends the steps in flight and settles some of their futures.
LEMMA CancelStepsGrows ==
    ASSUME IInv, NEW p \in Plans, CancelSteps(p), UNCHANGED kind
    PROVE  /\ WorkflowsGrow /\ OneAtATime'
           /\ step' \in [Steps -> {"idle", "scheduling", "awaiting", "succeeded", "failed"}]
           /\ \A s \in Steps : step'[s] = "succeeded" <=> step[s] = "succeeded"
           /\ \A s \in Steps : step'[s] = "succeeded" => answer'[s] = "result"
<1> DEFINE S == {p} \X InFlight(p)
<1>1. /\ step' = [s \in Steps |-> IF s \in S THEN "failed" ELSE step[s]]
      /\ Workflows!Settle({s \in S : step[s] = "awaiting" /\ s \notin TimedSteps}, "cancelled")
      /\ UNCHANGED fn
  BY DEF CancelSteps
<1>2. \A s \in S : step[s] \in {"scheduling", "awaiting"}
  BY DEF InFlight
<1> HIDE DEF S
<1>3. /\ step \in [Steps -> {"idle", "scheduling", "awaiting", "succeeded", "failed"}]
      /\ fn' \in [Steps -> {"none", "waiting", "running", "ended"}]
  BY <1>1 DEF IInv, TypeOK, Workflows!TypeOK
<1>4. WorkflowsGrow
  BY <1>1, <1>3, SettleGrows
<1>5. OneAtATime'
  BY <1>1, <1>4, GrowthKeepsOrder
<1>6. /\ step' \in [Steps -> {"idle", "scheduling", "awaiting", "succeeded", "failed"}]
      /\ \A s \in Steps : step'[s] = "succeeded" <=> step[s] = "succeeded"
  BY <1>1, <1>2, <1>3
<1>7. \A s \in Steps : step'[s] = "succeeded" => answer'[s] = "result"
  BY <1>4, <1>6 DEF IInv, StepsEarned, WorkflowsGrow
<1> QED
  BY <1>4, <1>5, <1>6, <1>7

\* ... sequentially, where the plan goes on,
LEMMA CancelSequentialKeepsIInv ==
    ASSUME IInv, NEW p \in Plans, CancelSequential(p)
    PROVE  IInv'
<1>1. CancelSteps(p) /\ UNCHANGED <<stopping, kind, plan, result, bookVars>>
  BY DEF CancelSequential
<1> QED
  BY <1>1, CancelStepsGrows, GrowthKeepsIInv

LEMMA WorkflowProgressKeepsIInv ==
    ASSUME IInv, WorkflowProgress
    PROVE  IInv'
<1>1. /\ Workflows!Progress /\ UNCHANGED <<stopping, kind, plan, step, result, bookVars>>
  BY DEF WorkflowProgress
<1>2. WorkflowsGrow /\ OneAtATime'
  BY <1>1, ProgressGrows, GrowthKeepsOrder
<1>3. /\ step' \in [Steps -> {"idle", "scheduling", "awaiting", "succeeded", "failed"}]
      /\ \A s \in Steps : step'[s] = "succeeded" => answer'[s] = "result"
  BY <1>1, <1>2 DEF IInv, TypeOK, StepsEarned, WorkflowsGrow
<1> QED
  BY <1>1, <1>2, <1>3, GrowthKeepsIInv

-----------------------------------------------------------------------------
(* Books *)

LEMMA BooksFinite ==
    ASSUME TypeOK
    PROVE  /\ IsFiniteSet(active \cup completed) /\ IsFiniteSet(completed)
           /\ \A Q \in SUBSET Plans : IsFiniteSet(Q) /\ Cardinality(Q) \in Nat
<1>1. \A Q \in SUBSET Plans : IsFiniteSet(Q) /\ Cardinality(Q) \in Nat
  BY EngineAssumption, FS_Subset, FS_CardinalityType
<1> QED
  BY <1>1 DEF TypeOK

\* A plan that is only moved, from one stage to a later one of the same book.
LEMMA PlanMovesKeepsIInv ==
    ASSUME IInv, NEW p \in Plans, Announced(p) \/ Published(p) \/ CancelPublication(p)
    PROVE  IInv'
<1>1. PICK to \in {"running", "returned", "raised"} :
        /\ plan' = [plan EXCEPT ![p] = to]
        /\ to = "running" => plan[p] = "announcing"
        /\ to = "returned" => plan[p] = "closing"
        /\ UNCHANGED <<workflowVars, stopping, kind, step, result, bookVars>>
  BY DEF Announced, Published, CancelPublication
<1>2. TypeOK'
  BY <1>1 DEF IInv, TypeOK, Workflows!TypeOK, workflowVars, bookVars
<1>3. BooksStand'
  BY <1>1 DEF IInv, TypeOK, BooksStand, bookVars
<1>4. StepsEarned'
  BY <1>1 DEF IInv, StepsEarned, OneAtATime, AllSucceed, workflowVars, bookVars
<1> QED
  BY <1>2, <1>3, <1>4 DEF IInv

LEMMA ExecuteKeepsIInv ==
    ASSUME IInv, NEW p \in Plans, Execute(p)
    PROVE  IInv'
<1>1. /\ plan[p] = "new" /\ plan' = [plan EXCEPT ![p] = "announcing"]
      /\ active' = active \cup {p} /\ completed' = completed
      /\ stats' = [stats EXCEPT !.submitted = @ + 1]
      /\ UNCHANGED <<workflowVars, stopping, kind, step, result>>
      /\ stats \in [submitted: Nat, succeeded: Nat, failed: Nat]
  BY DEF Execute, IInv, TypeOK
<1>2. stats' \in [submitted: Nat, succeeded: Nat, failed: Nat]
      /\ stats'.submitted = stats.submitted + 1
      /\ stats'.succeeded = stats.succeeded /\ stats'.failed = stats.failed
  BY <1>1
<1>3. TypeOK'
  BY <1>1, <1>2 DEF IInv, TypeOK, Workflows!TypeOK, workflowVars
<1>4. Cardinality(active' \cup completed') = Cardinality(active \cup completed) + 1
  <2>1. p \notin active \cup completed /\ IsFiniteSet(active \cup completed)
    BY <1>1, BooksFinite DEF IInv, BooksStand
  <2>2. active' \cup completed' = (active \cup completed) \cup {p}
    BY <1>1
  <2> QED
    BY <2>1, <2>2, FS_AddElement
<1>5. BooksStand'
  <2>1. \A q \in Plans :
          /\ plan'[q] = "new" => q \notin active' \cup completed'
          /\ plan'[q] \in {"announcing", "running"} => q \in active'
          /\ plan'[q] \in {"closing", "returned"} => q \in completed'
          /\ q \in active' => plan'[q] \in {"announcing", "running", "raised"}
    BY <1>1 DEF IInv, TypeOK, BooksStand
  <2>2. active' \cap completed' = {}
    BY <1>1 DEF IInv, BooksStand
  <2>3. /\ stats'.submitted = Cardinality(active' \cup completed')
        /\ stats'.succeeded + stats'.failed = Cardinality(completed')
        /\ stats'.succeeded = Cardinality({q \in completed' : result'[q].success})
    BY <1>1, <1>2, <1>4 DEF IInv, BooksStand
  <2> QED
    BY <2>1, <2>2, <2>3 DEF BooksStand
<1>6. StepsEarned'
  BY <1>1 DEF IInv, StepsEarned, OneAtATime, AllSucceed, workflowVars
<1> QED
  BY <1>3, <1>5, <1>6 DEF IInv

\* What a plan is closed with.
Results == [success: BOOLEAN, error: {"none", "step failed", "plan cancelled", "engine stopping"}]

\* The plan goes from one dictionary to the other, with its result.
LEMMA CloseKeepsBooks ==
    ASSUME IInv, NEW p \in Plans, plan[p] = "running", NEW r \in Results,
           result' = [result EXCEPT ![p] = r], Close(p, r.success),
           plan' = [plan EXCEPT ![p] = "closing"]
    PROVE  /\ BooksStand'
           /\ plan' \in [Plans -> {"new", "announcing", "running", "closing", "returned", "raised"}]
           /\ result' \in [Plans -> Results]
           /\ active' \subseteq Plans /\ completed' \subseteq Plans
           /\ stats' \in [submitted: Nat, succeeded: Nat, failed: Nat]
<1> DEFINE Won == {q \in completed : result[q].success}
<1>1. /\ plan \in [Plans -> {"new", "announcing", "running", "closing", "returned", "raised"}]
      /\ result \in [Plans -> Results]
      /\ active \subseteq Plans /\ completed \subseteq Plans
      /\ stats \in [submitted: Nat, succeeded: Nat, failed: Nat]
      /\ r.success \in BOOLEAN
      /\ TypeOK
  BY DEF IInv, TypeOK, Results
<1>2. p \in active /\ p \notin completed
  BY DEF IInv, BooksStand
<1>3. /\ active' = active \ {p} /\ completed' = completed \cup {p}
      /\ result'[p] = r /\ \A q \in Plans \ {p} : result'[q] = result[q]
      /\ result' \in [Plans -> Results]
  BY <1>1 DEF Close
<1>4. stats' = IF r.success THEN [stats EXCEPT !.succeeded = @ + 1]
                            ELSE [stats EXCEPT !.failed = @ + 1]
  BY DEF Close
<1>5. /\ active' \cup completed' = active \cup completed
      /\ active' \cap completed' = {}
  BY <1>2, <1>3 DEF IInv, BooksStand
<1>6. /\ {q \in completed' : result'[q].success} = IF r.success THEN Won \cup {p} ELSE Won
      /\ p \notin Won
  <2>1. \A q \in completed : q # p /\ result'[q] = result[q]
    BY <1>1, <1>2, <1>3
  <2> QED
    BY <1>2, <1>3, <2>1
<1>7. /\ IsFiniteSet(Won) /\ Cardinality(Won) \in Nat /\ IsFiniteSet(completed)
      /\ Cardinality(Won \cup {p}) = Cardinality(Won) + 1
      /\ Cardinality(completed') = Cardinality(completed) + 1
  <2>1. Won \in SUBSET Plans /\ completed \in SUBSET Plans
    BY <1>1
  <2> HIDE DEF Won
  <2>2. IsFiniteSet(Won) /\ Cardinality(Won) \in Nat /\ IsFiniteSet(completed)
    BY <1>1, <2>1, BooksFinite
  <2> QED
    BY <1>2, <1>3, <1>6, <2>2, FS_AddElement
<1>8. /\ stats'.submitted = stats.submitted
      /\ stats'.succeeded = IF r.success THEN stats.succeeded + 1 ELSE stats.succeeded
      /\ stats'.failed = IF r.success THEN stats.failed ELSE stats.failed + 1
      /\ stats' \in [submitted: Nat, succeeded: Nat, failed: Nat]
  BY <1>1, <1>4
<1>9. /\ stats.submitted = Cardinality(active \cup completed)
      /\ stats.succeeded + stats.failed = Cardinality(completed)
      /\ stats.succeeded = Cardinality(Won)
      /\ stats.succeeded \in Nat /\ stats.failed \in Nat
  BY <1>1 DEF IInv, BooksStand
<1>10. /\ stats'.submitted = Cardinality(active' \cup completed')
       /\ stats'.succeeded + stats'.failed = Cardinality(completed')
       /\ stats'.succeeded = Cardinality({q \in completed' : result'[q].success})
  <2> HIDE DEF Won
  <2>1. stats'.submitted = Cardinality(active' \cup completed')
    BY <1>5, <1>8, <1>9
  <2>2. stats'.succeeded + stats'.failed = Cardinality(completed')
    BY <1>1, <1>7, <1>8, <1>9
  <2>3. stats'.succeeded = Cardinality({q \in completed' : result'[q].success})
    BY <1>1, <1>6, <1>7, <1>8, <1>9
  <2> QED
    BY <2>1, <2>2, <2>3
<1>11. \A q \in Plans :
         /\ plan'[q] = "new" => q \notin active' \cup completed'
         /\ plan'[q] \in {"announcing", "running"} => q \in active'
         /\ plan'[q] \in {"closing", "returned"} => q \in completed'
         /\ q \in active' => plan'[q] \in {"announcing", "running", "raised"}
  BY <1>1, <1>2, <1>3 DEF IInv, BooksStand
<1> QED
  BY <1>1, <1>3, <1>5, <1>8, <1>10, <1>11 DEF BooksStand

LEMMA FinishKeepsIInv ==
    ASSUME IInv, NEW p \in Plans, Finish(p)
    PROVE  IInv'
<1>1. /\ plan[p] = "running" /\ plan' = [plan EXCEPT ![p] = "closing"]
      /\ UNCHANGED <<workflowVars, stopping, kind, step>>
      /\ result \in [Plans -> Results] /\ completed \subseteq Plans
  BY DEF Finish, IInv, TypeOK, Results
<1>2. PICK r \in Results :
        /\ result' = [result EXCEPT ![p] = r]
        /\ r.success /\ kind[p] # "best_effort" => AllSucceed(p)
  <2>1. CASE result' = [result EXCEPT ![p] = [success |-> FALSE, error |-> "step failed"]]
    <3>1. [success |-> FALSE, error |-> "step failed"] \in Results
      BY DEF Results
    <3>2. ~[success |-> FALSE, error |-> "step failed"].success
      OBVIOUS
    <3> QED
      BY <2>1, <3>1, <3>2
  <2>2. CASE result' = [result EXCEPT ![p].success = Verdict(p)]
    <3>1. Verdict(p) \in BOOLEAN
      BY DEF Verdict, AllSucceed
    <3>2. [result[p] EXCEPT !.success = Verdict(p)] \in Results
      BY <1>1, <3>1 DEF Results
    <3>3. [result[p] EXCEPT !.success = Verdict(p)].success = Verdict(p)
      BY <1>1 DEF Results
    <3> QED
      <4>1. result' = [result EXCEPT ![p] = [result[p] EXCEPT !.success = Verdict(p)]]
        BY <2>2
      <4>2. Verdict(p) /\ kind[p] # "best_effort" => AllSucceed(p)
        BY DEF Verdict
      <4> QED
        BY <3>2, <3>3, <4>1, <4>2
  <2> QED
    BY <2>1, <2>2 DEF Finish
<1>3. Close(p, r.success)
  BY <1>1, <1>2 DEF Finish
<1>4. /\ BooksStand'
      /\ plan' \in [Plans -> {"new", "announcing", "running", "closing", "returned", "raised"}]
      /\ result' \in [Plans -> Results]
      /\ active' \subseteq Plans /\ completed' \subseteq Plans
      /\ stats' \in [submitted: Nat, succeeded: Nat, failed: Nat]
  BY <1>1, <1>2, <1>3, CloseKeepsBooks
<1>5. TypeOK'
  BY <1>1, <1>4 DEF IInv, TypeOK, Results, Workflows!TypeOK, workflowVars
<1>6. ASSUME NEW q \in completed', result'[q].success, kind'[q] # "best_effort"
      PROVE  AllSucceed(q)'
  <2>1. q = p \/ (q # p /\ q \in completed)
    BY <1>3, <1>6 DEF Close
  <2>2. AllSucceed(q)
    BY <1>1, <1>2, <1>6, <2>1 DEF IInv, StepsEarned
  <2> QED
    BY <1>1, <2>2 DEF AllSucceed
<1>7. StepsEarned'
  BY <1>1, <1>6 DEF IInv, StepsEarned, OneAtATime, workflowVars
<1> QED
  BY <1>4, <1>5, <1>7 DEF IInv

\* ... in parallel, where the cancellation closes the plan.
LEMMA CancelParallelKeepsIInv ==
    ASSUME IInv, NEW p \in Plans, CancelParallel(p)
    PROVE  IInv'
<1> DEFINE r == [success |-> FALSE, error |-> "plan cancelled"]
<1>1. /\ plan[p] = "running" /\ plan' = [plan EXCEPT ![p] = "closing"]
      /\ CancelSteps(p) /\ UNCHANGED <<stopping, kind>>
      /\ result' = [result EXCEPT ![p] = r] /\ Close(p, r.success)
      /\ r \in Results /\ ~r.success
      /\ result \in [Plans -> Results] /\ completed \subseteq Plans
  BY DEF CancelParallel, IInv, TypeOK, Results
<1> HIDE DEF r
<1>2. /\ WorkflowsGrow /\ OneAtATime'
      /\ step' \in [Steps -> {"idle", "scheduling", "awaiting", "succeeded", "failed"}]
      /\ \A s \in Steps : step'[s] = "succeeded" <=> step[s] = "succeeded"
      /\ \A s \in Steps : step'[s] = "succeeded" => answer'[s] = "result"
  BY <1>1, CancelStepsGrows
<1>3. /\ BooksStand'
      /\ plan' \in [Plans -> {"new", "announcing", "running", "closing", "returned", "raised"}]
      /\ result' \in [Plans -> Results]
      /\ active' \subseteq Plans /\ completed' \subseteq Plans
      /\ stats' \in [submitted: Nat, succeeded: Nat, failed: Nat]
  BY <1>1, CloseKeepsBooks
<1>4. TypeOK'
  BY <1>1, <1>2, <1>3 DEF IInv, TypeOK, Results, WorkflowsGrow
<1>5. ASSUME NEW q \in completed', result'[q].success, kind'[q] # "best_effort"
      PROVE  AllSucceed(q)'
  <2>1. q \in Plans /\ q # p /\ q \in completed
    BY <1>1, <1>3, <1>5 DEF Close
  <2>2. AllSucceed(q)
    BY <1>1, <1>5, <2>1 DEF IInv, StepsEarned
  <2> QED
    BY <1>2, <2>1, <2>2, StepPairs DEF AllSucceed
<1>6. StepsEarned'
  BY <1>2, <1>5 DEF StepsEarned, WorkflowsGrow
<1> QED
  BY <1>3, <1>4, <1>6 DEF IInv

\* stop() writes into the results of the plans that are active, no others.
LEMMA StopKeepsIInv ==
    ASSUME IInv, Stop
    PROVE  IInv'
<1>1. /\ UNCHANGED <<workflowVars, kind, plan, step, bookVars>> /\ stopping' \in BOOLEAN
      /\ result \in [Plans -> Results] /\ completed \subseteq Plans
      /\ result' = [p \in Plans |-> IF p \in active
                                    THEN [success |-> FALSE, error |-> "engine stopping"]
                                    ELSE result[p]]
  BY DEF Stop, Marked, IInv, TypeOK, Results
<1>2. result' \in [Plans -> Results]
  BY <1>1 DEF Results
<1>3. \A p \in completed : result'[p] = result[p]
  BY <1>1 DEF IInv, BooksStand
<1>4. TypeOK'
  BY <1>1, <1>2 DEF IInv, TypeOK, Results, Workflows!TypeOK, workflowVars, bookVars
<1>5. BooksStand'
  <2>1. {p \in completed' : result'[p].success} = {p \in completed : result[p].success}
    BY <1>1, <1>3 DEF bookVars
  <2> QED
    BY <1>1, <2>1 DEF IInv, BooksStand, bookVars
<1>6. StepsEarned'
  BY <1>1, <1>3 DEF IInv, StepsEarned, OneAtATime, AllSucceed, workflowVars, bookVars
<1> QED
  BY <1>4, <1>5, <1>6 DEF IInv

-----------------------------------------------------------------------------
(* The invariant *)

LEMMA InitIInv == Init => IInv
<1> SUFFICES ASSUME Init PROVE IInv
  OBVIOUS
<1>1. TypeOK
  <2>1. Workflows!TypeOK
    BY DEF Init, Workflows!Init, Workflows!TypeOK
  <2> QED
    BY <2>1 DEF Init, TypeOK
<1>2. BooksStand
  <2>1. /\ active \cup completed = {} /\ completed = {}
        /\ {p \in completed : result[p].success} = {}
        /\ stats.submitted = 0 /\ stats.succeeded = 0 /\ stats.failed = 0
    BY DEF Init
  <2>2. Cardinality({}) = 0
    BY FS_EmptySet
  <2> QED
    BY <2>1, <2>2 DEF Init, BooksStand
<1>3. StepsEarned
  BY StepPairs DEF Init, Workflows!Init, StepsEarned, OneAtATime
<1> QED
  BY <1>1, <1>2, <1>3 DEF IInv

LEMMA NextIInv == IInv /\ [Next]_vars => IInv'
<1> SUFFICES ASSUME IInv, [Next]_vars PROVE IInv'
  OBVIOUS
<1>1. CASE Stop
  BY <1>1, StopKeepsIInv
<1>2. CASE WorkflowProgress
  BY <1>2, WorkflowProgressKeepsIInv
<1>3. ASSUME NEW p \in Plans, Execute(p)
      PROVE  IInv'
  BY <1>3, ExecuteKeepsIInv
<1>4. ASSUME NEW p \in Plans, Advance(p) \/ Delivered(p)
      PROVE  IInv'
  BY <1>4, StepPairs, PlanMovesKeepsIInv, FinishKeepsIInv, StartStepKeepsIInv,
     StepMovesKeepsIInv DEF Advance, Delivered
<1>5. ASSUME NEW p \in Plans, Cancel(p)
      PROVE  IInv'
  BY <1>5, CancelSequentialKeepsIInv, CancelParallelKeepsIInv, PlanMovesKeepsIInv DEF Cancel
<1>6. CASE UNCHANGED vars
  <2>1. TypeOK'
    BY <1>6 DEF IInv, TypeOK, Workflows!TypeOK, vars, workflowVars, bookVars
  <2>2. BooksStand'
    BY <1>6 DEF IInv, BooksStand, vars, bookVars
  <2>3. StepsEarned'
    BY <1>6 DEF IInv, StepsEarned, OneAtATime, AllSucceed, vars, workflowVars, bookVars
  <2> QED
    BY <2>1, <2>2, <2>3 DEF IInv
<1> QED
  BY <1>1, <1>2, <1>3, <1>4, <1>5, <1>6 DEF Next

\* The invariant holds in every reachable state.
THEOREM IInvHolds == Spec => []IInv
BY InitIInv, NextIInv, PTL DEF Spec

\* A plan reported as a success, other than by best effort, ran every function
\* of its steps to its end and got a result from each.
THEOREM SuccessIsEarnedHolds == Spec => []SuccessIsEarned
<1>1. IInv => SuccessIsEarned
  <2> SUFFICES ASSUME IInv, NEW p \in completed,
                      result[p].success /\ kind[p] # "best_effort",
                      NEW i \in Indexes(p)
               PROVE  answer[<<p, i>>] = "result" /\ fn[<<p, i>>] = "ended"
    BY DEF SuccessIsEarned
  <2>1. <<p, i>> \in Steps
    BY StepPairs DEF IInv, TypeOK
  <2>2. step[<<p, i>>] = "succeeded"
    BY DEF IInv, StepsEarned, AllSucceed
  <2> QED
    BY <2>1, <2>2 DEF IInv, StepsEarned
<1> QED
  BY <1>1, IInvHolds, PTL

\* The functions of a fail-fast sequential plan run one after another, and none
\* after one that failed.
THEOREM OneAtATimeHolds == Spec => []OneAtATime
<1>1. IInv => OneAtATime
  BY DEF IInv, StepsEarned
<1> QED
  BY <1>1, IInvHolds, PTL

\* The counters agree with the books, and no plan is in both.
THEOREM BooksBalanceHolds == Spec => []BooksBalance
<1>1. IInv => BooksBalance
  BY DEF IInv, TypeOK, BooksStand, BooksBalance
<1> QED
  BY <1>1, IInvHolds, PTL

\* The result of a completed plan is final.
THEOREM CompletedIsFinalHolds == Spec => CompletedIsFinal
<1> DEFINE Final == \A p \in completed : p \in completed' /\ result'[p] = result[p]
<1>1. IInv /\ [Next]_vars => [Final]_vars
  <2> SUFFICES ASSUME IInv, Next, NEW p \in completed
               PROVE  p \in completed' /\ result'[p] = result[p]
    BY DEF vars
  <2>1. /\ p \in Plans /\ p \notin active /\ plan[p] # "running"
        /\ result \in [Plans -> Results]
    BY DEF IInv, TypeOK, BooksStand, Results
  <2>2. CASE Stop
    BY <2>1, <2>2 DEF Stop, Marked, bookVars
  <2>3. CASE WorkflowProgress
    BY <2>3 DEF WorkflowProgress, bookVars
  <2>4. ASSUME NEW q \in Plans, Finish(q) \/ CancelParallel(q)
        PROVE  p \in completed' /\ result'[p] = result[p]
    <3>1. q # p /\ completed \subseteq completed'
      BY <2>1, <2>4 DEF Finish, CancelParallel, Close
    <3> QED
      BY <2>1, <2>4, <3>1 DEF Finish, CancelParallel
  <2>5. ASSUME NEW q \in Plans,
               \/ Execute(q) \/ Announced(q) \/ Published(q)
               \/ CancelSequential(q) \/ CancelPublication(q)
        PROVE  p \in completed' /\ result'[p] = result[p]
    BY <2>5 DEF Execute, Announced, Published, CancelSequential, CancelPublication, bookVars
  <2>6. ASSUME NEW q \in Plans, NEW i \in Indexes(q),
               \/ StartStep(q, i) \/ Scheduled(<<q, i>>)
               \/ StepAnswered(<<q, i>>) \/ StepTimesOut(<<q, i>>)
        PROVE  p \in completed' /\ result'[p] = result[p]
    BY <2>6 DEF StartStep, Scheduled, StepAnswered, StepTimesOut, StepMoves, bookVars
  <2> QED
    BY <2>2, <2>3, <2>4, <2>5, <2>6 DEF Next, Advance, Delivered, Cancel
<1>2. Spec => [][Final]_vars
  BY <1>1, IInvHolds, PTL DEF Spec
<1> QED
  BY <1>2 DEF CompletedIsFinal
=============================================================================
