------------------------------ MODULE ShutdownProofs ------------------------------
(***************************************************************************)
(* The two parts that a shutdown of the runtime relies on: the concurrency *)
(* manager, whose slots and tasks stop() leaves in order, and the          *)
(* supervisor whose shutdown() runs the hooks, stop() of that manager      *)
(* among them.  Proved for any number of tasks, slots, callers and hooks.  *)
(***************************************************************************)
EXTENDS ConcurrencyManager, RuntimeLifecycleState, SequenceLemmas

Supervisor == INSTANCE RuntimeLifecycle

-----------------------------------------------------------------------------
(* The concurrency manager *)

Status == {"none", "new", "running"} \cup InLine \cup Ended

\* Those who have a slot when the jobs stand as f says.
Holders(f) == {j \in Jobs : f[j] \in {"running", "granted"}}

\* Whoever is in line stands there once.
Lined(q, f) ==
    /\ q \in Seq(Jobs) /\ IsInjective(q)
    /\ \A j \in Jobs : j \in ToSet(q) <=> f[j] \in InLine

\* With v slots free, none is missing.
AllThere(v, f) == v \in Nat /\ v + Cardinality(Holders(f)) = MaxConcurrent

\* A free slot beside a waiting job is about to be handed out.
HandsOut(v, f) ==
    v > 0 /\ (\E j \in Jobs : f[j] = "waiting")
        => \E j \in Jobs : f[j] \in {"granted", "withdrawn"}

\* A job is withdrawn because it was asked, and before start() there is none.
Withdrawal == \A j \in Jobs : job[j] = "withdrawn" => j \in asked
NotBefore  == ~started => value = 0 /\ \A j \in Jobs : job[j] = "none"

ManagerInv ==
    /\ TypeOK /\ Lined(waiters, job)
    /\ started => AllThere(value, job)
    /\ HandsOut(value, job) /\ Withdrawal /\ NotBefore
    /\ StopReachesAll

-----------------------------------------------------------------------------
(* Counting slots *)

LEMMA JobsFinite ==
    /\ IsFiniteSet(Jobs)
    /\ \A S \in SUBSET Jobs : IsFiniteSet(S) /\ Cardinality(S) \in Nat
<1>1. IsFiniteSet(Jobs)
  BY ManagerAssumption, FS_Union DEF Jobs
<1> QED
  BY <1>1, FS_Subset, FS_CardinalityType

\* Those that run and those that were granted a slot are different jobs.
LEMMA HoldersSplit ==
    Cardinality(In("running")) + Cardinality(In("granted")) = Cardinality(Holders(job))
<1>1. In("running") \in SUBSET Jobs /\ In("granted") \in SUBSET Jobs
  BY DEF In
<1>2. /\ Holders(job) = In("running") \cup In("granted")
      /\ In("running") \cap In("granted") = {}
  BY DEF Holders, In
<1>3. Cardinality(In("running") \cup In("granted"))
        = Cardinality(In("running")) + Cardinality(In("granted"))
            - Cardinality(In("running") \cap In("granted"))
  BY <1>1, JobsFinite, FS_Union
<1> QED
  BY <1>1, <1>2, <1>3, JobsFinite, FS_EmptySet

\* A job that gets a slot, one that gives it up, and one whose having one does
\* not change.
LEMMA HoldersMove ==
    ASSUME NEW f \in [Jobs -> Status], NEW j \in Jobs, NEW s \in Status
    PROVE  LET g == [f EXCEPT ![j] = s] IN
           /\ g \in [Jobs -> Status]
           /\ f[j] \notin {"running", "granted"} /\ s \in {"running", "granted"} =>
                Cardinality(Holders(g)) = Cardinality(Holders(f)) + 1
           /\ f[j] \in {"running", "granted"} /\ s \notin {"running", "granted"} =>
                Cardinality(Holders(g)) = Cardinality(Holders(f)) - 1
           /\ (f[j] \in {"running", "granted"} <=> s \in {"running", "granted"}) =>
                Holders(g) = Holders(f)
<1> DEFINE g == [f EXCEPT ![j] = s]
<1>1. g \in [Jobs -> Status] /\ g[j] = s /\ \A i \in Jobs : i # j => g[i] = f[i]
  OBVIOUS
<1>2. Holders(f) \in SUBSET Jobs /\ IsFiniteSet(Holders(f))
  BY JobsFinite DEF Holders
<1>3. f[j] \notin {"running", "granted"} /\ s \in {"running", "granted"} =>
        Cardinality(Holders(g)) = Cardinality(Holders(f)) + 1
  <2>1. SUFFICES ASSUME f[j] \notin {"running", "granted"}, s \in {"running", "granted"}
                 PROVE  Cardinality(Holders(g)) = Cardinality(Holders(f)) + 1
    BY Zenon
  <2>2. Holders(g) = Holders(f) \cup {j} /\ j \notin Holders(f)
    BY <1>1, <2>1 DEF Holders
  <2> HIDE DEF g
  <2> QED BY <1>2, <2>2, FS_AddElement
<1>4. f[j] \in {"running", "granted"} /\ s \notin {"running", "granted"} =>
        Cardinality(Holders(g)) = Cardinality(Holders(f)) - 1
  <2>1. SUFFICES ASSUME f[j] \in {"running", "granted"}, s \notin {"running", "granted"}
                 PROVE  Cardinality(Holders(g)) = Cardinality(Holders(f)) - 1
    BY Zenon
  <2>2. Holders(g) = Holders(f) \ {j} /\ j \in Holders(f)
    BY <1>1, <2>1 DEF Holders
  <2> HIDE DEF g
  <2> QED BY <1>2, <2>2, FS_RemoveElement
<1>5. (f[j] \in {"running", "granted"} <=> s \in {"running", "granted"}) =>
        Holders(g) = Holders(f)
  BY <1>1 DEF Holders
<1> QED
  BY <1>1, <1>3, <1>4, <1>5

-----------------------------------------------------------------------------
(* Handing slots out *)

\* The slots go to as many waiting jobs as there are slots for, or to all.
LEMMA HandOutLucky ==
    ASSUME NEW q \in Seq(Jobs), IsInjective(q), NEW v \in Nat, NEW most \in Nat,
           NEW f, HandOut(v, most, q, f)
    PROVE  \E Lucky \in SUBSET {j \in Jobs : f[j] = "waiting"} :
             /\ Cardinality(Lucky) <= v
             /\ value' = v - Cardinality(Lucky)
             /\ job' = [j \in Jobs |-> IF j \in Lucky THEN "granted" ELSE f[j]]
             /\ \/ Cardinality(Lucky) = v
                \/ Cardinality(Lucky) = most
                \/ \A j \in ToSet(q) : f[j] = "waiting" => j \in Lucky
<1> DEFINE Line == {i \in DOMAIN q : f[q[i]] = "waiting"}
<1>1. PICK First \in SUBSET Line :
        /\ Cardinality(First) = Min({v, most, Cardinality(Line)})
        /\ value' = v - Cardinality(First)
        /\ job' = [j \in Jobs |-> IF \E i \in First : q[i] = j THEN "granted" ELSE f[j]]
  BY DEF HandOut
<1>2. PICK Lucky : Lucky = {q[i] : i \in First}
  OBVIOUS
<1>3. First \in SUBSET DOMAIN q /\ Line \in SUBSET DOMAIN q
  BY <1>1
<1>4. /\ IsFiniteSet(Line) /\ IsFiniteSet(First)
      /\ Cardinality(Lucky) = Cardinality(First)
  <2>1. \A D \in SUBSET DOMAIN q : IsFiniteSet(D) /\ Cardinality(D) = Cardinality({q[i] : i \in D})
    BY JobsFinite, ElementsAt
  <2> HIDE DEF Line
  <2> QED BY <1>2, <1>3, <2>1
<1>5. Cardinality(Line) \in Nat
  BY <1>4, FS_CardinalityType
<1>6. /\ Cardinality(First) \in {v, most, Cardinality(Line)}
      /\ Cardinality(First) <= v
  BY <1>1, <1>5, MinElement
<1>7. Lucky \in SUBSET {j \in Jobs : f[j] = "waiting"}
  <2>1. \A i \in First : q[i] \in Jobs /\ f[q[i]] = "waiting"
    BY <1>1, ElementOfSeq, LenProperties
  <2> QED BY <1>2, <2>1
<1>8. job' = [j \in Jobs |-> IF j \in Lucky THEN "granted" ELSE f[j]]
  BY <1>1, <1>2
<1>9. Cardinality(First) = Cardinality(Line) => \A j \in ToSet(q) : f[j] = "waiting" => j \in Lucky
  <2>1. Cardinality(First) = Cardinality(Line) => First = Line
    BY <1>4, FS_Subset
  <2>2. \A j \in ToSet(q) : f[j] = "waiting" => \E i \in Line : q[i] = j
    BY DEF ToSet
  <2> QED BY <1>2, <2>1, <2>2
<1> QED
  BY <1>1, <1>4, <1>6, <1>7, <1>8, <1>9

\* Nothing is lost on the way, and if slots are left nobody is left waiting.
LEMMA HandOutKeeps ==
    ASSUME NEW q, NEW v \in Nat, NEW most \in {1, v}, NEW f \in [Jobs -> Status],
           Lined(q, f), AllThere(v, f), HandOut(v, most, q, f)
    PROVE  /\ job' \in [Jobs -> Status] /\ value' \in 0..MaxConcurrent
           /\ Lined(q, job') /\ AllThere(value', job') /\ HandsOut(value', job')
           /\ \A j \in Jobs : job'[j] = f[j] \/ (f[j] = "waiting" /\ job'[j] = "granted")
<1>1. PICK Lucky \in SUBSET {j \in Jobs : f[j] = "waiting"} :
        /\ Cardinality(Lucky) <= v
        /\ value' = v - Cardinality(Lucky)
        /\ job' = [j \in Jobs |-> IF j \in Lucky THEN "granted" ELSE f[j]]
        /\ \/ Cardinality(Lucky) = v
           \/ Cardinality(Lucky) = most
           \/ \A j \in ToSet(q) : f[j] = "waiting" => j \in Lucky
  BY HandOutLucky DEF Lined
<1>2. Cardinality(Lucky) \in Nat /\ IsFiniteSet(Lucky)
  BY <1>1, JobsFinite
<1>3. \A j \in Jobs : /\ j \in Lucky => f[j] = "waiting" /\ job'[j] = "granted"
                      /\ j \notin Lucky => job'[j] = f[j]
  BY <1>1
<1>4. job' \in [Jobs -> Status]
  BY <1>1 DEF Status, InLine
<1>5. Lined(q, job')
  BY <1>3 DEF Lined, InLine
<1>6. AllThere(value', job')
  <2>1. Holders(job') = Holders(f) \cup Lucky /\ Holders(f) \cap Lucky = {}
    BY <1>1, <1>3 DEF Holders
  <2>2. Holders(f) \in SUBSET Jobs
    BY DEF Holders
  <2>3. Cardinality(Holders(f) \cup Lucky)
          = Cardinality(Holders(f)) + Cardinality(Lucky) - Cardinality(Holders(f) \cap Lucky)
    BY <1>2, <2>2, JobsFinite, FS_Union
  <2>4. Cardinality(Holders(job')) = Cardinality(Holders(f)) + Cardinality(Lucky)
    BY <1>2, <2>1, <2>2, <2>3, JobsFinite, FS_EmptySet
  <2> QED BY <1>1, <1>2, <2>2, <2>4, JobsFinite, ManagerAssumption DEF AllThere
<1>7. value' \in 0..MaxConcurrent
  <2>1. Holders(job') \in SUBSET Jobs
    BY DEF Holders
  <2> QED BY <1>6, <2>1, JobsFinite, ManagerAssumption DEF AllThere
<1>8. HandsOut(value', job')
  <2>1. SUFFICES ASSUME value' > 0, NEW j \in Jobs, job'[j] = "waiting"
                 PROVE  \E i \in Jobs : job'[i] \in {"granted", "withdrawn"}
    BY DEF HandsOut
  <2>2. j \in ToSet(q) /\ f[j] = "waiting" /\ j \notin Lucky
    BY <1>3, <2>1 DEF Lined, InLine
  <2>3. Cardinality(Lucky) # v
    BY <1>1, <1>2, <2>1
  <2>4. Cardinality(Lucky) = 1
    BY <1>1, <2>2, <2>3
  <2>5. \E i \in Lucky : TRUE
    BY <2>4, FS_EmptySet
  <2> QED BY <1>1, <1>3, <2>5
<1>9. \A j \in Jobs : job'[j] = f[j] \/ (f[j] = "waiting" /\ job'[j] = "granted")
  BY <1>1, <1>3
<1> QED
  BY <1>4, <1>5, <1>6, <1>7, <1>8, <1>9
-----------------------------------------------------------------------------
(* Every step keeps the invariant *)

LEMMA ManagerInit == Init => ManagerInv
<1> SUFFICES ASSUME Init PROVE ManagerInv
  OBVIOUS
<1>1. /\ started = FALSE /\ stopped = FALSE /\ job = [j \in Jobs |-> "none"]
      /\ asked = {} /\ token = {} /\ value = 0 /\ waiters = <<>>
      /\ drain = [d \in Drains |-> "none"] /\ pending = [d \in Drains |-> {}]
  BY DEF Init
<1>2. Lined(waiters, job)
  <2>1. waiters \in Seq(Jobs) /\ DOMAIN waiters = {}
    BY <1>1
  <2>2. \A j \in Jobs : job[j] \notin InLine /\ j \notin ToSet(waiters)
    BY <1>1, <2>1 DEF InLine, ToSet
  <2> QED BY <2>1, <2>2 DEF Lined, IsInjective
<1>3. value \in 0..MaxConcurrent
  BY <1>1, ManagerAssumption
<1>4. TypeOK
  BY <1>1, <1>2, <1>3 DEF TypeOK, Lined
<1>5. HandsOut(value, job) /\ Withdrawal /\ NotBefore
  BY <1>1 DEF HandsOut, Withdrawal, NotBefore
<1>6. StopReachesAll
  BY <1>1 DEF StopReachesAll
<1> QED
  BY <1>1, <1>2, <1>4, <1>5, <1>6 DEF ManagerInv

\* What the first three conjuncts say of the variables one by one.
LEMMA TypeFacts ==
    ASSUME ManagerInv
    PROVE  /\ job \in [Jobs -> Status] /\ asked \subseteq Jobs /\ token \subseteq Tracked
           /\ value \in Nat /\ Lined(waiters, job)
           /\ Tracked \subseteq Jobs /\ Bounded \subseteq Jobs
           /\ MaxConcurrent \in Nat \ {0}
<1>1. TypeOK /\ Lined(waiters, job)
  BY DEF ManagerInv
<1>2. MaxConcurrent \in Nat \ {0}
  BY ManagerAssumption
<1>3. value \in Nat
  <2>1. value \in 0..MaxConcurrent
    BY <1>1, Zenon DEF TypeOK
  <2> QED BY <1>2, <2>1
<1>4. Tracked \subseteq Jobs /\ Bounded \subseteq Jobs
  BY DEF Jobs
<1>5. job \in [Jobs -> Status] /\ asked \subseteq Jobs /\ token \subseteq Tracked
  BY <1>1 DEF TypeOK, Status
<1> QED
  BY <1>1, <1>2, <1>3, <1>4, <1>5

LEMMA StartKeeps == ASSUME ManagerInv, Start PROVE ManagerInv'
<1>1. /\ ~started /\ started' = TRUE /\ value' = MaxConcurrent
      /\ UNCHANGED <<stopped, job, asked, token, waiters, drain, pending>>
  BY DEF Start, drains
<1>2. \A j \in Jobs : job[j] = "none"
  BY <1>1 DEF ManagerInv, NotBefore
<1>3. Holders(job) = {}
  BY <1>2 DEF Holders
<1>4. AllThere(value', job')
  BY <1>1, <1>3, FS_EmptySet, ManagerAssumption DEF AllThere
<1>5. TypeOK' /\ Lined(waiters', job')
  <2>1. MaxConcurrent \in 0..MaxConcurrent
    BY TypeFacts
  <2> QED BY <1>1, <2>1 DEF ManagerInv, TypeOK, Lined
<1>6. HandsOut(value', job') /\ Withdrawal' /\ NotBefore'
  BY <1>1, <1>2 DEF ManagerInv, HandsOut, Withdrawal, NotBefore
<1>7. StopReachesAll'
  BY <1>1 DEF ManagerInv, StopReachesAll, Unfinished, Over
<1> QED
  BY <1>4, <1>5, <1>6, <1>7 DEF ManagerInv

LEMMA SpawnKeeps == ASSUME ManagerInv, NEW j \in Tracked, Spawn(j) PROVE ManagerInv'
<1>1. /\ started /\ ~stopped /\ job[j] = "none" /\ job' = [job EXCEPT ![j] = "new"]
      /\ UNCHANGED <<started, stopped, asked, token, value, waiters, drain, pending>>
  BY DEF Spawn, Running, flags, semaphore, drains
<1>2. j \in Jobs /\ job \in [Jobs -> Status]
  BY TypeFacts
<1>3. job' \in [Jobs -> Status] /\ Holders(job') = Holders(job)
  BY <1>1, <1>2, HoldersMove DEF Status
<1>4. \A i \in Jobs : job'[i] = job[i] \/ (i = j /\ job'[i] = "new" /\ job[i] = "none")
  BY <1>1, <1>2
<1>5. Lined(waiters', job')
  BY <1>1, <1>4 DEF ManagerInv, Lined, InLine
<1>6. TypeOK'
  BY <1>1, <1>3, <1>5 DEF ManagerInv, TypeOK, Lined, Status
<1>7. AllThere(value', job')
  BY <1>1, <1>3 DEF ManagerInv, AllThere
<1>8. HandsOut(value', job') /\ Withdrawal' /\ NotBefore'
  BY <1>1, <1>4 DEF ManagerInv, HandsOut, Withdrawal, NotBefore
<1>9. StopReachesAll'
  BY <1>1 DEF StopReachesAll
<1> QED
  BY <1>5, <1>6, <1>7, <1>8, <1>9 DEF ManagerInv

\* A job that was not in line gets a slot or lines up.
LEMMA AcquireKeeps ==
    ASSUME ManagerInv, started, NEW j \in Jobs, job[j] \in {"none", "new"}, Acquire(j),
           UNCHANGED <<started, stopped, asked, token, drain, pending>>,
           stopped => j \notin Tracked
    PROVE  ManagerInv'
<1>1. /\ job \in [Jobs -> Status] /\ value \in Nat /\ Lined(waiters, job)
      /\ value \in 0..MaxConcurrent /\ MaxConcurrent \in Nat
  BY TypeFacts DEF ManagerInv, TypeOK
<1>2. j \notin ToSet(waiters)
  BY <1>1 DEF Lined, InLine
<1>3. AllThere(value, job) /\ HandsOut(value, job)
  BY DEF ManagerInv
<1>4. \E s \in {"running", "waiting"} : job' = [job EXCEPT ![j] = s]
  BY DEF Acquire
<1>5. /\ job' \in [Jobs -> Status] /\ job'[j] \in {"running", "waiting"}
      /\ \A i \in Jobs : i # j => job'[i] = job[i]
  BY <1>1, <1>4 DEF Status, InLine
<1>6. /\ Lined(waiters', job') /\ value' \in 0..MaxConcurrent
      /\ AllThere(value', job') /\ HandsOut(value', job')
  <2>1. CASE /\ value > 0 /\ \A i \in DOMAIN waiters : job[waiters[i]] = "withdrawn"
             /\ value' = value - 1 /\ job' = [job EXCEPT ![j] = "running"] /\ waiters' = waiters
    <3>1. Cardinality(Holders(job')) = Cardinality(Holders(job)) + 1
      BY <1>1, <2>1, HoldersMove DEF Status
    <3>2. Holders(job) \in SUBSET Jobs
      BY DEF Holders
    <3>3. AllThere(value', job')
      BY <1>1, <1>3, <2>1, <3>1, <3>2, JobsFinite DEF AllThere
    <3>4. \A i \in Jobs : job'[i] # "waiting"
      <4>1. \A i \in Jobs : i \in ToSet(waiters) => job[i] = "withdrawn"
        BY <2>1 DEF ToSet
      <4>2. \A i \in Jobs : job[i] = "waiting" => i \in ToSet(waiters)
        BY <1>1 DEF Lined, InLine
      <4> QED BY <1>1, <2>1, <4>1, <4>2
    <3>5. Lined(waiters', job')
      BY <1>1, <1>2, <2>1 DEF Lined, InLine
    <3> QED BY <1>1, <2>1, <3>3, <3>4, <3>5 DEF HandsOut
  <2>2. CASE /\ ~(value > 0 /\ \A i \in DOMAIN waiters : job[waiters[i]] = "withdrawn")
             /\ waiters' = Append(waiters, j) /\ job' = [job EXCEPT ![j] = "waiting"]
             /\ value' = value
    <3>1. Holders(job') = Holders(job)
      BY <1>1, <2>2, HoldersMove DEF Status, InLine
    <3>2. AllThere(value', job')
      BY <1>3, <2>2, <3>1 DEF AllThere
    <3>3. Lined(waiters', job')
      <4>1. waiters' \in Seq(Jobs) /\ IsInjective(waiters')
        BY <1>1, <1>2, <2>2, AppendElements, AppendKeepsInjective DEF Lined
      <4>2. ToSet(waiters') = ToSet(waiters) \cup {j}
        BY <1>1, <2>2, AppendElements DEF Lined
      <4>3. \A i \in Jobs : job'[i] \in InLine <=> job[i] \in InLine \/ i = j
        BY <1>1, <2>2 DEF InLine
      <4> QED BY <1>1, <4>1, <4>2, <4>3 DEF Lined
    <3>4. HandsOut(value', job')
      <4>1. SUFFICES ASSUME value > 0
                     PROVE  \E i \in Jobs : job'[i] \in {"granted", "withdrawn"}
        BY <2>2 DEF HandsOut
      <4>2. PICK i \in DOMAIN waiters : job[waiters[i]] # "withdrawn"
        BY <2>2, <4>1
      <4>3. waiters[i] \in ToSet(waiters) /\ waiters[i] \in Jobs
        BY <1>1, <4>2, ElementOfSeq, LenProperties DEF ToSet, Lined
      <4>4. job[waiters[i]] \in {"waiting", "granted"}
        BY <1>1, <4>2, <4>3 DEF Lined, InLine
      <4>5. \E k \in Jobs : job[k] \in {"granted", "withdrawn"}
        BY <1>3, <4>1, <4>3, <4>4 DEF HandsOut
      <4> QED BY <1>5, <4>5
    <3> QED BY <1>1, <2>2, <3>2, <3>3, <3>4
  <2> QED BY <2>1, <2>2 DEF Acquire
<1>7. TypeOK'
  BY <1>5, <1>6 DEF ManagerInv, TypeOK, Lined, Status
<1>8. Withdrawal' /\ NotBefore'
  BY <1>5 DEF ManagerInv, Withdrawal, NotBefore
<1>9. StopReachesAll'
  BY <1>5 DEF ManagerInv, StopReachesAll, Unfinished, Over, Jobs, Ended
<1> QED
  BY <1>6, <1>7, <1>8, <1>9 DEF ManagerInv
\* A job j goes on or ends, and the slots that are free then are handed out.
LEMMA PassingOnKeeps ==
    ASSUME ManagerInv, started, NEW j \in Jobs, NEW s \in {"running"} \cup Ended, NEW A \in SUBSET {j},
           NEW v \in Nat, NEW most \in {1, v},
           Lined(waiters', [job EXCEPT ![j] = s]), AllThere(v, [job EXCEPT ![j] = s]),
           HandOut(v, most, waiters', [job EXCEPT ![j] = s]), Forget(A),
           UNCHANGED <<started, stopped, drain, pending>>,
           stopped /\ j \in Tracked => s \in Ended
    PROVE  ManagerInv'
<1> DEFINE f == [job EXCEPT ![j] = s]
<1>1. job \in [Jobs -> Status]
  BY TypeFacts
<1>2. f \in [Jobs -> Status] /\ f[j] = s /\ \A i \in Jobs : i # j => f[i] = job[i]
  BY <1>1 DEF Status
<1>3. /\ job' \in [Jobs -> Status] /\ value' \in 0..MaxConcurrent
      /\ Lined(waiters', job') /\ AllThere(value', job') /\ HandsOut(value', job')
      /\ \A i \in Jobs : job'[i] = f[i] \/ (f[i] = "waiting" /\ job'[i] = "granted")
  <2>1. /\ Lined(waiters', f) /\ AllThere(v, f) /\ HandOut(v, most, waiters', f)
    OBVIOUS
  <2> HIDE DEF f
  <2> QED BY <1>2, <2>1, HandOutKeeps
<1>4. job'[j] = s /\ s # "waiting" /\ s # "withdrawn"
  BY <1>2, <1>3 DEF Ended
<1>5. \A i \in Jobs : i # j => job'[i] = job[i] \/ (job[i] = "waiting" /\ job'[i] = "granted")
  BY <1>2, <1>3
<1>6. asked' = asked \ A /\ token' = token \ A
  BY DEF Forget
<1>7. TypeOK'
  BY <1>3, <1>6 DEF ManagerInv, TypeOK, Lined, Status
<1>8. Withdrawal' /\ NotBefore'
  BY <1>4, <1>5, <1>6 DEF ManagerInv, Withdrawal, NotBefore
<1>9. StopReachesAll'
  <2>1. SUFFICES ASSUME stopped, NEW i \in Tracked, job'[i] # "none", job'[i] \notin Ended
                 PROVE  i \in asked' /\ i \in token'
    BY DEF StopReachesAll, Unfinished, Over
  <2>2. i \in Jobs /\ i # j
    BY <1>4, <2>1 DEF Jobs
  <2>3. i \in Unfinished
    BY <1>5, <2>1, <2>2 DEF Unfinished, Over, Ended
  <2> QED BY <1>6, <2>1, <2>2, <2>3 DEF ManagerInv, StopReachesAll
<1> QED
  BY <1>3, <1>7, <1>8, <1>9 DEF ManagerInv

LEMMA BeginKeeps == ASSUME ManagerInv, NEW j \in Tracked, Begin(j) PROVE ManagerInv'
<1>1. /\ job[j] = "new" /\ j \in Jobs /\ started
      /\ UNCHANGED <<started, stopped, drain, pending>>
  BY TypeFacts DEF Begin, flags, drains, ManagerInv, NotBefore
<1>2. CASE j \in asked
  <2>1. /\ job' = [job EXCEPT ![j] = "cancelled"] /\ UNCHANGED <<value, waiters>>
        /\ asked' = asked \ {j} /\ token' = token \ {j}
    BY <1>2 DEF Begin, Forget, semaphore
  <2>2. job \in [Jobs -> Status]
    BY TypeFacts
  <2>3. job' \in [Jobs -> Status] /\ Holders(job') = Holders(job)
    BY <1>1, <2>1, <2>2, HoldersMove DEF Status, Ended
  <2>4. job'[j] = "cancelled" /\ \A i \in Jobs : i # j => job'[i] = job[i]
    BY <1>1, <2>1, <2>2
  <2>5. Lined(waiters', job') /\ HandsOut(value', job')
    BY <1>1, <2>1, <2>4 DEF ManagerInv, Lined, HandsOut, InLine
  <2>6. TypeOK'
    BY <1>1, <2>1, <2>3, <2>5 DEF ManagerInv, TypeOK, Lined, Status
  <2>7. AllThere(value', job')
    BY <1>1, <2>1, <2>3 DEF ManagerInv, AllThere
  <2>8. Withdrawal' /\ NotBefore'
    BY <1>1, <2>1, <2>4 DEF ManagerInv, Withdrawal, NotBefore
  <2>9. StopReachesAll'
    BY <1>1, <2>1, <2>4 DEF ManagerInv, StopReachesAll, Unfinished, Over, Ended, Jobs
  <2> QED BY <2>5, <2>6, <2>7, <2>8, <2>9 DEF ManagerInv
<1>3. CASE j \notin asked
  <2>1. Acquire(j) /\ UNCHANGED <<asked, token>>
    BY <1>3 DEF Begin, Forget
  <2>2. ~stopped
    BY <1>1, <1>3 DEF ManagerInv, StopReachesAll, Unfinished, Over, Ended
  <2> QED BY <1>1, <2>1, <2>2, AcquireKeeps
<1> QED
  BY <1>2, <1>3

LEMMA RunBoundedKeeps == ASSUME ManagerInv, NEW j \in Bounded, RunBounded(j) PROVE ManagerInv'
<1>1. /\ started /\ ~stopped /\ job[j] = "none" /\ Acquire(j) /\ j \in Jobs
      /\ UNCHANGED <<started, stopped, asked, token, drain, pending>>
  BY TypeFacts DEF RunBounded, Running, flags, drains
<1> QED
  BY <1>1, AcquireKeeps

LEMMA CoroutineEndsKeeps == ASSUME ManagerInv, NEW j \in Jobs, CoroutineEnds(j) PROVE ManagerInv'
<1>1. PICK s \in Ended :
        /\ job[j] = "running" /\ HandOut(value + 1, 1, waiters, [job EXCEPT ![j] = s])
        /\ Forget({j}) /\ UNCHANGED <<started, stopped, waiters, drain, pending>>
  BY DEF CoroutineEnds, Release, flags, drains
<1>2. /\ job \in [Jobs -> Status] /\ value \in Nat /\ Lined(waiters, job)
      /\ MaxConcurrent \in Nat
  BY TypeFacts
<1>3. started /\ AllThere(value, job)
  BY <1>1 DEF ManagerInv, NotBefore
<1>4. s \in Status /\ s \notin {"running", "granted"} /\ s \notin InLine
  BY <1>1 DEF Status, Ended, InLine
<1>5. AllThere(value + 1, [job EXCEPT ![j] = s])
  <2>1. Cardinality(Holders([job EXCEPT ![j] = s])) = Cardinality(Holders(job)) - 1
    BY <1>1, <1>2, <1>4, HoldersMove
  <2>2. Holders(job) \in SUBSET Jobs
    BY DEF Holders
  <2> QED BY <1>2, <1>3, <2>1, <2>2, JobsFinite DEF AllThere
<1>6. Lined(waiters', [job EXCEPT ![j] = s])
  BY <1>1, <1>2, <1>4 DEF Lined, InLine
<1>7. value + 1 \in Nat /\ 1 \in {1, value + 1} /\ s \in {"running"} \cup Ended
  BY <1>2
<1>8. HandOut(value + 1, 1, waiters', [job EXCEPT ![j] = s])
  BY <1>1
<1>9. {j} \in SUBSET {j}
  OBVIOUS
<1> QED
  BY <1>1, <1>3, <1>5, <1>6, <1>7, <1>8, <1>9, PassingOnKeeps

LEMMA ResumeKeeps == ASSUME ManagerInv, NEW j \in Jobs, Resume(j) PROVE ManagerInv'
<1> DEFINE free == value + Returned(j)
           s == IF j \in asked THEN "cancelled" ELSE "running"
           f == [job EXCEPT ![j] = s]
<1>1. /\ job[j] \in {"granted", "withdrawn"}
      /\ HandOut(free, free, waiters', f) /\ Forget({j} \cap asked)
      /\ UNCHANGED <<started, stopped, drain, pending>>
  BY DEF Resume, flags, drains
<1>2. PICK k \in DOMAIN waiters : waiters[k] = j /\ waiters' = RemoveAt(waiters, k)
  BY DEF Resume
<1>3. /\ job \in [Jobs -> Status] /\ value \in Nat /\ Lined(waiters, job)
      /\ MaxConcurrent \in Nat
  BY TypeFacts
<1>4. started /\ AllThere(value, job) /\ (job[j] = "withdrawn" => j \in asked)
  BY <1>1 DEF ManagerInv, NotBefore, Withdrawal
<1>5. s \in Status /\ s \notin InLine /\ s \in {"running"} \cup Ended
  BY DEF Status, Ended, InLine
<1>6. Lined(waiters', f)
  <2>1. waiters \in Seq(Jobs) /\ IsInjective(waiters) /\ k \in 1..Len(waiters)
    BY <1>2, <1>3, LenProperties DEF Lined
  <2>2. /\ waiters' \in Seq(Jobs) /\ IsInjective(waiters')
        /\ ToSet(waiters') = ToSet(waiters) \ {j}
    BY <1>2, <2>1, RemoveAtTakesOut
  <2>3. \A i \in Jobs : f[i] \in InLine <=> job[i] \in InLine /\ i # j
    BY <1>3, <1>5
  <2> HIDE DEF f
  <2> QED BY <1>3, <2>2, <2>3 DEF Lined
<1>7. AllThere(free, f) /\ free \in Nat
  <2>1. Holders(job) \in SUBSET Jobs
    BY DEF Holders
  <2>2. CASE job[j] = "granted" /\ j \in asked
    <3>1. free = value + 1 /\ f = [job EXCEPT ![j] = "cancelled"]
      BY <2>2 DEF Returned
    <3>2. Cardinality(Holders(f)) = Cardinality(Holders(job)) - 1
      <4>1. "cancelled" \in Status /\ "cancelled" \notin {"running", "granted"}
        BY DEF Status, Ended
      <4> QED BY <1>3, <2>2, <3>1, <4>1, HoldersMove
    <3> QED BY <1>3, <1>4, <2>1, <3>1, <3>2, JobsFinite DEF AllThere
  <2>3. CASE job[j] = "granted" /\ j \notin asked
    <3>1. free = value + 0 /\ f = [job EXCEPT ![j] = "running"]
      BY <2>3 DEF Returned
    <3>2. Holders(f) = Holders(job)
      BY <1>3, <2>3, <3>1, HoldersMove DEF Status
    <3> QED BY <1>3, <1>4, <3>1, <3>2 DEF AllThere
  <2>4. CASE job[j] = "withdrawn"
    <3>1. free = value + 0 /\ f = [job EXCEPT ![j] = "cancelled"]
      BY <1>4, <2>4 DEF Returned
    <3>2. Holders(f) = Holders(job)
      BY <1>3, <2>4, <3>1, HoldersMove DEF Status, Ended
    <3> QED BY <1>3, <1>4, <3>1, <3>2 DEF AllThere
  <2> QED BY <1>1, <2>2, <2>3, <2>4
<1>8. stopped /\ j \in Tracked => s \in Ended
  <2>1. stopped /\ j \in Tracked => j \in asked
    BY <1>1 DEF ManagerInv, StopReachesAll, Unfinished, Over, Ended
  <2> QED BY <2>1 DEF Ended
<1>9. free \in {1, free} /\ {j} \cap asked \in SUBSET {j}
  OBVIOUS
<1> HIDE DEF free, s
<1> QED
  BY <1>1, <1>4, <1>5, <1>6, <1>7, <1>8, <1>9, PassingOnKeeps

\* Whoever is cancelled stays where it is, with its slot if it has one.
LEMMA CancelKeeps ==
    ASSUME ManagerInv, NEW S \in SUBSET Jobs, Cancel(S), UNCHANGED <<started, value, waiters>>,
           token \subseteq token', token' \subseteq Tracked, stopped' \in BOOLEAN,
           stopped' => stopped \/ (Unfinished \subseteq S /\ Unfinished \subseteq token'),
           drain' \in [Drains -> {"none", "waiting", "giving up", "returned", "raised"}],
           pending' \in [Drains -> SUBSET Tracked]
    PROVE  ManagerInv'
<1>1. /\ job \in [Jobs -> Status] /\ asked \subseteq Jobs
      /\ asked' = asked \cup {j \in S : ~Over(j)}
      /\ job' = [j \in Jobs |-> IF j \in S /\ job[j] = "waiting" THEN "withdrawn" ELSE job[j]]
  BY TypeFacts DEF Cancel
<1>2. \A j \in Jobs : \/ job'[j] = job[j]
                      \/ j \in S /\ job[j] = "waiting" /\ job'[j] = "withdrawn"
  BY <1>1
<1>3. job' \in [Jobs -> Status] /\ asked' \subseteq Jobs
  BY <1>1 DEF Status, InLine
<1>4. Lined(waiters', job')
  BY <1>2 DEF ManagerInv, Lined, InLine
<1>5. Holders(job') = Holders(job)
  BY <1>2 DEF Holders
<1>6. started' => AllThere(value', job')
  BY <1>5 DEF ManagerInv, AllThere
<1>7. TypeOK'
  BY <1>3, <1>4 DEF ManagerInv, TypeOK, Lined, Status
<1>8. HandsOut(value', job')
  <2>1. SUFFICES ASSUME value > 0, NEW j \in Jobs, job'[j] = "waiting"
                 PROVE  \E i \in Jobs : job'[i] \in {"granted", "withdrawn"}
    BY DEF HandsOut
  <2>2. job[j] = "waiting"
    BY <1>2, <2>1
  <2>3. PICK i \in Jobs : job[i] \in {"granted", "withdrawn"}
    BY <2>1, <2>2 DEF ManagerInv, HandsOut
  <2> QED BY <1>2, <2>3
<1>9. Withdrawal' /\ NotBefore'
  BY <1>1, <1>2 DEF ManagerInv, Withdrawal, NotBefore, Over, Ended
<1>10. StopReachesAll'
  <2>1. SUFFICES ASSUME stopped', NEW i \in Tracked, job'[i] # "none", job'[i] \notin Ended
                 PROVE  i \in asked' /\ i \in token'
    BY DEF StopReachesAll, Unfinished, Over
  <2>2. i \in Unfinished /\ ~Over(i)
    BY <1>2, <2>1 DEF Unfinished, Over, Ended, Jobs
  <2> QED BY <1>1, <2>1, <2>2 DEF ManagerInv, StopReachesAll
<1> QED
  BY <1>4, <1>6, <1>7, <1>8, <1>9, <1>10 DEF ManagerInv

LEMMA CancellingKeeps ==
    ASSUME ManagerInv,
           \/ \E j \in Tracked : CancelTask(j)
           \/ CancelAll \/ Stop
           \/ \E j \in Bounded : CallerCancelled(j)
           \/ \E d \in Drains : GiveUp(d)
    PROVE  ManagerInv'
<1>1. /\ Unfinished \subseteq Tracked /\ Tracked \subseteq Jobs /\ Bounded \subseteq Jobs
      /\ token \subseteq Tracked /\ stopped \in BOOLEAN
      /\ drain \in [Drains -> {"none", "waiting", "giving up", "returned", "raised"}]
      /\ pending \in [Drains -> SUBSET Tracked]
  BY TypeFacts DEF ManagerInv, TypeOK, Unfinished
<1>2. ASSUME NEW j \in Tracked, CancelTask(j) PROVE ManagerInv'
  <2>1. /\ Cancel({j}) /\ token' = token \cup {j}
        /\ UNCHANGED <<started, stopped, value, waiters, drain, pending>>
    BY <1>2 DEF CancelTask, flags, semaphore, drains
  <2>2. {j} \in SUBSET Jobs /\ token \subseteq token' /\ token' \subseteq Tracked
    BY <1>1, <2>1
  <2> QED BY <1>1, <2>1, <2>2, CancelKeeps
<1>3. CASE CancelAll
  <2>1. /\ Cancel(Unfinished) /\ token' = token \cup Unfinished
        /\ UNCHANGED <<started, stopped, value, waiters, drain, pending>>
    BY <1>3 DEF CancelAll, flags, semaphore, drains
  <2>2. Unfinished \in SUBSET Jobs /\ token \subseteq token' /\ token' \subseteq Tracked
    BY <1>1, <2>1
  <2> QED BY <1>1, <2>1, <2>2, CancelKeeps
<1>4. CASE Stop
  <2>1. /\ stopped' = TRUE /\ Cancel(Unfinished) /\ token' = token \cup Unfinished
        /\ UNCHANGED <<started, value, waiters, drain, pending>>
    BY <1>4 DEF Stop, StopTargets, semaphore, drains
  <2>2. /\ Unfinished \in SUBSET Jobs /\ token \subseteq token' /\ token' \subseteq Tracked
        /\ Unfinished \subseteq token' /\ stopped' \in BOOLEAN
    BY <1>1, <2>1
  <2> QED BY <1>1, <2>1, <2>2, CancelKeeps
<1>5. ASSUME NEW j \in Bounded, CallerCancelled(j) PROVE ManagerInv'
  <2>1. Cancel({j}) /\ UNCHANGED <<started, stopped, token, value, waiters, drain, pending>>
    BY <1>5 DEF CallerCancelled, flags, semaphore, drains
  <2>2. {j} \in SUBSET Jobs
    BY <1>1
  <2> QED BY <1>1, <2>1, <2>2, CancelKeeps
<1>6. ASSUME NEW d \in Drains, GiveUp(d) PROVE ManagerInv'
  <2>1. /\ Cancel(pending[d]) /\ drain' = [drain EXCEPT ![d] = "giving up"]
        /\ UNCHANGED <<started, stopped, token, value, waiters, pending>>
    BY <1>6 DEF GiveUp, flags, semaphore
  <2>2. /\ pending[d] \in SUBSET Jobs
        /\ drain' \in [Drains -> {"none", "waiting", "giving up", "returned", "raised"}]
    BY <1>1, <2>1
  <2> QED BY <1>1, <2>1, <2>2, CancelKeeps
<1> QED
  BY <1>2, <1>3, <1>4, <1>5, <1>6

\* The parts of the invariant that drain() could touch are the typing alone.
LEMMA DrainsKeep ==
    ASSUME ManagerInv, UNCHANGED <<started, stopped, job, asked, token, value, waiters>>,
           drain' \in [Drains -> {"none", "waiting", "giving up", "returned", "raised"}],
           pending' \in [Drains -> SUBSET Tracked]
    PROVE  ManagerInv'
<1>1. TypeOK'
  BY DEF ManagerInv, TypeOK
<1>2. Lined(waiters', job') /\ (started' => AllThere(value', job')) /\ HandsOut(value', job')
  BY DEF ManagerInv
<1>3. Withdrawal' /\ NotBefore' /\ StopReachesAll'
  BY DEF ManagerInv, Withdrawal, NotBefore, StopReachesAll, Unfinished, Over
<1> QED
  BY <1>1, <1>2, <1>3 DEF ManagerInv

LEMMA ManagerNext == ASSUME ManagerInv, [Next]_vars PROVE ManagerInv'
<1>1. /\ drain \in [Drains -> {"none", "waiting", "giving up", "returned", "raised"}]
      /\ pending \in [Drains -> SUBSET Tracked]
      /\ Unfinished \subseteq Tracked
  BY DEF ManagerInv, TypeOK, Unfinished
<1>2. CASE \E j \in Tracked : Spawn(j) \/ Begin(j) \/ CancelTask(j)
  BY <1>2, SpawnKeeps, BeginKeeps, CancellingKeeps
<1>3. CASE \E j \in Bounded : RunBounded(j) \/ CallerCancelled(j)
  BY <1>3, RunBoundedKeeps, CancellingKeeps
<1>4. CASE \E j \in Jobs : Resume(j) \/ CoroutineEnds(j)
  BY <1>4, ResumeKeeps, CoroutineEndsKeeps
<1>5. ASSUME NEW d \in Drains, Drain(d) PROVE ManagerInv'
  <2>1. /\ pending' = [pending EXCEPT ![d] = Unfinished]
        /\ drain' = [drain EXCEPT ![d] = IF Unfinished = {} THEN "returned" ELSE "waiting"]
        /\ UNCHANGED <<started, stopped, job, asked, token, value, waiters>>
    BY <1>5 DEF Drain, flags, semaphore
  <2>2. /\ drain' \in [Drains -> {"none", "waiting", "giving up", "returned", "raised"}]
        /\ pending' \in [Drains -> SUBSET Tracked]
    BY <1>1, <2>1
  <2> QED BY <2>1, <2>2, DrainsKeep
<1>6. ASSUME NEW d \in Drains, DrainEnds(d) PROVE ManagerInv'
  <2>1. /\ drain' = [drain EXCEPT ![d] = IF @ = "waiting" THEN "returned" ELSE "raised"]
        /\ UNCHANGED <<started, stopped, job, asked, token, value, waiters, pending>>
    BY <1>6 DEF DrainEnds, flags, semaphore
  <2>2. drain' \in [Drains -> {"none", "waiting", "giving up", "returned", "raised"}]
    BY <1>1, <2>1
  <2> QED BY <1>1, <2>1, <2>2, DrainsKeep
<1>7. CASE UNCHANGED vars
  <2>1. UNCHANGED <<started, stopped, job, asked, token, value, waiters, drain, pending>>
    BY <1>7 DEF vars, flags, semaphore, drains
  <2> QED BY <1>1, <2>1, DrainsKeep
<1> QED
  BY <1>2, <1>3, <1>4, <1>5, <1>6, <1>7, StartKeeps, CancellingKeeps DEF Next

-----------------------------------------------------------------------------
(* Theorems *)

\* The invariant of the manager holds in every reachable state.
THEOREM ManagerInvariant == Spec => []ManagerInv
<1>1. Init => ManagerInv
  BY ManagerInit
<1>2. ManagerInv /\ [Next]_vars => ManagerInv'
  BY ManagerNext
<1> QED
  BY <1>1, <1>2, PTL DEF Spec

\* The semaphore's count is right in every state, for any number of jobs and
\* any max_concurrent: no slot is lost, none is used twice, and no job waits
\* beside a free slot that nobody is about to hand out.
THEOREM SlotsAccountedHolds == Spec => []SlotsAccounted
<1>1. ManagerInv => SlotsAccounted
  <2>1. SUFFICES ASSUME ManagerInv PROVE SlotsAccounted
    OBVIOUS
  <2>2. In("running") \in SUBSET Jobs /\ In("granted") \in SUBSET Jobs
    BY DEF In
  <2>3. started =>
          value + Cardinality(In("running")) + Cardinality(In("granted")) = MaxConcurrent
    BY <2>1, <2>2, HoldersSplit, JobsFinite, TypeFacts DEF ManagerInv, AllThere
  <2>4. value > 0 /\ In("waiting") # {} => In("granted") \cup In("withdrawn") # {}
    BY <2>1 DEF ManagerInv, HandsOut, In
  <2> QED BY <2>1, <2>3, <2>4 DEF ManagerInv, SlotsAccounted
<1> QED
  BY <1>1, ManagerInvariant, PTL

\* stop() reaches every task, whatever it is doing, and none is added later.
THEOREM StopReachesAllHolds == Spec => []StopReachesAll
<1>1. ManagerInv => StopReachesAll
  BY DEF ManagerInv
<1> QED
  BY <1>1, ManagerInvariant, PTL

-----------------------------------------------------------------------------
(* The supervisor *)

\* Where a runtime may be once start() is through.
Live == {"running", "paused", "draining", "stopping", "stopped", "faulted"}

CallStates == {"idle", "announcing", "draining", "hooks", "stopping", "stopped", "returned",
               "cancelled"}

\* The caller was let past the flag.
Acts(c) == call[c] \notin {"idle", "returned"} \/ current[c] # 1

\* One caller at most was let past.
OneActs ==
    /\ ~initiated => \A c \in Callers : call[c] = "idle"
    /\ \A c \in Callers : call[c] = "idle" => current[c] = 1
    /\ \A c, d \in Callers : c # d => ~Acts(c) \/ ~Acts(d)

\* Exactly the hooks before the current one have ended.
HooksInOrder ==
    /\ \A c \in Callers : \A h \in Hooks : ended[c][h] # "no" <=> h < current[c]
    /\ \A c \in Callers : call[c] \in {"stopping", "stopped"} => current[c] = HookCount + 1

\* The phase keeps up with the call, and nothing takes it back.
PhaseFollows ==
    /\ startup = "none" => ~built
    /\ ~built => ~complete /\ \A c \in Callers : call[c] = "idle"
    /\ startup = "done" =>
         /\ phase \in Live
         /\ \A c \in Callers : call[c] = "stopping" => phase \in {"stopping", "stopped"}
         /\ \A c \in Callers : call[c] = "stopped" => phase = "stopped"
         /\ complete => phase = "stopped"
    /\ phase = "stopped" => \E c \in Callers : current[c] = HookCount + 1

LifecycleInv == LifecycleTypeOK /\ OneActs /\ HooksInOrder /\ PhaseFollows

-----------------------------------------------------------------------------
\* What a supervised transition can do to the phase, whichever it aims at.
LEMMA SuperviseMoves ==
    ASSUME phase \in RuntimePhase, NEW target \in Live, Supervisor!Supervise(target)
    PROVE  /\ phase' \in RuntimePhase
           /\ phase \in Live => phase' \in Live
           /\ phase = "stopped" => phase' = "stopped"
           /\ phase \in {"stopping", "stopped"} => phase' \in {"stopping", "stopped"}
           /\ phase' = "stopped" => phase = "stopped" \/ target = "stopped"
           /\ target = "stopping" /\ phase \in Live => phase' \in {"stopping", "stopped"}
           /\ target = "stopped" /\ phase \in {"stopping", "stopped"} => phase' = "stopped"
<1>1. CASE target \notin VALID_TRANSITIONS[phase] /\ phase' = phase
  BY <1>1 DEF VALID_TRANSITIONS, RuntimePhase, Live
<1>2. CASE target \in VALID_TRANSITIONS[phase] /\ phase' = target
  BY <1>2 DEF VALID_TRANSITIONS, RuntimePhase, Live
<1> QED
  BY <1>1, <1>2 DEF Supervisor!Supervise, Supervisor!VALID_TRANSITIONS, VALID_TRANSITIONS,
                     Supervisor!RuntimePhase, RuntimePhase

LEMMA LifecycleInit == Supervisor!Init => LifecycleInv
<1> SUFFICES ASSUME Supervisor!Init PROVE LifecycleInv
  OBVIOUS
<1>1. LifecycleTypeOK
  <2>1. 0 \in 0..MaxPauses /\ 1 \in 1..(HookCount + 1) /\ phase \in RuntimePhase
    BY LifecycleAssumption DEF Supervisor!Init, RuntimePhase
  <2> QED
    BY <2>1 DEF Supervisor!Init, Supervisor!Hooks, Hooks, LifecycleTypeOK
<1>2. OneActs
  BY DEF Supervisor!Init, OneActs, Acts
<1>3. HooksInOrder
  BY LifecycleAssumption DEF Supervisor!Init, HooksInOrder, Supervisor!Hooks, Hooks
<1>4. PhaseFollows
  BY DEF Supervisor!Init, PhaseFollows
<1> QED
  BY <1>1, <1>2, <1>3, <1>4 DEF LifecycleInv

\* The steps of the runtime that leave shutdown() alone.
LEMMA RuntimeKeepsIt ==
    ASSUME LifecycleInv,
           \/ Supervisor!Start \/ Supervisor!StartFails
           \/ Supervisor!Pause \/ Supervisor!Resume \/ Supervisor!MarkFaulted
    PROVE  LifecycleInv'
<1>1. UNCHANGED Supervisor!shutdownVars
  BY
     DEF Supervisor!Start, Supervisor!StartFails, Supervisor!Pause, Supervisor!Resume,
         Supervisor!MarkFaulted
<1>2. OneActs' /\ HooksInOrder'
  BY <1>1 DEF LifecycleInv, OneActs, Acts, HooksInOrder, Supervisor!shutdownVars
<1>3. CASE Supervisor!Start \/ Supervisor!StartFails
  <2>1. /\ startup = "none" /\ ~built /\ ~complete
        /\ \A c \in Callers : call[c] = "idle"
    BY <1>3 DEF LifecycleInv, PhaseFollows, Supervisor!Start, Supervisor!StartFails
  <2>2. /\ phase' \in {"running", "bootstrapping"}
        /\ startup' = "done" => phase' = "running"
        /\ startup' \in {"early failure", "late failure", "done"}
        /\ built' \in BOOLEAN /\ UNCHANGED pauses
    BY <1>3 DEF Supervisor!Start, Supervisor!StartFails
  <2>3. PhaseFollows'
    BY <1>1, <2>1, <2>2 DEF PhaseFollows, Live, Supervisor!shutdownVars
  <2>4. LifecycleTypeOK'
    BY <1>1, <2>2 DEF LifecycleInv, LifecycleTypeOK, RuntimePhase, Supervisor!shutdownVars
  <2> QED
    BY <1>2, <2>3, <2>4 DEF LifecycleInv
<1>4. CASE Supervisor!Pause \/ Supervisor!Resume \/ Supervisor!MarkFaulted
  <2>1. PICK target \in {"paused", "running", "faulted"} : Supervisor!Supervise(target)
    BY <1>4 DEF Supervisor!Pause, Supervisor!Resume, Supervisor!MarkFaulted
  <2>2. /\ phase' \in RuntimePhase
        /\ phase \in Live => phase' \in Live
        /\ phase = "stopped" => phase' = "stopped"
        /\ phase \in {"stopping", "stopped"} => phase' \in {"stopping", "stopped"}
        /\ phase' = "stopped" => phase = "stopped"
    BY <2>1, SuperviseMoves DEF LifecycleInv, LifecycleTypeOK, Live
  <2>3. UNCHANGED <<startup, built>> /\ pauses' \in 0..MaxPauses
    <3>1. pauses \in 0..MaxPauses /\ MaxPauses \in Nat
      BY LifecycleAssumption DEF LifecycleInv, LifecycleTypeOK
    <3>2. pauses < MaxPauses => pauses + 1 \in 0..MaxPauses
      BY <3>1
    <3> QED
      BY <1>4, <3>1, <3>2 DEF Supervisor!Pause, Supervisor!Resume, Supervisor!MarkFaulted
  <2>4. PhaseFollows'
    BY <1>1, <2>2, <2>3 DEF LifecycleInv, PhaseFollows, Supervisor!shutdownVars
  <2>5. LifecycleTypeOK'
    BY <1>1, <2>2, <2>3 DEF LifecycleInv, LifecycleTypeOK, Supervisor!shutdownVars
  <2> QED
    BY <1>2, <2>4, <2>5 DEF LifecycleInv
<1> QED
  BY <1>3, <1>4

\* The flag lets one caller past.
LEMMA ShutdownKeepsIt ==
    ASSUME LifecycleInv, NEW c \in Callers, Supervisor!Shutdown(c)
    PROVE  LifecycleInv'
<1>1. /\ built /\ call[c] = "idle" /\ current[c] = 1 /\ initiated' = TRUE
      /\ call' = [call EXCEPT ![c] = IF Supervisor!First THEN "announcing" ELSE "returned"]
      /\ UNCHANGED <<phase, startup, built, pauses, complete, current, ended>>
      /\ call \in [Callers -> CallStates]
  BY DEF LifecycleInv, LifecycleTypeOK, OneActs, Supervisor!Shutdown, CallStates
<1>2. /\ call'[c] = IF Supervisor!First THEN "announcing" ELSE "returned"
      /\ \A d \in Callers \ {c} : call'[d] = call[d]
      /\ call' \in [Callers -> CallStates]
  BY <1>1 DEF CallStates
<1>3. LifecycleTypeOK'
  BY <1>1, <1>2 DEF LifecycleInv, LifecycleTypeOK, CallStates
<1>4. OneActs'
  <2>1. CASE Supervisor!First
    <3>1. \A d \in Callers \ {c} : call'[d] = "idle" /\ current'[d] = 1
      BY <1>1, <1>2, <2>1 DEF LifecycleInv, OneActs, Supervisor!First
    <3>2. \A d \in Callers \ {c} : ~Acts(d)'
      BY <3>1 DEF Acts
    <3> QED
      BY <1>1, <1>2, <2>1, <3>1, <3>2 DEF OneActs
  <2>2. CASE ~Supervisor!First
    <3>1. ~Acts(c)'
      BY <1>1, <1>2, <2>2 DEF Acts
    <3>2. \A d \in Callers \ {c} : Acts(d)' <=> Acts(d)
      BY <1>1, <1>2 DEF Acts
    <3>3. \A d \in Callers : call'[d] = "idle" => current'[d] = 1
      BY <1>1, <1>2 DEF LifecycleInv, OneActs
    <3> QED
      BY <1>1, <3>1, <3>2, <3>3 DEF LifecycleInv, OneActs
  <2> QED
    BY <2>1, <2>2
<1>5. HooksInOrder'
  BY <1>1, <1>2 DEF LifecycleInv, HooksInOrder
<1>6. PhaseFollows'
  BY <1>1, <1>2 DEF LifecycleInv, PhaseFollows
<1> QED
  BY <1>3, <1>4, <1>5, <1>6 DEF LifecycleInv

\* The caller that was let past moves on, between the hooks or after them.
LEMMA CallMoves ==
    ASSUME LifecycleInv, NEW c \in Callers, NEW x \in CallStates \ {"idle"},
           call[c] \notin {"idle", "returned"}, call' = [call EXCEPT ![c] = x],
           x \in {"stopping", "stopped"} => current[c] = HookCount + 1,
           UNCHANGED <<startup, built, pauses, initiated, current, ended>>,
           phase' \in RuntimePhase, complete' \in BOOLEAN
    PROVE  /\ LifecycleTypeOK' /\ OneActs' /\ HooksInOrder'
           /\ built /\ call'[c] = x /\ \A d \in Callers \ {c} : call'[d] = call[d]
<1>1. /\ call'[c] = x /\ \A d \in Callers \ {c} : call'[d] = call[d]
      /\ call' \in [Callers -> CallStates]
  BY DEF LifecycleInv, LifecycleTypeOK, CallStates
<1>2. LifecycleTypeOK'
  BY <1>1 DEF LifecycleInv, LifecycleTypeOK, CallStates
<1>3. OneActs'
  <2>1. initiated
    BY DEF LifecycleInv, OneActs
  <2>2. \A d \in Callers : Acts(d)' => Acts(d)
    BY <1>1 DEF Acts
  <2>3. \A d \in Callers : call'[d] = "idle" => current'[d] = 1
    BY <1>1 DEF LifecycleInv, OneActs
  <2> QED
    BY <2>1, <2>2, <2>3 DEF LifecycleInv, OneActs
<1>4. HooksInOrder'
  BY <1>1 DEF LifecycleInv, HooksInOrder
<1>5. built
  BY DEF LifecycleInv, PhaseFollows
<1> QED
  BY <1>1, <1>2, <1>3, <1>4, <1>5

\* The transitions of the phase around the hooks.
LEMMA PhaseStepKeepsIt ==
    ASSUME LifecycleInv, NEW c \in Callers,
           \/ Supervisor!MarkDraining(c) \/ Supervisor!RunHooks(c)
           \/ Supervisor!MarkStopping(c) \/ Supervisor!MarkStopped(c)
    PROVE  LifecycleInv'
<1>0. phase \in RuntimePhase /\ complete \in BOOLEAN
  BY DEF LifecycleInv, LifecycleTypeOK
<1>1. CASE Supervisor!MarkDraining(c)
  <2>1. /\ phase' \in RuntimePhase
        /\ phase \in Live => phase' \in Live
        /\ phase = "stopped" => phase' = "stopped"
        /\ phase \in {"stopping", "stopped"} => phase' \in {"stopping", "stopped"}
        /\ phase' = "stopped" => phase = "stopped"
    BY <1>0, <1>1, SuperviseMoves DEF Supervisor!MarkDraining, Live
  <2>2. /\ LifecycleTypeOK' /\ OneActs' /\ HooksInOrder'
        /\ built /\ call'[c] = "draining" /\ \A d \in Callers \ {c} : call'[d] = call[d]
    BY <1>0, <1>1, <2>1, CallMoves DEF Supervisor!MarkDraining, CallStates
  <2>3. PhaseFollows'
    BY <1>1, <2>1, <2>2 DEF LifecycleInv, PhaseFollows, Supervisor!MarkDraining
  <2> QED
    BY <2>2, <2>3 DEF LifecycleInv
<1>2. CASE Supervisor!MarkStopping(c)
  <2>1. /\ phase' \in RuntimePhase
        /\ phase \in Live => phase' \in Live /\ phase' \in {"stopping", "stopped"}
        /\ phase = "stopped" => phase' = "stopped"
        /\ phase' = "stopped" => phase = "stopped"
    BY <1>0, <1>2, SuperviseMoves DEF Supervisor!MarkStopping, Live
  <2>2. /\ LifecycleTypeOK' /\ OneActs' /\ HooksInOrder'
        /\ built /\ call'[c] = "stopping" /\ \A d \in Callers \ {c} : call'[d] = call[d]
    BY <1>0, <1>2, <2>1, CallMoves DEF Supervisor!MarkStopping, CallStates
  <2>3. PhaseFollows'
    BY <1>2, <2>1, <2>2 DEF LifecycleInv, PhaseFollows, Supervisor!MarkStopping
  <2> QED
    BY <2>2, <2>3 DEF LifecycleInv
<1>3. CASE Supervisor!MarkStopped(c)
  <2>1. /\ phase' \in RuntimePhase
        /\ phase \in {"stopping", "stopped"} => phase' = "stopped"
        /\ phase \in Live => phase' \in Live
    BY <1>0, <1>3, SuperviseMoves DEF Supervisor!MarkStopped, Live
  <2>2. current[c] = HookCount + 1
    BY <1>3 DEF LifecycleInv, HooksInOrder, Supervisor!MarkStopped
  <2>3. /\ LifecycleTypeOK' /\ OneActs' /\ HooksInOrder'
        /\ built /\ call'[c] = "stopped" /\ \A d \in Callers \ {c} : call'[d] = call[d]
    BY <1>0, <1>3, <2>1, <2>2, CallMoves DEF Supervisor!MarkStopped, CallStates
  <2>4. PhaseFollows'
    BY <1>3, <2>1, <2>2, <2>3 DEF LifecycleInv, PhaseFollows, Supervisor!MarkStopped
  <2> QED
    BY <2>3, <2>4 DEF LifecycleInv
<1>4. CASE Supervisor!RunHooks(c)
  <2>1. /\ LifecycleTypeOK' /\ OneActs' /\ HooksInOrder'
        /\ built /\ call'[c] = "hooks" /\ \A d \in Callers \ {c} : call'[d] = call[d]
    BY <1>0, <1>4, CallMoves DEF Supervisor!RunHooks, CallStates
  <2>2. PhaseFollows'
    BY <1>4, <2>1 DEF LifecycleInv, PhaseFollows, Supervisor!RunHooks
  <2> QED
    BY <2>1, <2>2 DEF LifecycleInv
<1> QED
  BY <1>1, <1>2, <1>3, <1>4

\* shutdown() ends, completed or not.
LEMMA EndKeepsIt ==
    ASSUME LifecycleInv, NEW c \in Callers, Supervisor!SetComplete(c) \/ Supervisor!ShutdownCancelled(c)
    PROVE  LifecycleInv'
<1>0. phase \in RuntimePhase /\ complete \in BOOLEAN
  BY DEF LifecycleInv, LifecycleTypeOK
<1>1. CASE Supervisor!SetComplete(c)
  <2>1. /\ LifecycleTypeOK' /\ OneActs' /\ HooksInOrder'
        /\ built /\ call'[c] = "returned" /\ \A d \in Callers \ {c} : call'[d] = call[d]
    BY <1>0, <1>1, CallMoves DEF Supervisor!SetComplete, CallStates
  <2>2. PhaseFollows'
    BY <1>1, <2>1 DEF LifecycleInv, PhaseFollows, Supervisor!SetComplete
  <2> QED
    BY <2>1, <2>2 DEF LifecycleInv
<1>2. CASE Supervisor!ShutdownCancelled(c)
  <2>1. /\ LifecycleTypeOK' /\ OneActs' /\ HooksInOrder'
        /\ built /\ call'[c] = "cancelled" /\ \A d \in Callers \ {c} : call'[d] = call[d]
    BY <1>0, <1>2, CallMoves DEF Supervisor!ShutdownCancelled, CallStates
  <2>2. PhaseFollows'
    BY <1>2, <2>1 DEF LifecycleInv, PhaseFollows, Supervisor!ShutdownCancelled
  <2> QED
    BY <2>1, <2>2 DEF LifecycleInv
<1> QED
  BY <1>1, <1>2

\* A hook ends, or the global timeout ends all that are left.
LEMMA HookKeepsIt ==
    ASSUME LifecycleInv, NEW c \in Callers,
           Supervisor!HookReturns(c) \/ Supervisor!HookTimesOut(c) \/ Supervisor!GlobalTimeout(c)
    PROVE  LifecycleInv'
<1> DEFINE How == {"no", "returned", "raised", "timed out", "cut off", "skipped"}
<1>1. /\ call[c] = "hooks" /\ current[c] \in Hooks
      /\ UNCHANGED <<phase, startup, built, pauses, initiated, complete, call>>
      /\ current \in [Callers -> 1..(HookCount + 1)] /\ HookCount \in Nat
      /\ ended \in [Callers -> [Hooks -> How]]
      /\ \A h \in Hooks : ended[c][h] # "no" <=> h < current[c]
  BY LifecycleAssumption
     DEF Supervisor!HookReturns, Supervisor!HookTimesOut, Supervisor!GlobalTimeout,
         Supervisor!HookEnds, Supervisor!Hooks, Hooks, LifecycleInv, LifecycleTypeOK,
         HooksInOrder
<1>a. HookCount \in Nat /\ current[c] \in 1..HookCount
  BY <1>1 DEF Hooks
<1>b. /\ current[c] # HookCount + 1 /\ current[c] + 1 \in 2..(HookCount + 1)
      /\ HookCount + 1 \in 2..(HookCount + 1)
      /\ \A h \in 1..HookCount : h < current[c] \/ h = current[c] <=> h < current[c] + 1
      /\ \A h \in 1..HookCount : h < HookCount + 1
      /\ \A x \in 2..(HookCount + 1) : x \in 1..(HookCount + 1) /\ x # 1
  BY <1>a
<1>2. /\ current'[c] \in 2..(HookCount + 1)
      /\ \A d \in Callers \ {c} : current'[d] = current[d] /\ ended'[d] = ended[d]
      /\ current' \in [Callers -> 1..(HookCount + 1)]
      /\ ended' \in [Callers -> [Hooks -> How]]
      /\ \A h \in Hooks : ended'[c][h] # "no" <=> h < current'[c]
  <2>1. CASE Supervisor!HookReturns(c) \/ Supervisor!HookTimesOut(c)
    <3>1. PICK how \in How \ {"no"} : Supervisor!HookEnds(c, how)
      BY <2>1 DEF Supervisor!HookReturns, Supervisor!HookTimesOut
    <3>2. /\ current'[c] = current[c] + 1
          /\ \A d \in Callers \ {c} : current'[d] = current[d] /\ ended'[d] = ended[d]
          /\ current' \in [Callers -> 1..(HookCount + 1)]
      BY <1>1, <1>b, <3>1 DEF Supervisor!HookEnds
    <3>3. /\ ended' \in [Callers -> [Hooks -> How]]
          /\ ended'[c][current[c]] = how
          /\ \A h \in Hooks \ {current[c]} : ended'[c][h] = ended[c][h]
      BY <1>1, <3>1 DEF Supervisor!HookEnds
    <3>4. \A h \in Hooks : ended'[c][h] # "no" <=> h < current[c] + 1
      <4>1. ASSUME NEW h \in Hooks
            PROVE  ended'[c][h] # "no" <=> h < current[c] \/ h = current[c]
        BY <1>1, <3>1, <3>3
      <4>2. \A h \in Hooks : h < current[c] \/ h = current[c] <=> h < current[c] + 1
        BY <1>b DEF Hooks
      <4> QED
        BY <4>1, <4>2
    <3> QED
      BY <1>b, <3>2, <3>3, <3>4
  <2>2. CASE Supervisor!GlobalTimeout(c)
    <3>1. /\ current'[c] = HookCount + 1
          /\ \A d \in Callers \ {c} : current'[d] = current[d] /\ ended'[d] = ended[d]
          /\ current' \in [Callers -> 1..(HookCount + 1)]
      BY <1>1, <1>b, <2>2 DEF Supervisor!GlobalTimeout
    <3>2. ended'[c] = [h \in Hooks |-> IF h < current[c] THEN ended[c][h]
                                       ELSE IF h = current[c] THEN "cut off" ELSE "skipped"]
      BY <1>1, <2>2 DEF Supervisor!GlobalTimeout, Supervisor!Hooks, Hooks
    <3>3. \A h \in Hooks : ended'[c][h] # "no" /\ ended'[c][h] \in How
      <4>1. \A h \in Hooks : h < current[c] => ended[c][h] # "no" /\ ended[c][h] \in How
        BY <1>1
      <4> QED
        BY <3>2, <4>1
    <3>4. ended' \in [Callers -> [Hooks -> How]]
      <4>1. ended'[c] \in [Hooks -> How]
        BY <3>2, <3>3
      <4> QED
        BY <1>1, <2>2, <4>1 DEF Supervisor!GlobalTimeout
    <3> QED
      <4>1. \A h \in Hooks : h < current'[c]
        BY <1>b, <3>1 DEF Hooks
      <4> QED
        BY <1>b, <3>1, <3>3, <3>4, <4>1
  <2> QED
    BY <2>1, <2>2
<1>3. LifecycleTypeOK'
  BY <1>1, <1>2 DEF LifecycleInv, LifecycleTypeOK
<1>4. OneActs'
  <2>1. \A d \in Callers : Acts(d)' => Acts(d)
    BY <1>1, <1>2 DEF Acts
  <2> QED
    BY <1>1, <1>2, <2>1 DEF LifecycleInv, OneActs
<1>5. HooksInOrder'
  BY <1>1, <1>2 DEF LifecycleInv, HooksInOrder
<1>6. PhaseFollows'
  <2>1. \A d \in Callers : current[d] = HookCount + 1 => current'[d] = HookCount + 1
    BY <1>2, <1>b
  <2> QED
    BY <1>1, <2>1 DEF LifecycleInv, PhaseFollows
<1> QED
  BY <1>3, <1>4, <1>5, <1>6 DEF LifecycleInv

LEMMA LifecycleNext == LifecycleInv /\ [Supervisor!Next]_(Supervisor!vars) => LifecycleInv'
<1> SUFFICES ASSUME LifecycleInv, [Supervisor!Next]_(Supervisor!vars) PROVE LifecycleInv'
  OBVIOUS
<1>1. CASE \/ Supervisor!Start \/ Supervisor!StartFails
           \/ Supervisor!Pause \/ Supervisor!Resume \/ Supervisor!MarkFaulted
  BY <1>1, RuntimeKeepsIt
<1>2. ASSUME NEW c \in Callers, Supervisor!Shutdown(c)
      PROVE  LifecycleInv'
  BY <1>2, ShutdownKeepsIt
<1>3. ASSUME NEW c \in Callers,
             \/ Supervisor!Proceed(c) \/ Supervisor!Delivered(c)
             \/ Supervisor!GlobalTimeout(c) \/ Supervisor!ShutdownCancelled(c)
      PROVE  LifecycleInv'
  BY <1>3, PhaseStepKeepsIt, EndKeepsIt, HookKeepsIt
     DEF Supervisor!Proceed, Supervisor!Delivered
<1>4. CASE UNCHANGED Supervisor!vars
  BY <1>4
     DEF LifecycleInv, LifecycleTypeOK, OneActs, Acts, HooksInOrder, PhaseFollows,
         Supervisor!vars, Supervisor!shutdownVars
<1> QED
  BY <1>1, <1>2, <1>3, <1>4 DEF Supervisor!Next

\* The invariant holds in every reachable state.
THEOREM LifecycleInvariant == Supervisor!Spec => []LifecycleInv
BY LifecycleInit, LifecycleNext, PTL DEF Supervisor!Spec

\* However many callers shut the runtime down, one of them runs the hooks, in
\* the order of their priorities.
THEOREM HooksRunOnceHolds == Supervisor!Spec => []HooksRunOnce
<1>1. LifecycleInv => HooksRunOnce
  <2> SUFFICES ASSUME LifecycleInv PROVE HooksRunOnce
    OBVIOUS
  <2>1. \A c \in Callers : \A h \in Hooks : ended[c][h] # "no" => current[c] # 1
    <3>1. \A h \in Hooks : ~(h < 1)
      BY LifecycleAssumption DEF Hooks
    <3> QED
      BY <3>1 DEF LifecycleInv, HooksInOrder
  <2>2. \A c, d \in Callers : c # d =>
          \A h \in Hooks : ended[c][h] = "no" \/ \A g \in Hooks : ended[d][g] = "no"
    BY <2>1 DEF LifecycleInv, OneActs, Acts
  <2>3. ASSUME NEW c \in Callers, NEW h \in Hooks, ended[c][h] # "no", NEW g \in 1..h
        PROVE  ended[c][g] # "no"
    <3>1. g \in Hooks /\ g <= h /\ h < current[c] /\ current[c] \in Nat
      <4>1. h < current[c] /\ current[c] \in 1..(HookCount + 1)
        BY <2>3 DEF LifecycleInv, LifecycleTypeOK, HooksInOrder
      <4> QED
        BY <2>3, <4>1, LifecycleAssumption DEF Hooks
    <3>2. g < current[c]
      BY <2>3, <3>1 DEF Hooks
    <3> QED
      BY <3>1, <3>2 DEF LifecycleInv, HooksInOrder
  <2> QED
    BY <2>2, <2>3 DEF LifecycleInv, HooksRunOnce
<1> QED
  BY <1>1, LifecycleInvariant, PTL

\* A runtime that had started is STOPPED when its shutdown is complete, and
\* STOPPED only when every hook has ended.
THEOREM CompleteIsStoppedHolds == Supervisor!Spec => []CompleteIsStopped
<1>1. LifecycleInv => CompleteIsStopped
  <2> SUFFICES ASSUME LifecycleInv PROVE CompleteIsStopped
    OBVIOUS
  <2>1. \A h \in Hooks : h < HookCount + 1
    BY LifecycleAssumption DEF Hooks
  <2> QED
    BY <2>1 DEF LifecycleInv, PhaseFollows, HooksInOrder, CompleteIsStopped
<1> QED
  BY <1>1, LifecycleInvariant, PTL

=============================================================================
