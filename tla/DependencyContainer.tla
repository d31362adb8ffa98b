--------------------------- MODULE DependencyContainer ---------------------------
(***************************************************************************)
(* The containers of core/dependency_container.py, used by several threads *)
(* at once.  A factory is external code: it resolves what it needs on its  *)
(* own thread, returns, raises, or catches what a nested resolve() raised. *)
(* The RLock around _bindings makes _bind one step.                        *)
(***************************************************************************)
EXTENDS ContainerState

Init ==
    /\ table = [p \in Places |-> Absent]
    /\ bound = {} /\ seeding = {}
    /\ instance = [b \in Bindings |-> Absent]
    /\ lock = [b \in Bindings |-> Absent]
    /\ frames = [t \in Threads |-> <<>>]
    /\ raising = [t \in Threads |-> "nothing"]

-----------------------------------------------------------------------------
(* bind_singleton, bind_transient, bind_factory, bind_instance *)

\* A key that is bound already makes _bind raise, unless it may override.
Bind(b) ==
    /\ b \notin bound
    /\ table[Place[b]] = Absent \/ b \in Overriding
    /\ table' = [table EXCEPT ![Place[b]] = b]
    /\ bound' = bound \cup {b}
    /\ seeding' = IF b \in Given THEN seeding \cup {b} ELSE seeding
    /\ UNCHANGED <<instance, lock, frames, raising>>

\* bind_instance() looks its binding up again, outside the lock.
Seed(b) ==
    /\ b \in seeding
    /\ seeding' = seeding \ {b}
    /\ instance' = [instance EXCEPT ![table[Place[b]]] = b]
    /\ UNCHANGED <<table, bound, lock, frames, raising>>

-----------------------------------------------------------------------------
(* resolve *)

Stack(t) == {Place[frames[t][i].binding] : i \in DOMAIN frames[t]}

\* Key k from container c upwards: each container looks at its own stack of
\* this thread first, at its own bindings next, and asks its parent last.
LookUp(t, c, k) ==
    LET Hits == {i \in DOMAIN Chain[c] : LET p == <<Chain[c][i], k>>
                                         IN  p \in Stack(t) \/ table[p] # Absent}
        p == <<Chain[c][Min(Hits)], k>>
    IN  IF Hits = {} THEN "missing" ELSE IF p \in Stack(t) THEN "circular" ELSE table[p]

\* The thread enters resolve() of place p on top of the calls fs.
Enter(t, p, fs) ==
    LET b == LookUp(t, p[1], p[2]) IN
    IF b \in {"missing", "circular"}
    THEN /\ raising' = [raising EXCEPT ![t] = b]
         /\ frames' = [frames EXCEPT ![t] = fs]
    ELSE /\ frames' = [frames EXCEPT ![t] =
                         Append(fs, [binding |-> b, todo |-> Needs[b],
                                     at |-> IF b \in Singletons THEN "checking" ELSE "making"])]
         /\ UNCHANGED raising

Resolve(t, p) ==
    /\ frames[t] = <<>> /\ raising[t] = "nothing"
    /\ Enter(t, p, <<>>)
    /\ UNCHANGED <<table, bound, seeding, instance, lock>>

GoTo(t, p) == frames' = [frames EXCEPT ![t] = Append(Front(@), [Last(@) EXCEPT !.at = p])]
Return(t)  == frames' = [frames EXCEPT ![t] = Front(@)]

\* The first look at _instance, without the lock.
Check(t) ==
    /\ Calls(t) /\ Top(t).at = "checking"
    /\ IF instance[Top(t).binding] = Absent THEN GoTo(t, "locking") ELSE Return(t)
    /\ UNCHANGED <<table, bound, seeding, instance, lock, raising>>

\* Variant: the second look is left out.
MadeMeanwhileUnchecked(b) == FALSE
MadeMeanwhile(b) == instance[b] # Absent

\* The thread gets the lock, and gives it back at once if another thread made
\* the instance while it waited.
Acquire(t) ==
    LET b == Top(t).binding IN
    /\ Calls(t) /\ Top(t).at = "locking"
    /\ lock[b] = Absent
    /\ IF MadeMeanwhile(b) THEN Return(t) /\ UNCHANGED lock
                           ELSE GoTo(t, "making") /\ lock' = [lock EXCEPT ![b] = t]
    /\ UNCHANGED <<table, bound, seeding, instance, raising>>

\* The factory resolves the next thing it needs.
Need(t) ==
    /\ Calls(t) /\ Top(t).at = "making" /\ Top(t).todo # <<>>
    /\ Enter(t, Head(Top(t).todo),
             Append(Front(frames[t]), [Top(t) EXCEPT !.todo = Tail(@)]))
    /\ UNCHANGED <<table, bound, seeding, instance, lock>>

\* Variant: an exception leaves the lock behind.
ReleasedUnlessRaising(t) ==
    IF raising[t] # "nothing" THEN lock
    ELSE [b \in Bindings |-> IF b = Top(t).binding THEN Absent ELSE lock[b]]
Released(t) ==
    [b \in Bindings |-> IF b = Top(t).binding /\ lock[b] = t THEN Absent ELSE lock[b]]

\* The factory returns an object; a singleton keeps it.  The factory of
\* bind_instance() returns what it was given.
Make(t) ==
    LET b == Top(t).binding IN
    /\ Calls(t) /\ Top(t).at = "making" /\ Top(t).todo = <<>>
    /\ instance' = IF b \notin Singletons THEN instance
                   ELSE [instance EXCEPT ![b] = IF b \in Given THEN b ELSE t]
    /\ lock' = Released(t)
    /\ Return(t)
    /\ UNCHANGED <<table, bound, seeding, raising>>

FactoryRaises(t) ==
    /\ Calls(t) /\ Top(t).at = "making" /\ Top(t).binding \notin Given
    /\ raising' = [raising EXCEPT ![t] = "failed"]
    /\ lock' = Released(t)
    /\ Return(t)
    /\ UNCHANGED <<table, bound, seeding, instance>>

\* The exception passes through the factory of the call below, or reaches the
\* caller of the outermost resolve().
Unwind(t) ==
    /\ raising[t] # "nothing"
    /\ IF frames[t] = <<>>
       THEN raising' = [raising EXCEPT ![t] = "nothing"] /\ UNCHANGED <<frames, lock>>
       ELSE lock' = Released(t) /\ Return(t) /\ UNCHANGED raising
    /\ UNCHANGED <<table, bound, seeding, instance>>

\* The factory catches it, as with resolve_optional().
Catch(t) ==
    /\ raising[t] # "nothing" /\ frames[t] # <<>>
    /\ raising' = [raising EXCEPT ![t] = "nothing"]
    /\ UNCHANGED <<table, bound, seeding, instance, lock, frames>>

Continue(t) == Check(t) \/ Unwind(t)
FactoryEnds(t) == Need(t) \/ Make(t) \/ FactoryRaises(t)

Next ==
    \/ \E b \in Bindings : Bind(b) \/ Seed(b)
    \/ \E t \in Threads :
         \/ \E p \in Requests : Resolve(t, p)
         \/ Continue(t) \/ Acquire(t) \/ FactoryEnds(t) \/ Catch(t)

Spec == Init /\ [][Next]_containerVars

\* Threads run on.
FairSpec == Spec /\ \A t \in Threads : WF_containerVars(Continue(t))

\* A lock that is free again and again is not withheld from a thread for ever:
\* a premise, threading.Lock does not promise it.
LocksAreFair == \A t \in Threads : SF_containerVars(Acquire(t))

\* Factories go on to the next thing they need, return or raise: a premise.
FactoriesEnd == \A t \in Threads : WF_containerVars(FactoryEnds(t))

-----------------------------------------------------------------------------
(* Properties *)

\* Where no two singletons need each other, and while factories end, every
\* resolve() ends, cycles through transient bindings included.
ResolveEnds ==
    LocksAreFair /\ FactoriesEnd =>
        \A t \in Threads : frames[t] # <<>> ~> frames[t] = <<>>
=============================================================================
