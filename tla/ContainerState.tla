----------------------------- MODULE ContainerState -----------------------------
(***************************************************************************)
(* What DependencyContainer keeps: the bindings, their instances and locks *)
(* and the resolve() calls of the threads, and what must be true of them.  *)
(***************************************************************************)
EXTENDS Naturals, SequencesExt

CONSTANTS
    Threads,
    Containers, Keys,
    Bindings,   \* Binding objects, each made by one bind_...()
    Place,      \* binding -> <<its container, its key>>
    Singletons, \* bindings of mode SINGLETON, the others make a new object
    Given,      \* singletons made by bind_instance()
    Overriding, \* bindings made with allow_override
    Needs,      \* binding -> what its factory resolves: a sequence of places
    Requests,   \* places that threads resolve from outside a factory
    Chain,      \* container -> itself, its parent, the parent's parent, ...
    Absent      \* nothing: None

Places == Containers \X Keys

ASSUME ContainerAssumption ==
    /\ Given \subseteq Singletons /\ Singletons \subseteq Bindings
    /\ Requests \subseteq Places
    /\ Place \in [Bindings -> Places]
    /\ \A b \in Bindings : Needs[b] \in Seq(Places)
    /\ \A c \in Containers : Chain[c] \in Seq(Containers)
    /\ Absent \notin Threads \cup Bindings

VARIABLES
    table,      \* _bindings of every container
    bound,      \* history: the bindings made so far
    seeding,    \* bind_instance() calls between _bind() and their assignment
    instance,   \* Binding._instance: the thread that made it, or the binding given it
    lock,       \* who holds Binding._lock
    frames,     \* thread -> the resolve() calls it is in, outermost first
    raising     \* thread -> the exception under way

containerVars == <<table, bound, seeding, instance, lock, frames, raising>>

Frames == [binding: Bindings, at: {"checking", "locking", "making"}, todo: Seq(Places)]

ContainerTypeOK ==
    /\ table \in [Places -> Bindings \cup {Absent}]
    /\ bound \subseteq Bindings
    /\ seeding \subseteq bound \cap Given
    /\ instance \in [Bindings -> Threads \cup Given \cup {Absent}]
    /\ lock \in [Bindings -> Threads \cup {Absent}]
    /\ frames \in [Threads -> Seq(Frames)]
    /\ raising \in [Threads -> {"nothing", "circular", "missing", "failed"}]

-----------------------------------------------------------------------------
Calls(t) == frames[t] # <<>> /\ raising[t] = "nothing"
Top(t)   == Last(frames[t])

Making(t, b) == \E i \in DOMAIN frames[t] : frames[t][i].binding = b /\ frames[t][i].at = "making"
WaitsFor(t, b) == Calls(t) /\ Top(t).at = "locking" /\ Top(t).binding = b

\* The factory of a singleton runs on one thread at a time, inside the
\* binding's lock, and the lock is given back however the factory is left.  No
\* thread ever waits for a lock it holds itself, whatever the factories of
\* several containers need of each other: the lock is not reentrant.
OneMaker ==
    /\ ContainerTypeOK
    /\ \A b \in Singletons, t \in Threads : lock[b] = t <=> Making(t, b)
    /\ \A t \in Threads, b \in Bindings : WaitsFor(t, b) => lock[b] # t

\* The instance of a singleton never changes once a thread may have been
\* handed it, unless a bind_instance() competes for the same key: it may store
\* its instance in the binding that overrode its own.
Contested(b) == \E g \in Given : g # b /\ Place[g] = Place[b]

OneInstance ==
    [][\A b \in Bindings :
          instance[b] # Absent /\ ~Contested(b) => instance'[b] = instance[b]]_containerVars

\* dependency_container.py:169: a cycle raises CircularDependencyError, so there
\* are no threads each of which waits for a lock that one of them holds.
NoCircularWait ==
    \A S \in SUBSET Threads : S # {} =>
        \E t \in S : \A u \in S, b \in Bindings : ~(WaitsFor(t, b) /\ lock[b] = u)

\* The factory of b may be handed d when it resolves what it needs: d is bound
\* at one of the places where a need of b is looked up.
MayMeet(b, d) ==
    \E p \in ToSet(Needs[b]) : \E i \in DOMAIN Chain[p[1]] : Place[d] = <<Chain[p[1]][i], p[2]>>

\* No singleton needs itself, through whatever else: the bindings have ranks
\* that no need increases, and the need of a singleton decreases.
Ranked(rank) ==
    \A b, d \in Bindings : MayMeet(b, d) =>
        rank[d] <= rank[b] /\ (d \in Singletons => rank[d] < rank[b])

Acyclic == \E rank \in [Bindings -> Nat] : Ranked(rank)
=============================================================================
