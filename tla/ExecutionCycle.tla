----------------------------- MODULE ExecutionCycle -----------------------------
(***************************************************************************)
(* One execution of core/execution_cycle.py.  transition() calls its       *)
(* observers one after another while it is still under way, and an         *)
(* observer may itself call transition(), complete(), fail(), cancel(),    *)
(* timeout() or add_observer(): calls nest, on a single thread.            *)
(***************************************************************************)
EXTENDS Naturals, SequencesExt

CONSTANTS
    Observers,  \* callables, each added once
    MaxTrail    \* bound on the audit trail: the repair loop has no end

ASSUME CycleAssumption == MaxTrail \in Nat

Phases == {"created", "planning", "retrieving", "executing", "verifying", "repairing",
           "finalizing", "completed", "failed", "cancelled", "timed_out"}
Terminal == {"completed", "failed", "cancelled", "timed_out"}

\* EXECUTION_TRANSITIONS
Allowed ==
    [p \in Phases |->
        CASE p = "created"    -> {"planning", "cancelled"}
          [] p = "planning"   -> {"retrieving", "failed", "cancelled"}
          [] p = "retrieving" -> {"executing", "failed", "cancelled"}
          [] p = "executing"  -> {"verifying", "repairing", "failed", "cancelled", "timed_out"}
          [] p = "verifying"  -> {"finalizing", "repairing", "failed", "cancelled"}
          [] p = "repairing"  -> {"executing", "failed", "cancelled"}
          [] p = "finalizing" -> {"completed", "failed"}
          [] p \in Terminal   -> {}]

VARIABLES
    phase, trail,       \* phase, audit_trail
    began, ended,       \* whether started_at and ended_at are set
    repairs,            \* repair_attempts
    result, error,      \* whether they are set
    observers,          \* _observers
    calls,              \* the transition() calls under way, outermost first
    told,               \* history: what each observer was told of, in order
    joined              \* history: how long the trail was when he was added

cycle == <<phase, trail, began, ended, repairs>>
vars == <<cycle, result, error, observers, calls, told, joined>>

\* `entry` is the call's place in the trail; observer `next` runs just now.
Calls == [entry: 1..MaxTrail, next: Nat \ {0}]

TypeOK ==
    /\ phase \in Phases
    /\ trail \in Seq([from: Phases, to: Phases]) /\ Len(trail) <= MaxTrail
    /\ began \in BOOLEAN /\ ended \in BOOLEAN /\ result \in BOOLEAN /\ error \in BOOLEAN
    /\ repairs \in Nat
    /\ observers \in Seq(Observers)
    /\ calls \in Seq(Calls)
    /\ told \in [Observers -> Seq(1..MaxTrail)]
    /\ joined \in [Observers -> 0..MaxTrail]

Init ==
    /\ phase = "created" /\ trail = <<>>
    /\ began = FALSE /\ ended = FALSE
    /\ repairs = 0
    /\ result = FALSE /\ error = FALSE
    /\ observers = <<>> /\ calls = <<>>
    /\ told = [o \in Observers |-> <<>>]
    /\ joined = [o \in Observers |-> 0]

-----------------------------------------------------------------------------
\* Variant: the loop goes on from where the innermost call left it.
CallsAfterShared(cs) ==
    IF Last(cs).next <= Len(observers) THEN cs
    ELSE [i \in DOMAIN Front(cs) |-> [cs[i] EXCEPT !.next = Last(cs).next]]
\* A call that has told every observer returns.
CallsAfter(cs) == IF Last(cs).next <= Len(observers) THEN cs ELSE Front(cs)

\* The innermost of the calls cs tells its next observer, or returns.
Notify(cs) ==
    /\ calls' = CallsAfter(cs)
    /\ told' = IF Last(cs).next <= Len(observers)
               THEN [told EXCEPT ![observers[Last(cs).next]] = Append(@, Last(cs).entry)]
               ELSE told

\* Variant: a repair is counted when it is over.
RepairsAfterLate(target) == IF phase = "repairing" THEN repairs + 1 ELSE repairs
RepairsAfter(target) == IF target = "repairing" THEN repairs + 1 ELSE repairs

\* transition(target), by the program or by the observer that runs just now.
Enter(target) ==
    /\ Len(trail) < MaxTrail
    /\ trail' = Append(trail, [from |-> phase, to |-> target])
    /\ phase' = target
    /\ began' = (began \/ (phase = "created" /\ target = "planning"))
    /\ ended' = (ended \/ target \in Terminal)
    /\ repairs' = RepairsAfter(target)
    /\ Notify(Append(calls, [entry |-> Len(trail) + 1, next |-> 1]))
    /\ UNCHANGED <<observers, joined>>

\* A transition that is not allowed raises and leaves the cycle as it is.
Refuse == UNCHANGED <<cycle, observers, calls, told, joined>>

Transition(target) ==
    /\ target \in Allowed[phase]
    /\ Enter(target)
    /\ UNCHANGED <<result, error>>

\* The result and the error are written before the transition is tried.
Complete ==
    /\ result' = TRUE
    /\ IF "completed" \in Allowed[phase] THEN Enter("completed") ELSE Refuse
    /\ UNCHANGED error

Fail ==
    /\ error' = TRUE
    /\ IF "failed" \in Allowed[phase] THEN Enter("failed") ELSE Refuse
    /\ UNCHANGED result

\* An observer returns, or raises, which is the same to the others.
ObserverEnds ==
    /\ calls # <<>>
    /\ Notify(Append(Front(calls), [Last(calls) EXCEPT !.next = @ + 1]))
    /\ UNCHANGED <<cycle, result, error, observers, joined>>

AddObserver(o) ==
    /\ o \notin ToSet(observers)
    /\ observers' = Append(observers, o)
    /\ joined' = [joined EXCEPT ![o] = Len(trail)]
    /\ UNCHANGED <<cycle, result, error, calls, told>>

Next ==
    \/ Complete \/ Fail \/ ObserverEnds
    \/ \E target \in Phases : Transition(target)
    \/ \E o \in Observers : AddObserver(o)

Spec == Init /\ [][Next]_vars

-----------------------------------------------------------------------------
(* Properties *)

\* The audit trail is a path of EXECUTION_TRANSITIONS from CREATED to the
\* current phase, and the counters and time stamps are what it says, at every
\* moment an observer may look, however deep its own transitions nest.  No
\* phase is entered twice without a repair in between: "States form a DAG - no
\* cycles" (execution_cycle.py:8) is true of the table but for EXECUTING and
\* VERIFYING, from which REPAIRING leads back to EXECUTING.  Nor does the
\* table have the edge from REPAIRING to FINALIZING that
\* docs/RUNTIME_EXECUTION_FLOW.md:73-82 draws in its place.
TrailIsPath ==
    /\ TypeOK
    /\ \A i \in DOMAIN trail :
         /\ trail[i].to \in Allowed[trail[i].from]
         /\ trail[i].from = IF i = 1 THEN "created" ELSE trail[i - 1].to
    /\ \A i, j \in DOMAIN trail :
         i < j /\ trail[i].to = trail[j].to => \E k \in i..j : trail[k].to = "repairing"
    /\ phase = IF trail = <<>> THEN "created" ELSE Last(trail).to
    /\ repairs = Cardinality({i \in DOMAIN trail : trail[i].to = "repairing"})
    /\ ended <=> phase \in Terminal
    /\ began <=> \E i \in DOMAIN trail : trail[i].to = "planning"

\* An observer is told of no transition twice, and once all calls have
\* returned he was told of each since he was added, whatever the observers
\* raise, move or add meanwhile.
ToldOfEach ==
    \A o \in ToSet(observers) :
        /\ IsInjective(told[o])
        /\ calls = <<>> => (joined[o] + 1)..Len(trail) \subseteq ToSet(told[o])
=============================================================================
