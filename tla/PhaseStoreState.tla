---------------------------- MODULE PhaseStoreState ----------------------------
(***************************************************************************)
(* What RuntimeState keeps: the phase, its history, the observers and the  *)
(* calls that are under way, and what must be true of them at any time.    *)
(***************************************************************************)
EXTENDS Naturals, Sequences, RuntimePhases

CONSTANTS
    Threads,
    Observers,
    GuardedCalls,   \* the <<expected, target>> that transition_if_current is given
    MaxTransitions  \* bound on the transitions of a behaviour

ASSUME StateAssumption ==
    /\ GuardedCalls \subseteq RuntimePhase \X RuntimePhase
    /\ MaxTransitions \in Nat

VARIABLES
    phase,      \* _phase
    history,    \* the phases of _history
    observers,  \* _observers, in the order of registration
    call,       \* where each thread stands in transition[_if_current]
    seen,       \* the positions in history of what each observer was told
    since       \* Len(history) when the observer was added; 0: never added

Idle == [at |-> "idle"]
\* transition_if_current(expected, target) between its guard and transition().
Guarded(expected, target) == [at |-> "guarded", expected |-> expected, target |-> target]
\* transition() after the lock: record n, reached from `from`, is still to be
\* shown to the observers in `rest`.  `expected` is "any" for a plain call.
Notifying(expected, from, n, rest) ==
    [at |-> "notifying", expected |-> expected, from |-> from, n |-> n, rest |-> rest]

Calls ==
    {Idle}
    \cup [at: {"guarded"}, expected: RuntimePhase, target: RuntimePhase]
    \cup [at: {"notifying"}, expected: RuntimePhase \cup {"any"}, from: RuntimePhase,
          n: Nat, rest: Seq(Observers)]

StoreTypeOK ==
    /\ phase \in RuntimePhase
    /\ history \in Seq(RuntimePhase)
    /\ observers \in Seq(Observers)
    /\ call \in [Threads -> Calls]
    /\ seen \in [Observers -> Seq(Nat)]
    /\ since \in [Observers -> Nat]

-----------------------------------------------------------------------------
\* The history is a path of the transition graph that ends in the current
\* phase, whatever threads race and whatever phase their guards saw.
HistoryIsPath ==
    /\ Len(history) > 0
    /\ phase = history[Len(history)]
    /\ \A i \in 1..(Len(history) - 1) : history[i + 1] \in VALID_TRANSITIONS[history[i]]

\* What the proofs add to it.
IInv == StoreTypeOK /\ HistoryIsPath

Registered(o) == \E i \in 1..Len(observers) : observers[i] = o

\* No observer is told twice of the same transition, nor of one that was made
\* before it was added; and once the threads are through, one that was never
\* removed was told of every transition since, even if another one raised.
ToldOnceEach ==
    /\ \A o \in Observers :
         /\ \A i, j \in 1..Len(seen[o]) : seen[o][i] = seen[o][j] => i = j
         /\ \A i \in 1..Len(seen[o]) : since[o] < seen[o][i] /\ seen[o][i] <= Len(history)
    /\ (\A th \in Threads : call[th].at # "notifying") =>
         \A o \in Observers : Registered(o) =>
             \A n \in (since[o] + 1)..Len(history) :
                 \E i \in 1..Len(seen[o]) : seen[o][i] = n
=============================================================================
