------------------------------ MODULE RuntimeState ------------------------------
(***************************************************************************)
(* RuntimeStateStore of core/runtime_state.py: the phase that threads      *)
(* change under an RLock, and the observers they notify after releasing    *)
(* it.  A step is what a thread does while it holds the lock, or one call  *)
(* of an observer; between two steps any other thread may run.             *)
(***************************************************************************)
EXTENDS PhaseStoreState

vars == <<phase, history, observers, call, seen, since>>

Init ==
    /\ phase = "uninitialized"
    /\ history = <<"uninitialized">>
    /\ observers = <<>>
    /\ call = [th \in Threads |-> Idle]
    /\ seen = [o \in Observers |-> <<>>]
    /\ since = [o \in Observers |-> 0]

-----------------------------------------------------------------------------
\* Variant: the guard of transition_if_current is trusted.
AllowedOnceGuarded(expected, from, target) ==
    target \in VALID_TRANSITIONS[IF expected = "any" THEN from ELSE expected]
Allowed(expected, from, target) == target \in VALID_TRANSITIONS[from]

\* The locked part of transition(); the observers are copied under the lock.
Commit(th, expected, target) ==
    /\ Allowed(expected, phase, target)
    /\ Len(history) <= MaxTransitions
    /\ phase' = target
    /\ history' = Append(history, target)
    /\ call' = [call EXCEPT ![th] =
                  Notifying(expected, phase, Len(history) + 1, observers)]
    /\ UNCHANGED <<observers, seen, since>>

\* An illegal target raises IllegalTransitionError and changes nothing.
Transition(th, target) ==
    /\ call[th] = Idle
    /\ Commit(th, "any", target)

\* `if self._phase != expected: return None`, after which the lock is
\* released and only then taken again by transition().
CheckCurrent(th, expected, target) ==
    /\ call[th] = Idle
    /\ phase = expected
    /\ call' = [call EXCEPT ![th] = Guarded(expected, target)]
    /\ UNCHANGED <<phase, history, observers, seen, since>>

TransitionGuarded(th) ==
    /\ call[th].at = "guarded"
    /\ Commit(th, call[th].expected, call[th].target)

\* Another thread made the target illegal: IllegalTransitionError.
GuardedRaises(th) ==
    /\ call[th].at = "guarded"
    /\ ~Allowed(call[th].expected, phase, call[th].target)
    /\ call' = [call EXCEPT ![th] = Idle]
    /\ UNCHANGED <<phase, history, observers, seen, since>>

\* Variant: an observer that raises ends the loop.
RestAfterRaise(rest) == {Tail(rest), <<>>}
\* An exception of an observer is logged and the next one is called.
RestAfter(rest) == {Tail(rest)}

\* One observer is called, on the thread of the transition, without the lock.
Notify(th) ==
    LET c == call[th] IN
    /\ c.at = "notifying"
    /\ c.rest # <<>>
    /\ seen' = [seen EXCEPT ![Head(c.rest)] = Append(@, c.n)]
    /\ \E rest \in RestAfter(c.rest) : call' = [call EXCEPT ![th].rest = rest]
    /\ UNCHANGED <<phase, history, observers, since>>

Return(th) ==
    /\ call[th].at = "notifying"
    /\ call[th].rest = <<>>
    /\ call' = [call EXCEPT ![th] = Idle]
    /\ UNCHANGED <<phase, history, observers, seen, since>>

\* An observer is added once: a removed one does not come back.
AddObserver(o) ==
    /\ since[o] = 0
    /\ observers' = Append(observers, o)
    /\ since' = [since EXCEPT ![o] = Len(history)]
    /\ UNCHANGED <<phase, history, call, seen>>

\* Added once, the observer has one entry to drop.
RemoveObserver(o) ==
    /\ \E i \in 1..Len(observers) :
         /\ observers[i] = o
         /\ observers' = SubSeq(observers, 1, i - 1) \o SubSeq(observers, i + 1, Len(observers))
    /\ UNCHANGED <<phase, history, call, seen, since>>

Next ==
    \/ \E th \in Threads :
         \/ \E target \in RuntimePhase : Transition(th, target)
         \/ \E g \in GuardedCalls : CheckCurrent(th, g[1], g[2])
         \/ TransitionGuarded(th) \/ GuardedRaises(th) \/ Notify(th) \/ Return(th)
    \/ \E o \in Observers : AddObserver(o) \/ RemoveObserver(o)

Spec == Init /\ [][Next]_vars

-----------------------------------------------------------------------------
\* A STOPPED runtime stays stopped, and one that is STOPPING only stops.
NoWayBack ==
    [][/\ phase = "stopped" => phase' = "stopped"
       /\ phase = "stopping" => phase' \in {"stopping", "stopped"}]_vars
=============================================================================
