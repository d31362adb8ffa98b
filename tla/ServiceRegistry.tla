---------------------------- MODULE ServiceRegistry ----------------------------
(***************************************************************************)
(* The registry of core/service_registry.py.  start_all() and stop_all()   *)
(* await the services' own start() and stop(): other calls of both, and of *)
(* register(), happen meanwhile.                                           *)
(***************************************************************************)
EXTENDS Naturals, SequencesExt

CONSTANTS
    Names,
    Regs,       \* ServiceRegistration objects, each made by one register()
    Name,       \* registration -> its name
    Lifecycle,  \* registrations whose service is a LifecycleService
    Overriders, \* registrations made with allow_override
    Starters,   \* calls of start_all()
    Stoppers,   \* calls of stop_all()
    Nobody

ASSUME RegistryAssumption ==
    /\ Name \in [Regs -> Names]
    /\ Lifecycle \subseteq Regs /\ Nobody \notin Regs
    /\ Starters \cap Stoppers = {}

Callers == Starters \cup Stoppers

VARIABLES
    current,    \* _services
    order,      \* _registration_order
    started,    \* registrations whose `started` is set
    stopped,    \* registrations whose `stopped` is set
    at,         \* where each call stands
    index,      \* its place in the order
    awaits,     \* the registration whose coroutine it awaits
    owed,       \* history: what was started, and not stopped, when stop_all() was called
    tried       \* history: the registrations whose stop() each stop_all() awaited

flags == <<started, stopped>>
calls == <<at, index, awaits, owed, tried>>
vars == <<current, order, flags, calls>>

TypeOK ==
    /\ current \in [Names -> Regs \cup {Nobody}]
    /\ order \in Seq(Names) /\ IsInjective(order)
    /\ started \subseteq Lifecycle /\ stopped \subseteq started
    /\ at \in [Callers -> {"new", "awaiting", "returned", "raised"}]
    /\ index \in [Callers -> Nat]
    /\ awaits \in [Callers -> Regs \cup {Nobody}]
    /\ owed \in [Stoppers -> SUBSET Regs] /\ tried \in [Stoppers -> SUBSET Regs]

Init ==
    /\ current = [n \in Names |-> Nobody] /\ order = <<>>
    /\ started = {} /\ stopped = {}
    /\ at = [c \in Callers |-> "new"]
    /\ index = [c \in Callers |-> 0]
    /\ awaits = [c \in Callers |-> Nobody]
    /\ owed = [c \in Stoppers |-> {}] /\ tried = [c \in Stoppers |-> {}]

\* A name that is taken raises, unless the caller may override it; an
\* override keeps the name's place in the order.
Register(r) ==
    /\ \A n \in Names : current[n] # r
    /\ r \notin started /\ \A c \in Callers : awaits[c] # r
    /\ current[Name[r]] = Nobody \/ r \in Overriders
    /\ current' = [current EXCEPT ![Name[r]] = r]
    /\ order' = IF Name[r] \in ToSet(order) THEN order ELSE Append(order, Name[r])
    /\ UNCHANGED <<flags, calls>>

Reg(i) == current[order[i]]

\* Call c goes on at place i, or ends with place 0.
GoOn(c, i) ==
    /\ index' = [index EXCEPT ![c] = i]
    /\ awaits' = [awaits EXCEPT ![c] = IF i = 0 THEN Nobody ELSE Reg(i)]
    /\ at' = [at EXCEPT ![c] = IF i = 0 THEN "returned" ELSE "awaiting"]

Raise(c) ==
    /\ at' = [at EXCEPT ![c] = "raised"]
    /\ awaits' = [awaits EXCEPT ![c] = Nobody]
    /\ UNCHANGED index

-----------------------------------------------------------------------------
(* start_all *)

\* The first place from i on whose service is to be started, given what is
\* started by then.
NextStart(i, up) ==
    LET Due == {j \in DOMAIN order : j >= i /\ Reg(j) \in Lifecycle \ up}
    IN  IF Due = {} THEN 0 ELSE Min(Due)

StartAll(c) ==
    /\ at[c] = "new"
    /\ GoOn(c, NextStart(1, started))
    /\ UNCHANGED <<current, order, flags, owed, tried>>

\* The service is up; the flag is set on the registration that was awaited,
\* even if another has taken its name.
Started(c) ==
    /\ at[c] = "awaiting"
    /\ started' = started \cup {awaits[c]}
    /\ GoOn(c, NextStart(index[c] + 1, started'))
    /\ UNCHANGED <<current, order, stopped, owed, tried>>

\* Variant: a service that fails is passed over.
AfterStartFailureGoOn(c) == GoOn(c, NextStart(index[c] + 1, started))
AfterStartFailure(c) == Raise(c)

\* start() raised, or start_all() was cancelled.
StartFails(c) ==
    /\ at[c] = "awaiting"
    /\ AfterStartFailure(c)
    /\ UNCHANGED <<current, order, flags, owed, tried>>

-----------------------------------------------------------------------------
(* stop_all *)

Stoppable(r, down) == r \in started \ down

\* Variant: first in, first out.
NextStopFirst(i, down) ==
    LET Due == {j \in DOMAIN order : j <= i /\ Stoppable(Reg(j), down)}
    IN  IF Due = {} THEN 0 ELSE Min(Due)
\* The last place up to i whose service is to be stopped.  What is registered
\* during the call lies behind the reversed iterator.
NextStop(i, down) ==
    LET Due == {j \in DOMAIN order : j <= i /\ Stoppable(Reg(j), down)}
    IN  IF Due = {} THEN 0 ELSE Max(Due)

StopOn(c, i, down) ==
    LET j == NextStop(i, down) IN
    /\ GoOn(c, j)
    /\ tried' = IF j = 0 THEN tried ELSE [tried EXCEPT ![c] = @ \cup {Reg(j)}]

StopAll(c) ==
    /\ at[c] = "new"
    /\ owed' = [owed EXCEPT ![c] = started \ stopped]
    /\ StopOn(c, Len(order), stopped)
    /\ UNCHANGED <<current, order, flags>>

\* The service that was awaited is done with, one way or the other.
StopGoesOn(c) == StopOn(c, index[c] - 1, stopped')

Stopped(c) ==
    /\ at[c] = "awaiting"
    /\ stopped' = stopped \cup {awaits[c]}
    /\ StopGoesOn(c)
    /\ UNCHANGED <<current, order, started, owed>>

\* stop() raises, and the others are stopped all the same.
StopFails(c) ==
    /\ at[c] = "awaiting"
    /\ stopped' = stopped
    /\ StopGoesOn(c)
    /\ UNCHANGED <<current, order, started, owed>>

StopCancelled(c) ==
    /\ at[c] = "awaiting"
    /\ Raise(c)
    /\ UNCHANGED <<current, order, flags, owed, tried>>

Next ==
    \/ \E r \in Regs : Register(r)
    \/ \E c \in Starters : StartAll(c) \/ Started(c) \/ StartFails(c)
    \/ \E c \in Stoppers : StopAll(c) \/ Stopped(c) \/ StopFails(c) \/ StopCancelled(c)

Spec == Init /\ [][Next]_vars

-----------------------------------------------------------------------------
(* Properties *)

\* A service is started only after every lifecycle service registered before
\* it has come up, whichever start_all() it was that started them and
\* whatever is registered meanwhile.  Nothing is said of a predecessor that took
\* another's place by allow_override: a start_all() may have passed that place.
StartsInOrder ==
    /\ TypeOK
    /\ \A c \in Starters : at[c] = "awaiting" =>
         \A j \in 1..(index[c] - 1) :
             Reg(j) \in Lifecycle \ Overriders => Reg(j) \in started

\* stop() is called on nothing that has not started.  While it runs, every
\* service above it that was up when stop_all() was called has had its turn,
\* and when stop_all() returns all of them have, though some raised, unless
\* another stop_all() has stopped it or its name was given away.
StopsAllInReverse ==
    \A c \in Stoppers :
        /\ at[c] = "awaiting" =>
             /\ awaits[c] \in started
             /\ \A j \in (index[c] + 1)..Len(order) :
                    Reg(j) \in owed[c] => Reg(j) \in tried[c] \cup stopped
        /\ at[c] = "returned" =>
             \A r \in owed[c] : r \in tried[c] \cup stopped \/ current[Name[r]] # r
=============================================================================
