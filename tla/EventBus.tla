-------------------------------- MODULE EventBus --------------------------------
(***************************************************************************)
(* The event bus of core/event_bus.py.  publish() awaits one handler after *)
(* another: between two of them, and while one runs, other publications,   *)
(* subscriptions and unsubscriptions go on (a handler's own among them).   *)
(* Its lock is held over no await and never contended, and _stopped is     *)
(* only reported: a stopped bus goes on delivering.                        *)
(***************************************************************************)
EXTENDS Naturals, SequencesExt

CONSTANTS
    Subs,       \* Subscription objects, each made by one subscribe()
    Events,     \* RuntimeEvent objects, each published once
    Base,       \* the class RuntimeEvent, which subscribe_all() asks for
    SubType,    \* subscription -> its event_type
    EventType,  \* event -> its class, a direct subclass of Base
    MaxDead     \* MAX_DEAD_LETTER_SIZE

ASSUME BusAssumption == MaxDead \in Nat \ {0}

VARIABLES
    started,    \* _started
    table,      \* _subscriptions: its lists, one after the other
    active,     \* the subscriptions whose is_active holds
    pub,        \* where each publish() stands
    todo,       \* handlers it has yet to call, the one it awaits first
    delivered,  \* its count
    sequence,   \* _sequence, and _publish_count with it
    errors,     \* _error_count
    dead,       \* _dead_letters
    outcome,    \* history: what became of each handler's call
    failures    \* history: the failed calls since the dead letters were cleared

publications == <<pub, todo, delivered, sequence, outcome>>
deadLetters  == <<errors, dead, failures>>
vars == <<started, table, active, publications, deadLetters>>

Letters == [event: Events, handler: Subs]

TypeOK ==
    /\ started \in BOOLEAN
    /\ table \in Seq(Subs)
    /\ active \subseteq ToSet(table)
    /\ pub \in [Events -> {"new", "delivering", "returned", "cancelled"}]
    /\ todo \in [Events -> Seq(Subs)]
    /\ delivered \in [Events -> Nat]
    /\ sequence \in Nat
    /\ errors \in Nat
    /\ dead \in Seq(Letters) /\ Len(dead) <= MaxDead
    /\ outcome \in [Events -> [Subs -> {"none", "running", "returned", "raised", "cancelled"}]]
    /\ failures \in Seq(Letters)

Init ==
    /\ started = FALSE
    /\ table = <<>> /\ active = {}
    /\ pub = [e \in Events |-> "new"]
    /\ todo = [e \in Events |-> <<>>]
    /\ delivered = [e \in Events |-> 0]
    /\ sequence = 0
    /\ errors = 0 /\ dead = <<>> /\ failures = <<>>
    /\ outcome = [e \in Events |-> [s \in Subs |-> "none"]]

-----------------------------------------------------------------------------
(* start, subscribe, unsubscribe *)

Start ==
    /\ ~started /\ started' = TRUE
    /\ UNCHANGED <<table, active, publications, deadLetters>>

\* A subscription goes behind those of its own type, whose list may be older
\* than the lists of other types.
Place(s) ==
    LET Same == {i \in DOMAIN table : SubType[table[i]] = SubType[s]}
    IN  IF Same = {} THEN Len(table) + 1 ELSE Max(Same) + 1

Subscribe(s) ==
    /\ s \notin ToSet(table)
    /\ table' = InsertAt(table, Place(s), s)
    /\ active' = active \cup {s}
    /\ UNCHANGED <<started, publications, deadLetters>>

\* The subscription stays in its list, inactive.
Unsubscribe(s) ==
    /\ s \in active
    /\ active' = active \ {s}
    /\ UNCHANGED <<started, table, publications, deadLetters>>

-----------------------------------------------------------------------------
(* publish *)

Matches(s, e) == SubType[s] \in {EventType[e], Base}

\* The handlers of an event are the subscriptions that match, in the order of
\* the table.
Before(s, t) == \E i, k \in DOMAIN table : i < k /\ table[i] = s /\ table[k] = t
Collected(e) ==
    {q \in SetToSeqs({s \in ToSet(table) : Matches(s, e)}) :
        \A i, k \in DOMAIN q : i < k => Before(q[i], q[k])}

\* Variant: is_active is tested when the handlers are collected only.
AwaitNextBlindly(q) == q
\* The handlers left when those that are inactive by now are passed over.
AwaitNext(q) ==
    LET Alive == {i \in DOMAIN q : q[i] \in active}
    IN  IF Alive = {} THEN <<>> ELSE SubSeq(q, Min(Alive), Len(q))

\* The loop goes on over the handlers q until it awaits one or returns.
Loop(e, q, calls) ==
    LET rest == AwaitNext(q) IN
    /\ todo' = [todo EXCEPT ![e] = rest]
    /\ pub'  = [pub EXCEPT ![e] = IF rest = <<>> THEN "returned" ELSE "delivering"]
    /\ outcome' = [outcome EXCEPT ![e] = IF rest = <<>> THEN calls
                                         ELSE [calls EXCEPT ![Head(rest)] = "running"]]

Publish(e) ==
    /\ started /\ pub[e] = "new"
    /\ sequence' = sequence + 1
    /\ \E q \in Collected(e) : Loop(e, q, outcome[e])
    /\ UNCHANGED <<started, table, active, delivered, deadLetters>>

\* Variant: a handler that raises ends the publication.
HandlersAfterRaise(e, ok) == IF ok THEN Tail(todo[e]) ELSE <<>>
HandlersAfter(e, ok) == Tail(todo[e])

HandlerReturns(e) ==
    /\ pub[e] = "delivering"
    /\ delivered' = [delivered EXCEPT ![e] = @ + 1]
    /\ Loop(e, HandlersAfter(e, TRUE), [outcome[e] EXCEPT ![Head(todo[e])] = "returned"])
    /\ UNCHANGED <<started, table, active, sequence, deadLetters>>

\* Variant: the newest letter makes room.
RecordOverLatest(q, letter) == IF Len(q) >= MaxDead THEN Append(Front(q), letter) ELSE Append(q, letter)
\* _record_dead_letter
Record(q, letter) == Append(IF Len(q) >= MaxDead THEN Tail(q) ELSE q, letter)

\* Variant: a failed call counts as delivered.
CountRaised(e) == delivered[e] + 1
CountOfRaised(e) == delivered[e]

HandlerRaises(e) ==
    LET letter == [event |-> e, handler |-> Head(todo[e])] IN
    /\ pub[e] = "delivering"
    /\ errors' = errors + 1
    /\ dead' = Record(dead, letter)
    /\ failures' = Append(failures, letter)
    /\ delivered' = [delivered EXCEPT ![e] = CountOfRaised(e)]
    /\ Loop(e, HandlersAfter(e, FALSE), [outcome[e] EXCEPT ![Head(todo[e])] = "raised"])
    /\ UNCHANGED <<started, table, active, sequence>>

\* Neither publish() nor publish_nowait() catches CancelledError.
PublisherCancelled(e) ==
    /\ pub[e] = "delivering"
    /\ pub' = [pub EXCEPT ![e] = "cancelled"]
    /\ todo' = [todo EXCEPT ![e] = <<>>]
    /\ outcome' = [outcome EXCEPT ![e][Head(todo[e])] = "cancelled"]
    /\ UNCHANGED <<started, table, active, delivered, sequence, deadLetters>>

ClearDeadLetters ==
    /\ dead # <<>> /\ dead' = <<>> /\ failures' = <<>>
    /\ UNCHANGED <<started, table, active, publications, errors>>

HandlerEnds(e) == HandlerReturns(e) \/ HandlerRaises(e)

Next ==
    \/ Start \/ ClearDeadLetters
    \/ \E s \in Subs : Subscribe(s) \/ Unsubscribe(s)
    \/ \E e \in Events : Publish(e) \/ HandlerEnds(e) \/ PublisherCancelled(e)

Spec == Init /\ [][Next]_vars

\* Handlers return or raise: a premise.
HandlersEnd == \A e \in Events : WF_vars(HandlerEnds(e))

-----------------------------------------------------------------------------
(* Properties *)

CallsThat(e, o) == Cardinality({s \in Subs : outcome[e][s] = o})

\* publish() returns the number of handlers that took the event without
\* raising, however many publications overlap; _error_count counts the calls
\* that raised in all of them, and _publish_count the publications.
CountsTrue ==
    /\ TypeOK
    /\ \A e \in Events : delivered[e] = CallsThat(e, "returned")
    /\ errors = Cardinality({c \in Events \X Subs : outcome[c[1]][c[2]] = "raised"})
    /\ sequence = Cardinality({e \in Events : pub[e] # "new"})

\* The dead letters are the latest failures since they were last cleared, in
\* the order they happened, as many as there is room for.
LatestFailures ==
    dead = SubSeq(failures, Len(failures) - Len(dead) + 1, Len(failures))
    /\ Len(dead) = IF Len(failures) < MaxDead THEN Len(failures) ELSE MaxDead

Delivery ==
    INSTANCE EventDelivery WITH
        gone    <- ToSet(table) \ active,
        owed    <- [e \in Events |-> ToSet(todo[e]) \ {s \in Subs : outcome[e][s] = "running"}],
        calling <- [e \in Events |-> {s \in Subs : outcome[e][s] = "running"}]

\* The bus keeps the abstract promise: whoever is subscribed when an event is
\* published is called for it once and alone, and nobody after unsubscribing.
ImplementsDelivery == Delivery!Spec

\* While handlers end, a subscriber whose turn is to come is called, whatever
\* those before him raise, unless he unsubscribes or the publisher is cancelled.
NoneStarved ==
    HandlersEnd =>
        \A e \in Events, s \in Subs :
            s \in ToSet(todo[e]) ~>
                outcome[e][s] # "none" \/ s \notin active \/ pub[e] = "cancelled"
=============================================================================
