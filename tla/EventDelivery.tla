------------------------------ MODULE EventDelivery ------------------------------
(***************************************************************************)
(* What the event bus of core/event_bus.py promises its subscribers, in no *)
(* particular order: an event is owed to everyone who is subscribed when   *)
(* it is published, one at a time and once, until he unsubscribes.         *)
(***************************************************************************)
EXTENDS FiniteSets

CONSTANTS Subs, Events, Matches(_, _)

VARIABLES
    active,   \* who is subscribed
    gone,     \* who has unsubscribed
    owed,     \* event -> who must still be called
    calling   \* event -> whose handler runs, at most one

vars == <<active, gone, owed, calling>>

Init ==
    /\ active = {} /\ gone = {}
    /\ owed = [e \in Events |-> {}]
    /\ calling = [e \in Events |-> {}]

Subscribe(s) ==
    /\ s \notin active \cup gone
    /\ active' = active \cup {s}
    /\ UNCHANGED <<gone, owed, calling>>

Unsubscribe(s) ==
    /\ s \in active
    /\ active' = active \ {s}
    /\ gone' = gone \cup {s}
    /\ UNCHANGED <<owed, calling>>

\* Someone active among S is called, or there is none such and all are dropped.
Turn(e, S) ==
    /\ \/ /\ S \cap active = {}
          /\ calling' = [calling EXCEPT ![e] = {}]
          /\ owed' = [owed EXCEPT ![e] = {}]
       \/ \E s \in S \cap active, Dropped \in SUBSET (S \ active) :
            /\ calling' = [calling EXCEPT ![e] = {s}]
            /\ owed' = [owed EXCEPT ![e] = S \ (Dropped \cup {s})]
    /\ UNCHANGED <<active, gone>>

Publish(e) ==
    /\ owed[e] = {} /\ calling[e] = {}
    /\ Turn(e, {s \in active \cup gone : Matches(s, e)})

Proceed(e) == calling[e] # {} /\ Turn(e, owed[e])

\* The publisher is cancelled.
Abandon(e) ==
    /\ calling[e] # {}
    /\ calling' = [calling EXCEPT ![e] = {}]
    /\ owed' = [owed EXCEPT ![e] = {}]
    /\ UNCHANGED <<active, gone>>

Next ==
    \/ \E s \in Subs : Subscribe(s) \/ Unsubscribe(s)
    \/ \E e \in Events : Publish(e) \/ Proceed(e) \/ Abandon(e)

Spec == Init /\ [][Next]_vars
=============================================================================
