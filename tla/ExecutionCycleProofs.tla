-------------------------- MODULE ExecutionCycleProofs --------------------------
(***************************************************************************)
(* The execution cycle, proved for any number of observers and calls nested *)
(* to any depth.                                                           *)
(***************************************************************************)
EXTENDS ExecutionCycle, SequenceLemmas

\* Where the calls under way stand: the outermost has the oldest transition,
\* and each has told the observers up to the one that runs.
CallsStand ==
    /\ IsInjective(observers)
    /\ \A k \in DOMAIN calls :
         /\ calls[k].entry \in 1..Len(trail)
         /\ calls[k].next \in DOMAIN observers
         /\ \A m \in 1..(k - 1) : calls[m].entry < calls[k].entry
         /\ \A i \in DOMAIN observers :
              calls[k].entry \in ToSet(told[observers[i]]) <=> i <= calls[k].next

\* What observers were told when n transitions were made and the calls cs are
\* under way: whoever misses one is still to be told by its call.
Told(cs, n) ==
    \A o \in Observers :
        /\ IsInjective(told[o])
        /\ ToSet(told[o]) \subseteq 1..n
        /\ o \notin ToSet(observers) => told[o] = <<>>
        /\ o \in ToSet(observers) =>
             \A e \in (joined[o] + 1)..n :
                 e \in ToSet(told[o]) \/ \E k \in DOMAIN cs : cs[k].entry = e

\* The innermost of the calls cs is about to tell its next observer.
Ready(cs, n) ==
    /\ n \in Nat /\ n <= MaxTrail
    /\ cs \in Seq(Calls) /\ cs # <<>>
    /\ IsInjective(observers)
    /\ \A k \in DOMAIN cs :
         /\ cs[k].entry \in 1..n
         /\ \A m \in 1..(k - 1) : cs[m].entry < cs[k].entry
         /\ k < Len(cs) => cs[k].next \in DOMAIN observers
         /\ k = Len(cs) => cs[k].next \in 1..(Len(observers) + 1)
         /\ \A i \in DOMAIN observers :
              cs[k].entry \in ToSet(told[observers[i]]) <=>
                  i < cs[k].next \/ (i = cs[k].next /\ k < Len(cs))
    /\ Told(cs, n)

\* How far a phase is from CREATED: but for repairs, every transition leads
\* farther.
Rank ==
    [p \in Phases |->
        CASE p = "created"    -> 0
          [] p = "planning"   -> 1
          [] p = "retrieving" -> 2
          [] p = "executing"  -> 3
          [] p = "verifying"  -> 4
          [] p = "finalizing" -> 5
          [] OTHER            -> 6]

\* As long as nothing is repaired the trail leads farther and farther.
RanksRise ==
    \A i, j \in DOMAIN trail :
        i < j /\ (\A k \in i..j : trail[k].to # "repairing") =>
            Rank[trail[i].to] < Rank[trail[j].to]

IInv == TrailIsPath /\ RanksRise /\ CallsStand /\ Told(calls, Len(trail))

-----------------------------------------------------------------------------
(* Observers *)

\* One round of the loop over the observers, or its end.
LEMMA NotifyHolds ==
    ASSUME TypeOK, NEW cs, Ready(cs, Len(trail')), Notify(cs),
           UNCHANGED <<observers, joined>>
    PROVE  /\ calls' \in Seq(Calls)
           /\ told' \in [Observers -> Seq(1..MaxTrail)]
           /\ CallsStand'
           /\ Told(calls, Len(trail))'
<1> DEFINE n    == Len(trail')
           c    == Len(cs)
           last == cs[c]
<1>0. n = Len(trail') /\ c = Len(cs) /\ last = cs[c] /\ Ready(cs, n)
  OBVIOUS
<1> HIDE DEF n, c, last
<1>a. /\ n \in Nat /\ n <= MaxTrail /\ MaxTrail \in Nat
      /\ cs \in Seq(Calls) /\ cs # <<>> /\ IsInjective(observers) /\ Told(cs, n)
  BY <1>0, CycleAssumption DEF Ready
<1>b. /\ c \in Nat \ {0} /\ Last(cs) = last /\ last \in Calls
      /\ DOMAIN cs = 1..c
  BY <1>0, <1>a, FrontElements, LenProperties
<1>c. /\ observers \in Seq(Observers) /\ DOMAIN observers = 1..Len(observers)
      /\ Len(observers) \in Nat
      /\ \A i \in 1..Len(observers) : observers[i] \in Observers
      /\ told \in [Observers -> Seq(1..MaxTrail)]
  BY LenProperties, ElementOfSeq DEF TypeOK
<1>1. /\ c = Len(cs) /\ n \in Nat /\ n <= MaxTrail /\ MaxTrail \in Nat
      /\ c \in Nat \ {0} /\ Last(cs) = last /\ last \in Calls
      /\ DOMAIN cs = 1..c
      /\ DOMAIN observers = 1..Len(observers)
      /\ Len(observers) \in Nat
      /\ \A i \in 1..Len(observers) : observers[i] \in Observers
      /\ told \in [Observers -> Seq(1..MaxTrail)]
  BY <1>0, <1>a, <1>b, <1>c
<1>2. /\ last.entry \in 1..n
      /\ last.next \in 1..(Len(observers) + 1)
      /\ \A i \in 1..Len(observers) : last.entry \in ToSet(told[observers[i]]) <=> i < last.next
  <2>1. c \in DOMAIN cs /\ ~(c < Len(cs)) /\ last = cs[c]
    BY <1>0, <1>1
  <2>2. /\ last.entry \in 1..n
        /\ last.next \in 1..(Len(observers) + 1)
    BY <1>0, <1>1, <2>1 DEF Ready
  <2>3. \A i \in DOMAIN observers : last.entry \in ToSet(told[observers[i]]) <=>
            i < last.next \/ (i = last.next /\ c < Len(cs))
    BY <1>0, <2>1 DEF Ready
  <2> QED
    BY <1>1, <2>1, <2>2, <2>3
<1>5. ASSUME NEW k \in 1..(c - 1)
      PROVE  /\ cs[k].entry \in 1..n /\ cs[k].entry < last.entry
             /\ cs[k].next \in 1..Len(observers)
             /\ \A m \in 1..(k - 1) : cs[m].entry < cs[k].entry
             /\ \A i \in 1..Len(observers) :
                  cs[k].entry \in ToSet(told[observers[i]]) <=> i <= cs[k].next
  <2>1. k \in DOMAIN cs /\ k < Len(cs) /\ c \in DOMAIN cs /\ k \in 1..(c - 1)
    BY <1>1
  <2>2. /\ cs[k].entry \in 1..n /\ cs[k].entry < last.entry
        /\ cs[k].next \in 1..Len(observers)
        /\ \A m \in 1..(k - 1) : cs[m].entry < cs[k].entry
    BY <1>0, <1>1, <2>1 DEF Ready
  <2>3. \A i \in 1..Len(observers) :
          cs[k].entry \in ToSet(told[observers[i]]) <=> i < cs[k].next \/ i = cs[k].next
    BY <1>0, <1>1, <2>1 DEF Ready
  <2>4. \A i \in 1..Len(observers) : i < cs[k].next \/ i = cs[k].next <=> i <= cs[k].next
    BY <1>1, <2>2
  <2> QED
    BY <2>2, <2>3, <2>4
<1>3. CASE last.next <= Len(observers)
  <2> DEFINE o == observers[last.next]
  <2>1. /\ calls' = cs /\ o \in Observers /\ o = observers[last.next]
        /\ told' = [told EXCEPT ![o] = Append(@, last.entry)]
    BY <1>1, <1>2, <1>3 DEF Notify, CallsAfter
  <2> HIDE DEF o
  <2>2. /\ told[o] \in Seq(1..MaxTrail) /\ last.entry \in 1..MaxTrail
        /\ last.entry \notin ToSet(told[o])
        /\ IsInjective(told[o]) /\ o \in ToSet(observers)
    <3>1. last.next \in 1..Len(observers)
      BY <1>1, <1>2, <1>3
    <3>2. last.entry \notin ToSet(told[o])
      BY <1>2, <2>1, <3>1
    <3>3. o \in ToSet(observers)
      BY <1>1, <2>1, <3>1 DEF ToSet
    <3> QED
      BY <1>1, <1>2, <1>a, <2>1, <3>2, <3>3 DEF Told
  <2>3. /\ told'[o] \in Seq(1..MaxTrail) /\ IsInjective(told'[o])
        /\ ToSet(told'[o]) = ToSet(told[o]) \cup {last.entry}
        /\ \A p \in Observers \ {o} : told'[p] = told[p]
    <3>1. told'[o] = Append(told[o], last.entry) /\ \A p \in Observers \ {o} : told'[p] = told[p]
      BY <1>1, <2>1
    <3>2. Append(told[o], last.entry) \in Seq(1..MaxTrail)
      BY <2>2
    <3>4. ToSet(Append(told[o], last.entry)) = ToSet(told[o]) \cup {last.entry}
      <4> DEFINE E == 1..MaxTrail
                 e == last.entry
                 q == told[o]
      <4>1. q \in Seq(E) /\ e \in E
        BY <2>2
      <4> HIDE DEF E, e, q
      <4>2. ToSet(Append(q, e)) = ToSet(q) \cup {e}
        BY <4>1, AppendElements
      <4> QED
        BY <4>2 DEF e, q
    <3>3. IsInjective(Append(told[o], last.entry))
      BY <2>2, AppendKeepsInjective
    <3> QED
      BY <3>1, <3>2, <3>3, <3>4
  <2>4. \A i \in 1..Len(observers) : observers[i] = o <=> i = last.next
    <3>1. last.next \in 1..Len(observers)
      BY <1>1, <1>2, <1>3
    <3> QED
      BY <1>1, <1>a, <2>1, <3>1 DEF IsInjective
  <2>5. ASSUME NEW k \in 1..c
        PROVE  /\ cs[k].entry \in 1..n
               /\ cs[k].next \in 1..Len(observers)
               /\ \A m \in 1..(k - 1) : cs[m].entry < cs[k].entry
               /\ \A i \in 1..Len(observers) :
                    cs[k].entry \in ToSet(told'[observers[i]]) <=> i <= cs[k].next
    <3>1. CASE k = c
      <4>1. ASSUME NEW i \in 1..Len(observers)
            PROVE  last.entry \in ToSet(told'[observers[i]]) <=> i <= last.next
        <5>1. CASE i = last.next
          BY <1>2, <2>1, <2>3, <5>1
        <5>2. CASE i # last.next
          <6>1. observers[i] \in Observers \ {o}
            BY <1>1, <2>4, <5>2
          <6> QED
            BY <1>1, <1>2, <2>3, <5>2, <6>1
        <5> QED
          BY <5>1, <5>2
      <4>2. cs[k] = last /\ last.next \in 1..Len(observers)
        BY <1>0, <1>1, <1>2, <1>3, <3>1
      <4>3. \A m \in 1..(c - 1) : cs[m].entry < last.entry
        BY <1>5
      <4> QED
        BY <1>2, <3>1, <4>1, <4>2, <4>3
    <3>2. CASE k # c
      <4>1. /\ k \in 1..(c - 1)
            /\ cs[k].entry \in 1..n /\ cs[k].entry < last.entry
            /\ cs[k].next \in 1..Len(observers)
        BY <1>1, <1>5, <3>2
      <4>2. \A i \in 1..Len(observers) :
              cs[k].entry \in ToSet(told[observers[i]]) <=> i <= cs[k].next
        BY <1>5, <4>1
      <4>3. \A i \in 1..Len(observers) :
              cs[k].entry \in ToSet(told'[observers[i]]) <=> cs[k].entry \in ToSet(told[observers[i]])
        <5>1. cs[k].entry # last.entry
          BY <1>2, <4>1
        <5>2. \A p \in Observers : cs[k].entry \in ToSet(told'[p]) <=> cs[k].entry \in ToSet(told[p])
          BY <2>3, <5>1
        <5> QED
          BY <1>1, <5>2
      <4>4. \A m \in 1..(k - 1) : cs[m].entry < cs[k].entry
        BY <1>5, <4>1
      <4> QED
        BY <4>1, <4>2, <4>3, <4>4
    <3> QED
      BY <3>1, <3>2
  <2>6. CallsStand'
    BY <1>0, <1>1, <1>a, <2>1, <2>5 DEF CallsStand
  <2>7. ASSUME NEW p \in Observers
        PROVE  /\ IsInjective(told'[p])
               /\ ToSet(told'[p]) \subseteq 1..n
               /\ p \notin ToSet(observers) => told'[p] = <<>>
               /\ p \in ToSet(observers) =>
                    \A e \in (joined[p] + 1)..n :
                        e \in ToSet(told'[p]) \/ \E k \in DOMAIN cs : cs[k].entry = e
    <3>1. ToSet(told[p]) \subseteq ToSet(told'[p])
      BY <2>3
    <3>2. /\ IsInjective(told[p])
          /\ ToSet(told[p]) \subseteq 1..n
          /\ p \notin ToSet(observers) => told[p] = <<>>
          /\ p \in ToSet(observers) =>
               \A e \in (joined[p] + 1)..n :
                   e \in ToSet(told[p]) \/ \E k \in DOMAIN cs : cs[k].entry = e
      BY <1>a DEF Told
    <3>3. CASE p = o
      BY <1>2, <2>2, <2>3, <3>1, <3>2, <3>3
    <3>4. CASE p # o
      BY <2>3, <3>2, <3>4
    <3> QED
      BY <3>3, <3>4
  <2>8. Told(calls, Len(trail))'
    BY <1>0, <2>1, <2>7 DEF Told
  <2>9. told' \in [Observers -> Seq(1..MaxTrail)]
    BY <1>1, <2>1, <2>3
  <2> QED
    BY <2>1, <2>6, <2>8, <2>9 DEF Ready
<1>4. CASE ~(last.next <= Len(observers))
  <2>1. calls' = Front(cs) /\ told' = told /\ last.next = Len(observers) + 1
    BY <1>1, <1>2, <1>4 DEF Notify, CallsAfter
  <2>2. /\ Front(cs) \in Seq(Calls)
        /\ DOMAIN Front(cs) = 1..(c - 1)
        /\ \A k \in 1..(c - 1) : Front(cs)[k] = cs[k]
    BY <1>0, <1>a, FrontElements
  <2>3. CallsStand'
    <3>1. \A k \in 1..(c - 1) : \A m \in 1..(k - 1) : m \in 1..(c - 1)
      BY <1>1
    <3> QED
      BY <1>0, <1>1, <1>a, <1>5, <2>1, <2>2, <3>1 DEF CallsStand
  <2>4. Told(calls, Len(trail))'
    <3>1. ASSUME NEW p \in ToSet(observers)
          PROVE  last.entry \in ToSet(told[p])
      <4>1. PICK i \in 1..Len(observers) : p = observers[i]
        BY <1>1 DEF ToSet
      <4> QED
        BY <1>1, <1>2, <2>1, <4>1
    <3>2. ASSUME NEW e, NEW k \in DOMAIN cs, cs[k].entry = e, e # last.entry
          PROVE  \E j \in DOMAIN Front(cs) : Front(cs)[j].entry = e
      <4>1. k \in 1..(c - 1)
        BY <1>0, <1>1, <3>2
      <4> QED
        BY <2>2, <3>2, <4>1
    <3>3. ASSUME NEW p \in Observers, p \in ToSet(observers), NEW e \in (joined[p] + 1)..n
          PROVE  e \in ToSet(told[p]) \/ \E k \in DOMAIN Front(cs) : Front(cs)[k].entry = e
      <4>1. CASE e = last.entry
        BY <3>1, <3>3, <4>1
      <4>2. CASE e # last.entry
        BY <1>a, <3>2, <3>3, <4>2 DEF Told
      <4> QED
        BY <4>1, <4>2
    <3> QED
      BY <1>0, <1>a, <2>1, <3>3 DEF Told
  <2> QED
    BY <1>1, <2>1, <2>2, <2>3, <2>4
<1> QED
  BY <1>3, <1>4

\* A transition starts its own loop, on top of those under way.
LEMMA EnterReady ==
    ASSUME IInv, NEW target \in Phases, Enter(target)
    PROVE  Ready(Append(calls, [entry |-> Len(trail) + 1, next |-> 1]), Len(trail'))
<1> DEFINE n    == Len(trail) + 1
           c    == Len(calls) + 1
           last == [entry |-> n, next |-> 1]
           cs   == Append(calls, last)
<1>1. /\ TypeOK /\ MaxTrail \in Nat
      /\ Len(trail) \in Nat /\ Len(trail) < MaxTrail /\ n \in 1..MaxTrail
      /\ Len(trail') = n
  <2>1. TypeOK /\ trail \in Seq([from: Phases, to: Phases]) /\ phase \in Phases
    BY DEF IInv, TrailIsPath, TypeOK
  <2> QED
    BY <2>1, CycleAssumption, AppendProperties DEF Enter
<1>2. /\ calls \in Seq(Calls) /\ last \in Calls /\ DOMAIN calls = 1..Len(calls)
      /\ observers \in Seq(Observers) /\ DOMAIN observers = 1..Len(observers)
      /\ Len(observers) \in Nat /\ Len(calls) \in Nat
      /\ \A i \in 1..Len(observers) : observers[i] \in Observers
  BY <1>1, LenProperties, ElementOfSeq DEF TypeOK, Calls
<1>3. /\ cs \in Seq(Calls) /\ cs # <<>> /\ Len(cs) = c /\ DOMAIN cs = 1..c
      /\ \A k \in 1..Len(calls) : cs[k] = calls[k]
      /\ cs[c] = last
  BY <1>2, AppendProperties, LenProperties
<1>4. last.entry = n /\ last.next = 1
  OBVIOUS
<1> HIDE DEF n, c, last, cs
<1>5. Len(trail) = n - 1 /\ c = Len(calls) + 1 /\ n \in Nat /\ c \in Nat /\ cs = Append(calls, last)
  BY <1>1, <1>2 DEF n, c, cs
<1>6. \A i \in 1..Len(observers) : n \notin ToSet(told[observers[i]])
  BY <1>2, <1>5 DEF IInv, Told
<1>7. ASSUME NEW k \in 1..c
      PROVE  /\ cs[k].entry \in 1..n
             /\ \A m \in 1..(k - 1) : cs[m].entry < cs[k].entry
             /\ k < c => cs[k].next \in DOMAIN observers
             /\ k = c => cs[k].next \in 1..(Len(observers) + 1)
             /\ \A i \in DOMAIN observers :
                  cs[k].entry \in ToSet(told[observers[i]]) <=>
                      i < cs[k].next \/ (i = cs[k].next /\ k < c)
  <2>1. ASSUME NEW m \in 1..Len(calls)
        PROVE  cs[m].entry \in 1..(n - 1)
    BY <1>2, <1>3, <1>5 DEF IInv, CallsStand
  <2>2. CASE k = c
    <3>1. \A m \in 1..(k - 1) : cs[m].entry < n
      BY <1>5, <2>1, <2>2
    <3> QED
      BY <1>2, <1>3, <1>4, <1>5, <1>6, <2>2, <3>1
  <2>3. CASE k # c
    <3>1. k \in 1..Len(calls) /\ k < c /\ k \in DOMAIN calls
      BY <1>2, <1>5, <2>3
    <3>2. /\ calls[k].next \in DOMAIN observers
          /\ \A m \in 1..(k - 1) : calls[m].entry < calls[k].entry
          /\ \A i \in DOMAIN observers :
               calls[k].entry \in ToSet(told[observers[i]]) <=> i <= calls[k].next
      BY <3>1 DEF IInv, CallsStand
    <3>3. \A m \in 1..(k - 1) : m \in 1..Len(calls) /\ cs[m] = calls[m]
      BY <1>2, <1>3, <3>1
    <3>4. \A i \in DOMAIN observers : i <= calls[k].next <=> i < calls[k].next \/ i = calls[k].next
      BY <1>2, <3>2
    <3> QED
      BY <1>3, <1>5, <2>1, <2>3, <3>1, <3>2, <3>3, <3>4
  <2> QED
    BY <2>2, <2>3
<1>8. Told(cs, n)
  <2>1. ASSUME NEW o \in Observers, o \in ToSet(observers), NEW e \in (joined[o] + 1)..n
        PROVE  e \in ToSet(told[o]) \/ \E k \in DOMAIN cs : cs[k].entry = e
    <3>1. CASE e = n
      BY <1>3, <1>4, <1>5, <3>1
    <3>2. CASE e # n
      <4>1. e \in (joined[o] + 1)..Len(trail)
        BY <1>5, <3>2, <2>1, <1>1 DEF TypeOK
      <4>2. e \in ToSet(told[o]) \/ \E k \in DOMAIN calls : calls[k].entry = e
        BY <2>1, <4>1 DEF IInv, Told
      <4>3. \A k \in DOMAIN calls : k \in DOMAIN cs /\ cs[k] = calls[k]
        BY <1>2, <1>3, <1>5
      <4> QED
        BY <4>2, <4>3
    <3> QED
      BY <3>1, <3>2
  <2>2. \A o \in Observers : ToSet(told[o]) \subseteq 1..n
    <3>1. \A o \in Observers : ToSet(told[o]) \subseteq 1..Len(trail)
      BY DEF IInv, Told
    <3>2. 1..Len(trail) \subseteq 1..n
      BY <1>1, <1>5
    <3> QED
      BY <3>1, <3>2
  <2> QED
    BY <2>1, <2>2 DEF IInv, Told
<1>9. Ready(cs, n)
  BY <1>1, <1>3, <1>5, <1>7, <1>8 DEF Ready, IInv, CallsStand, n
<1> QED
  BY <1>1, <1>9 DEF n, last, cs

\* The observer that ran has returned, and the innermost call goes on.
LEMMA ObserverEndsReady ==
    ASSUME IInv, calls # <<>>
    PROVE  Ready(Append(Front(calls), [Last(calls) EXCEPT !.next = @ + 1]), Len(trail))
<1> DEFINE n    == Len(trail)
           c    == Len(calls)
           last == [Last(calls) EXCEPT !.next = @ + 1]
           cs   == Append(Front(calls), last)
<1>1. /\ TypeOK /\ n \in Nat /\ n <= MaxTrail
      /\ calls \in Seq(Calls) /\ DOMAIN calls = 1..c /\ c \in Nat \ {0}
      /\ DOMAIN observers = 1..Len(observers) /\ Len(observers) \in Nat
      /\ \A i \in 1..Len(observers) : observers[i] \in Observers
  BY LenProperties, ElementOfSeq, EmptySeq DEF IInv, TrailIsPath, TypeOK
<1>2. /\ Last(calls) = calls[c] /\ Last(calls) \in Calls
      /\ Front(calls) \in Seq(Calls) /\ Len(Front(calls)) = c - 1
      /\ \A k \in 1..(c - 1) : Front(calls)[k] = calls[k]
  BY <1>1, FrontElements
<1>3. last \in Calls /\ last.entry = calls[c].entry /\ last.next = calls[c].next + 1
  BY <1>2 DEF Calls
<1>4. /\ cs \in Seq(Calls) /\ cs # <<>> /\ Len(cs) = c /\ DOMAIN cs = 1..c
      /\ \A k \in 1..(c - 1) : cs[k] = calls[k]
      /\ cs[c] = last
  <2> HIDE DEF last, c
  <2> QED
    BY <1>1, <1>2, <1>3, AppendProperties, LenProperties
<1> HIDE DEF n, c, last, cs
<1>5. ASSUME NEW k \in 1..c
      PROVE  /\ calls[k].entry \in 1..n
             /\ calls[k].next \in 1..Len(observers)
             /\ \A m \in 1..(k - 1) : calls[m].entry < calls[k].entry
             /\ \A i \in 1..Len(observers) :
                  calls[k].entry \in ToSet(told[observers[i]]) <=> i <= calls[k].next
  BY <1>1 DEF IInv, CallsStand, n
<1>6. \A k \in 1..c : cs[k].entry = calls[k].entry
  BY <1>1, <1>3, <1>4
<1>7. ASSUME NEW k \in 1..c
      PROVE  /\ cs[k].entry \in 1..n
             /\ \A m \in 1..(k - 1) : cs[m].entry < cs[k].entry
             /\ k < c => cs[k].next \in DOMAIN observers
             /\ k = c => cs[k].next \in 1..(Len(observers) + 1)
             /\ \A i \in DOMAIN observers :
                  cs[k].entry \in ToSet(told[observers[i]]) <=>
                      i < cs[k].next \/ (i = cs[k].next /\ k < c)
  <2>1. \A m \in 1..(k - 1) : m \in 1..c
    BY <1>1
  <2>2. /\ cs[k].entry \in 1..n
        /\ \A m \in 1..(k - 1) : cs[m].entry < cs[k].entry
    BY <1>5, <1>6, <2>1
  <2>3. CASE k = c
    <3>1. cs[k].next = calls[k].next + 1
      BY <1>3, <1>4, <2>3
    <3>2. calls[k].next \in 1..Len(observers)
      BY <1>5
    <3>3. \A i \in 1..Len(observers) : i <= calls[k].next <=> i < cs[k].next
      BY <1>1, <3>1, <3>2
    <3> QED
      BY <1>1, <1>5, <1>6, <2>2, <2>3, <3>1, <3>2, <3>3
  <2>4. CASE k # c
    <3>1. k \in 1..(c - 1) /\ k < c /\ cs[k].next = calls[k].next
      BY <1>1, <1>4, <2>4
    <3>2. calls[k].next \in 1..Len(observers)
      BY <1>5
    <3>3. \A i \in 1..Len(observers) :
            i <= calls[k].next <=> i < cs[k].next \/ (i = cs[k].next /\ k < c)
      BY <1>1, <3>1, <3>2
    <3> QED
      BY <1>1, <1>5, <1>6, <2>2, <2>4, <3>1, <3>2, <3>3
  <2> QED
    BY <2>3, <2>4
<1>8. Told(cs, n)
  <2>1. Told(calls, n)
    BY DEF IInv, n
  <2> QED
    BY <1>1, <1>4, <1>6, <2>1 DEF Told
<1>9. Ready(cs, n)
  BY <1>1, <1>4, <1>7, <1>8 DEF Ready, IInv, CallsStand
<1> QED
  BY <1>9 DEF n, last, cs

-----------------------------------------------------------------------------
(* The trail *)

\* What the transition table says of its ends.
LEMMA AllowedEnds ==
    /\ \A p \in Phases : Allowed[p] \subseteq Phases
    /\ \A p \in Terminal : Allowed[p] = {}
    /\ \A p \in Phases : "planning" \in Allowed[p] => p = "created"
<1>1. \A p \in Phases : Allowed[p] \subseteq Phases
  BY DEF Allowed, Phases, Terminal
<1>2. \A p \in Terminal : Allowed[p] = {}
  BY DEF Allowed, Phases, Terminal
<1>3. \A p \in Phases : "planning" \in Allowed[p] => p = "created"
  BY DEF Allowed, Phases, Terminal
<1> QED
  BY <1>1, <1>2, <1>3

\* An allowed transition other than to and from a repair leads farther.
LEMMA AllowedRises ==
    /\ Rank \in [Phases -> Nat]
    /\ \A p \in Phases \ {"repairing"} : \A q \in Allowed[p] \ {"repairing"} : Rank[p] < Rank[q]
<1>1. Rank \in [Phases -> Nat]
  BY DEF Rank
<1>2. ASSUME NEW p \in Phases \ {"repairing"}, NEW q \in Allowed[p] \ {"repairing"}
      PROVE  Rank[p] < Rank[q]
  BY DEF Rank, Allowed, Phases, Terminal
<1> QED
  BY <1>1, <1>2

\* One more entry at the end of the trail counts once.
LEMMA OneMoreRepair ==
    ASSUME NEW s \in Seq([from: Phases, to: Phases]), NEW e \in [from: Phases, to: Phases]
    PROVE  Cardinality({i \in DOMAIN Append(s, e) : Append(s, e)[i].to = "repairing"}) =
               IF e.to = "repairing"
               THEN Cardinality({i \in DOMAIN s : s[i].to = "repairing"}) + 1
               ELSE Cardinality({i \in DOMAIN s : s[i].to = "repairing"})
<1> DEFINE R == {i \in DOMAIN s : s[i].to = "repairing"}
           Q == {i \in DOMAIN Append(s, e) : Append(s, e)[i].to = "repairing"}
<1>1. /\ DOMAIN s = 1..Len(s) /\ Len(s) \in Nat
      /\ DOMAIN Append(s, e) = 1..(Len(s) + 1)
      /\ \A i \in 1..Len(s) : Append(s, e)[i] = s[i]
      /\ Append(s, e)[Len(s) + 1] = e
  BY LenProperties, AppendProperties
<1>2. IsFiniteSet(R) /\ Len(s) + 1 \notin R
  <2>1. IsFiniteSet(1..Len(s)) /\ R \subseteq 1..Len(s)
    BY <1>1, FS_Interval
  <2> QED
    BY <1>1, <2>1, FS_Subset
<1>3. Q = IF e.to = "repairing" THEN R \cup {Len(s) + 1} ELSE R
  BY <1>1
<1>4. Cardinality(R) \in Nat /\ Cardinality(R \cup {Len(s) + 1}) = Cardinality(R) + 1
  <2> HIDE DEF R
  <2> QED
    BY <1>2, FS_CardinalityType, FS_AddElement
<1> QED
  BY <1>3, <1>4

\* An allowed transition lengthens the path.
LEMMA EnterKeepsPath ==
    ASSUME TrailIsPath, RanksRise, NEW target \in Phases, target \in Allowed[phase], Enter(target),
           UNCHANGED result \/ result' = TRUE, UNCHANGED error \/ error' = TRUE,
           calls' \in Seq(Calls), told' \in [Observers -> Seq(1..MaxTrail)]
    PROVE  TrailIsPath' /\ RanksRise'
<1> DEFINE e == [from |-> phase, to |-> target]
           n == Len(trail)
<1>1. /\ TypeOK /\ MaxTrail \in Nat /\ phase \in Phases /\ phase \notin Terminal
      /\ trail \in Seq([from: Phases, to: Phases]) /\ e \in [from: Phases, to: Phases]
      /\ n \in Nat /\ n < MaxTrail /\ DOMAIN trail = 1..n
  BY CycleAssumption, AllowedEnds, LenProperties DEF TrailIsPath, TypeOK, Enter
<1>2. trail' = Append(trail, e) /\ phase' = target /\ e.from = phase /\ e.to = target
  BY DEF Enter
<1> HIDE DEF e
<1>3. /\ trail' \in Seq([from: Phases, to: Phases]) /\ Len(trail') = n + 1
      /\ DOMAIN trail' = 1..(n + 1)
      /\ \A i \in 1..n : trail'[i] = trail[i]
      /\ trail'[n + 1] = e
  BY <1>1, <1>2, AppendProperties, LenProperties
<1> HIDE DEF n
<1>4. /\ trail' # <<>> /\ Last(trail') = e
  BY <1>1, <1>3, EmptySeq DEF Last
<1>5. /\ \A i \in 1..n : /\ trail[i].to \in Allowed[trail[i].from]
                        /\ trail[i].from = IF i = 1 THEN "created" ELSE trail[i - 1].to
      /\ phase = IF n = 0 THEN "created" ELSE trail[n].to
  <2>1. trail = <<>> <=> n = 0
    BY <1>1, EmptySeq DEF n
  <2> QED
    BY <1>1, <2>1 DEF TrailIsPath, Last, n
<1>6. \A i \in DOMAIN trail' :
        /\ trail'[i].to \in Allowed[trail'[i].from]
        /\ trail'[i].from = IF i = 1 THEN "created" ELSE trail'[i - 1].to
  <2>1. ASSUME NEW i \in 1..n
        PROVE  /\ trail'[i].to \in Allowed[trail'[i].from]
               /\ trail'[i].from = IF i = 1 THEN "created" ELSE trail'[i - 1].to
    <3>1. i = 1 \/ i - 1 \in 1..n
      BY <1>1, <2>1
    <3> QED
      BY <1>3, <1>5, <2>1, <3>1
  <2>2. trail'[n + 1].to \in Allowed[trail'[n + 1].from]
    BY <1>2, <1>3
  <2>3. trail'[n + 1].from = IF n + 1 = 1 THEN "created" ELSE trail'[(n + 1) - 1].to
    <3>1. n = 0 \/ (n \in 1..n /\ n + 1 # 1 /\ (n + 1) - 1 = n)
      BY <1>1
    <3> QED
      BY <1>2, <1>3, <1>5, <3>1
  <2>4. \A i \in 1..(n + 1) : i \in 1..n \/ i = n + 1
    BY <1>1
  <2> QED
    BY <1>3, <2>1, <2>2, <2>3, <2>4
<1>7. repairs' \in Nat /\ repairs' = Cardinality({i \in DOMAIN trail' : trail'[i].to = "repairing"})
  <2>1. repairs' = IF e.to = "repairing" THEN repairs + 1 ELSE repairs
    BY <1>2 DEF Enter, RepairsAfter
  <2>2. /\ repairs = Cardinality({i \in DOMAIN trail : trail[i].to = "repairing"})
        /\ repairs \in Nat
    BY <1>1 DEF TrailIsPath, TypeOK
  <2>3. Cardinality({i \in DOMAIN trail' : trail'[i].to = "repairing"}) =
            IF e.to = "repairing" THEN repairs + 1 ELSE repairs
    <3>1. trail \in Seq([from: Phases, to: Phases]) /\ e \in [from: Phases, to: Phases]
      BY <1>1
    <3>2. Cardinality({i \in DOMAIN Append(trail, e) : Append(trail, e)[i].to = "repairing"}) =
              IF e.to = "repairing"
              THEN Cardinality({i \in DOMAIN trail : trail[i].to = "repairing"}) + 1
              ELSE Cardinality({i \in DOMAIN trail : trail[i].to = "repairing"})
      BY <3>1, OneMoreRepair, Zenon
    <3>3. trail' = Append(trail, e)
      BY <1>2
    <3> QED
      BY <2>2, <3>2, <3>3
  <2> QED
    BY <2>1, <2>2, <2>3
<1>8. ended' \in BOOLEAN /\ (ended' <=> phase' \in Terminal)
  BY <1>1, <1>2 DEF Enter, TrailIsPath
<1>9. began' \in BOOLEAN /\ (began' <=> \E i \in DOMAIN trail' : trail'[i].to = "planning")
  <2>1. began' <=> began \/ target = "planning"
    <3>1. target = "planning" => phase = "created"
      <4>1. phase \in Phases
        BY <1>1, Zenon
      <4> QED
        BY <4>1, AllowedEnds, Zenon
    <3> QED
      BY <3>1, Zenon DEF Enter
  <2>2. began <=> \E i \in 1..n : trail[i].to = "planning"
    BY <1>1 DEF TrailIsPath, n
  <2>3. began' \in BOOLEAN
    BY DEF Enter
  <2>4. (\E i \in DOMAIN trail' : trail'[i].to = "planning") <=>
            (\E i \in 1..n : trail[i].to = "planning") \/ target = "planning"
    <3>1. \A i \in 1..(n + 1) : i \in 1..n \/ i = n + 1
      BY <1>1
    <3>2. n + 1 \in 1..(n + 1) /\ \A i \in 1..n : i \in 1..(n + 1)
      BY <1>1
    <3> QED
      BY <1>2, <1>3, <3>1, <3>2
  <2> QED
    BY <2>1, <2>2, <2>3, <2>4
<1>10. TypeOK'
  <2>1. Len(trail') <= MaxTrail
    BY <1>1, <1>3 DEF n
  <2>2. result' \in BOOLEAN /\ error' \in BOOLEAN
    BY <1>1 DEF TypeOK
  <2>3. observers' \in Seq(Observers) /\ joined' \in [Observers -> 0..MaxTrail]
    BY <1>1 DEF TypeOK, Enter
  <2> QED
    BY <1>2, <1>3, <1>7, <1>8, <1>9, <2>1, <2>2, <2>3 DEF TypeOK
<1>a. /\ \A m \in 1..n : trail[m].to \in Phases
      /\ \A m \in 1..(n + 1) : trail'[m].to \in Phases
  <2>1. \A m \in 1..n : trail[m] \in [from: Phases, to: Phases]
    BY <1>1, ElementOfSeq DEF n
  <2>2. \A m \in 1..(n + 1) : m \in 1..n \/ m = n + 1
    BY <1>1
  <2> QED
    BY <1>2, <1>3, <2>1, <2>2
<1>11. ASSUME NEW i \in 1..(n + 1), NEW j \in 1..(n + 1), i < j,
              \A k \in i..j : trail'[k].to # "repairing"
       PROVE  Rank[trail'[i].to] < Rank[trail'[j].to]
  <2>1. \A m \in 1..n : m \in DOMAIN trail /\ trail[m].to \in Phases
    BY <1>1, <1>a
  <2>2. i \in 1..n
    BY <1>1, <1>11
  <2>3. ASSUME NEW m \in 1..n, i < m, m <= j
        PROVE  Rank[trail[i].to] < Rank[trail[m].to]
    <3>1. \A k \in i..m : k \in i..j /\ k \in 1..n
      BY <1>1, <1>11, <2>2, <2>3
    <3>2. \A k \in i..m : trail[k].to # "repairing"
      BY <1>3, <1>11, <3>1
    <3> QED
      BY <2>1, <2>2, <2>3, <3>2 DEF RanksRise
  <2>4. CASE j \in 1..n
    BY <1>3, <1>11, <2>2, <2>3, <2>4
  <2>5. CASE j = n + 1
    <3>1. n \in 1..n /\ n \in i..j /\ j \in i..j /\ phase = trail[n].to /\ (i = n \/ i < n) /\ n <= j
      BY <1>1, <1>5, <2>2, <2>5
    <3>2. phase # "repairing" /\ target # "repairing"
      BY <1>2, <1>3, <1>11, <2>5, <3>1
    <3>3. Rank[phase] < Rank[target]
      BY <1>1, <3>2, AllowedRises
    <3>4. i < n => Rank[trail[i].to] < Rank[phase]
      BY <2>3, <3>1
    <3>5. /\ Rank[trail[i].to] \in Nat /\ Rank[phase] \in Nat /\ Rank[target] \in Nat
          /\ i = n => trail[i].to = phase
      BY <1>1, <2>1, <2>2, <3>1, AllowedRises
    <3>6. Rank[trail[i].to] < Rank[target]
      BY <3>1, <3>3, <3>4, <3>5
    <3> QED
      BY <1>2, <1>3, <2>2, <2>5, <3>6
  <2> QED
    BY <1>1, <2>4, <2>5
<1>12. RanksRise'
  BY <1>3, <1>11 DEF RanksRise
<1>13. ASSUME NEW i \in 1..(n + 1), NEW j \in 1..(n + 1), i < j, trail'[i].to = trail'[j].to
       PROVE  \E k \in i..j : trail'[k].to = "repairing"
  <2>1. Rank[trail'[i].to] \in Nat
    BY <1>a, AllowedRises
  <2> QED
    BY <1>11, <1>13, <2>1
<1>14. /\ phase' = IF trail' = <<>> THEN "created" ELSE Last(trail').to
       /\ \A i, j \in DOMAIN trail' :
            i < j /\ trail'[i].to = trail'[j].to => \E k \in i..j : trail'[k].to = "repairing"
  BY <1>2, <1>3, <1>4, <1>13
<1>15. TrailIsPath'
  BY <1>6, <1>7, <1>8, <1>9, <1>10, <1>14 DEF TrailIsPath
<1> QED
  BY <1>12, <1>15

\* The steps that leave the cycle where it is keep the path.
LEMMA PathStays ==
    ASSUME TrailIsPath, RanksRise, TypeOK', UNCHANGED cycle
    PROVE  TrailIsPath' /\ RanksRise'
BY DEF TrailIsPath, RanksRise, cycle

-----------------------------------------------------------------------------
(* The invariant *)

LEMMA InitIInv == Init => IInv
<1> SUFFICES ASSUME Init PROVE IInv
  OBVIOUS
<1>1. /\ phase = "created" /\ trail = <<>> /\ observers = <<>> /\ calls = <<>>
      /\ DOMAIN trail = {} /\ DOMAIN observers = {} /\ DOMAIN calls = {} /\ Len(trail) = 0
      /\ told = [o \in Observers |-> <<>>] /\ joined = [o \in Observers |-> 0]
      /\ ~began /\ ~ended /\ repairs = 0
  BY DEF Init
<1>2. TypeOK
  <2>1. phase \in Phases /\ <<>> \in Seq([from: Phases, to: Phases]) /\ Len(<<>>) <= MaxTrail
    BY <1>1, CycleAssumption DEF Phases
  <2>2. <<>> \in Seq(Observers) /\ <<>> \in Seq(Calls) /\ <<>> \in Seq(1..MaxTrail)
    OBVIOUS
  <2>3. told \in [Observers -> Seq(1..MaxTrail)] /\ joined \in [Observers -> 0..MaxTrail]
    BY <1>1, <2>2, CycleAssumption
  <2>4. /\ began \in BOOLEAN /\ ended \in BOOLEAN /\ repairs \in Nat
        /\ result \in BOOLEAN /\ error \in BOOLEAN
    BY DEF Init
  <2> QED
    BY <1>1, <2>1, <2>2, <2>3, <2>4 DEF TypeOK
<1>3. TrailIsPath /\ RanksRise
  <2>1. {i \in DOMAIN trail : trail[i].to = "repairing"} = {}
    BY <1>1
  <2>2. repairs = Cardinality({i \in DOMAIN trail : trail[i].to = "repairing"})
    BY <1>1, <2>1, FS_EmptySet
  <2> QED
    BY <1>1, <1>2, <2>2 DEF TrailIsPath, RanksRise, Terminal
<1>4. CallsStand
  BY <1>1 DEF CallsStand, IsInjective
<1>5. Told(calls, Len(trail))
  <2>1. ToSet(observers) = {} /\ ToSet(<<>>) = {} /\ IsInjective(<<>>)
    BY <1>1 DEF ToSet, IsInjective
  <2>2. \A o \in Observers : told[o] = <<>>
    BY <1>1
  <2> QED
    BY <2>1, <2>2 DEF Told
<1> QED
  BY <1>3, <1>4, <1>5 DEF IInv

\* An allowed transition, with the first observer told.
LEMMA EnterKeepsIInv ==
    ASSUME IInv, NEW target \in Phases, target \in Allowed[phase], Enter(target),
           UNCHANGED result \/ result' = TRUE, UNCHANGED error \/ error' = TRUE
    PROVE  IInv'
<1> DEFINE cs == Append(calls, [entry |-> Len(trail) + 1, next |-> 1])
<1>1. Ready(cs, Len(trail'))
  BY EnterReady
<1>2. TypeOK /\ Notify(cs) /\ UNCHANGED <<observers, joined>>
  BY DEF IInv, TrailIsPath, Enter
<1> HIDE DEF cs
<1>3. /\ calls' \in Seq(Calls) /\ told' \in [Observers -> Seq(1..MaxTrail)]
      /\ CallsStand' /\ Told(calls, Len(trail))'
  BY <1>1, <1>2, NotifyHolds
<1>4. TrailIsPath' /\ RanksRise'
  BY <1>3, EnterKeepsPath DEF IInv
<1> QED
  BY <1>3, <1>4 DEF IInv

\* A refused one: the result or the error may have been written all the same.
LEMMA RefuseKeepsIInv ==
    ASSUME IInv, Refuse, UNCHANGED result \/ result' = TRUE, UNCHANGED error \/ error' = TRUE
    PROVE  IInv'
<1>1. TypeOK'
  BY DEF IInv, TrailIsPath, TypeOK, Refuse, cycle
<1>2. TrailIsPath' /\ RanksRise'
  BY <1>1, PathStays DEF IInv, Refuse
<1>3. CallsStand' /\ Told(calls, Len(trail))'
  BY DEF IInv, CallsStand, Told, Refuse, cycle
<1> QED
  BY <1>2, <1>3 DEF IInv

LEMMA ObserverEndsKeepsIInv ==
    ASSUME IInv, ObserverEnds
    PROVE  IInv'
<1> DEFINE cs == Append(Front(calls), [Last(calls) EXCEPT !.next = @ + 1])
<1>1. /\ Notify(cs) /\ UNCHANGED <<observers, joined>>
      /\ UNCHANGED cycle /\ UNCHANGED <<result, error>> /\ trail' = trail
  BY DEF ObserverEnds, cycle
<1>2. Ready(cs, Len(trail'))
  BY <1>1, ObserverEndsReady DEF ObserverEnds
<1> HIDE DEF cs
<1>3. /\ calls' \in Seq(Calls) /\ told' \in [Observers -> Seq(1..MaxTrail)]
      /\ CallsStand' /\ Told(calls, Len(trail))'
  BY <1>1, <1>2, NotifyHolds DEF IInv, TrailIsPath
<1>4. TypeOK'
  BY <1>1, <1>3 DEF IInv, TrailIsPath, TypeOK, cycle
<1>5. TrailIsPath' /\ RanksRise'
  BY <1>1, <1>4, PathStays DEF IInv
<1> QED
  BY <1>3, <1>5 DEF IInv

\* A new observer stands behind those the calls have still to tell, and owes
\* nothing of what was made before he came.
LEMMA AddObserverKeepsIInv ==
    ASSUME IInv, NEW o \in Observers, AddObserver(o)
    PROVE  IInv'
<1> DEFINE n == Len(observers)
<1>1. /\ TypeOK /\ observers \in Seq(Observers) /\ o \notin ToSet(observers)
      /\ observers' = Append(observers, o)
      /\ joined' = [joined EXCEPT ![o] = Len(trail)]
      /\ UNCHANGED <<cycle, result, error, calls, told>> /\ trail' = trail
  BY DEF AddObserver, IInv, TrailIsPath, TypeOK, cycle
<1>2. /\ observers' \in Seq(Observers) /\ DOMAIN observers = 1..n
      /\ DOMAIN observers' = 1..(n + 1) /\ n \in Nat
      /\ \A i \in 1..n : observers'[i] = observers[i]
      /\ observers'[n + 1] = o
      /\ ToSet(observers') = ToSet(observers) \cup {o}
      /\ IsInjective(observers')
  <2>1. IsInjective(observers)
    BY DEF IInv, CallsStand
  <2> QED
    BY <1>1, <2>1, AppendElements, AppendKeepsInjective, LenProperties
<1> HIDE DEF n
<1>3. told[o] = <<>> /\ ToSet(told[o]) = {}
  BY <1>1 DEF IInv, Told, ToSet
<1>4. /\ Len(trail) \in 0..MaxTrail
      /\ joined' \in [Observers -> 0..MaxTrail] /\ joined'[o] = Len(trail)
      /\ \A p \in Observers \ {o} : joined'[p] = joined[p]
  BY <1>1, CycleAssumption, LenProperties DEF TypeOK
<1>5. TypeOK'
  BY <1>1, <1>2, <1>4 DEF TypeOK, cycle
<1>6. TrailIsPath' /\ RanksRise'
  BY <1>1, <1>5, PathStays DEF IInv
<1>7. CallsStand'
  <2>1. ASSUME NEW k \in DOMAIN calls
        PROVE  /\ calls[k].next \in 1..(n + 1)
               /\ \A i \in 1..(n + 1) :
                    calls[k].entry \in ToSet(told[observers'[i]]) <=> i <= calls[k].next
    <3>1. /\ calls[k].next \in 1..n
          /\ \A i \in 1..n :
               calls[k].entry \in ToSet(told[observers[i]]) <=> i <= calls[k].next
      BY <1>2 DEF IInv, CallsStand
    <3>2. ~(n + 1 <= calls[k].next) /\ calls[k].next \in 1..(n + 1)
      BY <1>2, <3>1
    <3>3. \A i \in 1..(n + 1) : i \in 1..n \/ i = n + 1
      BY <1>2
    <3> QED
      BY <1>2, <1>3, <3>1, <3>2, <3>3
  <2> QED
    BY <1>1, <1>2, <2>1 DEF IInv, CallsStand
<1>8. Told(calls, Len(trail))'
  <2>1. (Len(trail) + 1)..Len(trail) = {}
    BY <1>4
  <2> QED
    BY <1>1, <1>2, <1>4, <2>1 DEF IInv, Told
<1> QED
  BY <1>6, <1>7, <1>8 DEF IInv

\* Every step keeps the invariant.
LEMMA NextIInv == IInv /\ [Next]_vars => IInv'
<1> SUFFICES ASSUME IInv, [Next]_vars PROVE IInv'
  OBVIOUS
<1>1. phase \in Phases
  BY DEF IInv, TrailIsPath, TypeOK
<1>2. CASE Complete
  BY <1>2, EnterKeepsIInv, RefuseKeepsIInv DEF Complete, Phases
<1>3. CASE Fail
  BY <1>3, EnterKeepsIInv, RefuseKeepsIInv DEF Fail, Phases
<1>4. CASE ObserverEnds
  BY <1>4, ObserverEndsKeepsIInv
<1>5. ASSUME NEW target \in Phases, Transition(target)
      PROVE  IInv'
  BY <1>5, EnterKeepsIInv DEF Transition
<1>6. ASSUME NEW o \in Observers, AddObserver(o)
      PROVE  IInv'
  BY <1>6, AddObserverKeepsIInv
<1>7. CASE UNCHANGED vars
  BY <1>7 DEF IInv, TrailIsPath, RanksRise, TypeOK, CallsStand, Told, vars, cycle
<1> QED
  BY <1>2, <1>3, <1>4, <1>5, <1>6, <1>7 DEF Next

\* The invariant holds in every reachable state.
THEOREM IInvHolds == Spec => []IInv
BY InitIInv, NextIInv, PTL DEF Spec

\* The audit trail is a path from CREATED to the current phase that comes back
\* to a phase only through a repair, and phase, counters and time stamps are
\* what it says, however deep the observers' own transitions nest.
THEOREM TrailIsPathHolds == Spec => []TrailIsPath
<1>1. IInv => TrailIsPath
  BY DEF IInv
<1> QED
  BY <1>1, IInvHolds, PTL

\* No observer is told twice, and when every call has returned each was told
\* of every transition since he was added.
THEOREM ToldOfEachHolds == Spec => []ToldOfEach
<1>1. IInv => ToldOfEach
  <2> SUFFICES ASSUME IInv PROVE ToldOfEach
    OBVIOUS
  <2>1. ToSet(observers) \subseteq Observers
    BY ElementOfSeq, LenProperties DEF IInv, TrailIsPath, TypeOK, ToSet
  <2>2. ASSUME NEW o \in ToSet(observers)
        PROVE  /\ IsInjective(told[o])
               /\ calls = <<>> => (joined[o] + 1)..Len(trail) \subseteq ToSet(told[o])
    <3>1. IsInjective(told[o])
      BY <2>1, <2>2 DEF IInv, Told
    <3>2. ASSUME calls = <<>>, NEW e \in (joined[o] + 1)..Len(trail)
          PROVE  e \in ToSet(told[o])
      <4>1. DOMAIN calls = {}
        BY <3>2
      <4> QED
        BY <2>1, <2>2, <3>2, <4>1 DEF IInv, Told
    <3> QED
      BY <3>1, <3>2
  <2> QED
    BY <2>2 DEF ToldOfEach
<1> QED
  BY <1>1, IInvHolds, PTL
=============================================================================
