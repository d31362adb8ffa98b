--------------------------- MODULE NotificationProofs ---------------------------
(***************************************************************************)
(* The two components that notify others of what happens, proved for any   *)
(* number of subscribers, events, observers and threads: the event bus,    *)
(* whose definitions appear under their own names, and the phase store,    *)
(* whose operators are those of Store.                                     *)
(***************************************************************************)
EXTENDS EventBus, PhaseStoreState, SequenceLemmas

Store == INSTANCE RuntimeState

-----------------------------------------------------------------------------
(* The event bus *)

Outcomes == {"none", "running", "returned", "raised", "cancelled"}

\* How a publication stands: it awaits the first handler of those it has left,
\* and the others have not been called.
Stands(p, q, o) ==
    /\ p # "delivering" => q = <<>> /\ \A s \in Subs : o[s] # "running"
    /\ p = "new" => \A s \in Subs : o[s] = "none"
    /\ p = "delivering" =>
         /\ q # <<>> /\ IsInjective(q)
         /\ \A s \in Subs : o[s] = "running" <=> s = q[1]
         /\ \A s \in ToSet(Tail(q)) : o[s] = "none"

Counted(S, n) == IsFiniteSet(S) /\ Cardinality(S) = n

Took(e)   == {s \in Subs : outcome[e][s] = "returned"}
Failed    == {c \in Events \X Subs : outcome[c[1]][c[2]] = "raised"}
Published == {e \in Events : pub[e] # "new"}

BusInv ==
    /\ TypeOK /\ IsInjective(table)
    /\ \A e \in Events : Stands(pub[e], todo[e], outcome[e]) /\ Counted(Took(e), delivered[e])
    /\ Counted(Failed, errors) /\ Counted(Published, sequence)
    /\ LatestFailures

-----------------------------------------------------------------------------
(* What the operators of the bus return *)

LEMMA AwaitNextSkips ==
    ASSUME NEW q \in Seq(Subs), IsInjective(q)
    PROVE  /\ AwaitNext(q) \in Seq(Subs) /\ IsInjective(AwaitNext(q))
           /\ ToSet(AwaitNext(q)) \subseteq ToSet(q)
           /\ \A s \in ToSet(q) \ ToSet(AwaitNext(q)) : s \notin active
           /\ AwaitNext(q) # <<>> => AwaitNext(q)[1] \in active
<1> DEFINE Alive == {i \in DOMAIN q : q[i] \in active}
<1>1. DOMAIN q = 1..Len(q) /\ Len(q) \in Nat
  BY LenProperties
<1>2. CASE Alive = {}
  <2>1. AwaitNext(q) = <<>>
    BY <1>2 DEF AwaitNext
  <2>2. <<>> \in Seq(Subs) /\ IsInjective(<<>>) /\ ToSet(<<>>) = {}
    BY DEF IsInjective, ToSet
  <2>3. \A s \in ToSet(q) : s \notin active
    BY <1>2 DEF ToSet
  <2> QED BY <2>1, <2>2, <2>3
<1>3. CASE Alive # {}
  <2>1. PICK m : m = Min(Alive)
    OBVIOUS
  <2>2. Alive \in SUBSET Nat
    BY <1>1
  <2>3. m \in Alive /\ \A i \in Alive : m <= i
    <3> HIDE DEF Alive
    <3> QED BY <1>3, <2>1, <2>2, MinElement
  <2>4. AwaitNext(q) = SubSeq(q, m, Len(q))
    BY <1>3, <2>1 DEF AwaitNext
  <2>5. m \in 1..(Len(q) + 1) /\ m \in 1..Len(q) /\ q[m] \in active
    BY <1>1, <2>3
  <2>6. /\ AwaitNext(q) \in Seq(Subs) /\ IsInjective(AwaitNext(q))
        /\ \A i \in 1..(Len(q) - m + 1) : AwaitNext(q)[i] = q[m + i - 1]
        /\ ToSet(AwaitNext(q)) = {q[i] : i \in m..Len(q)}
    BY <2>4, <2>5, SuffixElements
  <2>7. AwaitNext(q)[1] = q[m]
    BY <1>1, <2>5, <2>6
  <2>8. ToSet(AwaitNext(q)) \subseteq ToSet(q)
    <3>1. \A i \in m..Len(q) : i \in DOMAIN q
      BY <1>1, <2>5
    <3> QED BY <2>6, <3>1 DEF ToSet
  <2>9. ASSUME NEW s \in ToSet(q), s \in active PROVE s \in ToSet(AwaitNext(q))
    <3>1. PICK i \in 1..Len(q) : q[i] = s
      BY <1>1 DEF ToSet
    <3>2. i \in Alive /\ m <= i
      BY <1>1, <2>3, <2>9, <3>1
    <3>3. i \in m..Len(q)
      BY <1>1, <2>5, <3>2
    <3> QED BY <2>6, <3>1, <3>3
  <2> QED BY <2>5, <2>6, <2>7, <2>8, <2>9
<1> QED
  BY <1>2, <1>3

\* Those that an event is for, each of them once.
LEMMA CollectedMatch ==
    ASSUME table \in Seq(Subs), NEW e \in Events, NEW q \in Collected(e)
    PROVE  /\ q \in Seq(Subs) /\ IsInjective(q)
           /\ ToSet(q) = {s \in ToSet(table) : Matches(s, e)}
<1> DEFINE M == {s \in ToSet(table) : Matches(s, e)}
<1>1. IsFiniteSet(M) /\ M \subseteq Subs
  <2>1. DOMAIN table = 1..Len(table) /\ Len(table) \in Nat
    BY LenProperties
  <2>2. IsFiniteSet(1..Len(table))
    BY <2>1, FS_Interval
  <2>3. ToSet(table) \subseteq Subs
    BY <2>1, ElementOfSeq DEF ToSet
  <2>4. [i \in 1..Len(table) |-> table[i]] \in Surjection(1..Len(table), ToSet(table))
    BY <2>1 DEF Surjection, ToSet
  <2>5. IsFiniteSet(ToSet(table))
    BY <2>2, <2>4, FS_Surjection
  <2> QED BY <2>3, <2>5, FS_Subset
<1>2. PICK n \in Nat : n = Cardinality(M)
  BY <1>1, FS_CardinalityType
<1>3. q \in [1..n -> M] /\ \A i, k \in 1..n : i # k => q[i] # q[k]
  BY <1>2 DEF Collected, SetToSeqs
<1>4. q \in Seq(Subs) /\ DOMAIN q = 1..n
  BY <1>1, <1>3
<1>5. IsInjective(q)
  BY <1>3, <1>4 DEF IsInjective
<1>6. ToSet(q) = M
  <2>1. q \in Injection(1..n, M)
    <3>1. \A i, k \in 1..n : q[i] = q[k] => i = k
      BY <1>3
    <3> QED BY <1>3, <3>1 DEF Injection, IsInjective
  <2>2. Cardinality(1..n) = n
    BY FS_Interval
  <2>3. q \in Surjection(1..n, M)
    <3> HIDE DEF M
    <3> QED BY <1>1, <1>2, <2>1, <2>2, FS_Injection
  <2> QED BY <1>4, <2>3 DEF Surjection, ToSet
<1> QED
  BY <1>4, <1>5, <1>6

\* The loop leaves a publication in order, with one more handler running or none.
LEMMA LoopKeeps ==
    ASSUME TypeOK, NEW e \in Events, NEW q \in Seq(Subs), IsInjective(q),
           NEW calls \in [Subs -> Outcomes \ {"running"}], \A s \in ToSet(q) : calls[s] = "none",
           Loop(e, q, calls)
    PROVE  /\ todo' \in [Events -> Seq(Subs)]
           /\ pub' \in [Events -> {"new", "delivering", "returned", "cancelled"}]
           /\ outcome' \in [Events -> [Subs -> Outcomes]]
           /\ \A f \in Events : f # e =>
                todo'[f] = todo[f] /\ pub'[f] = pub[f] /\ outcome'[f] = outcome[f]
           /\ pub'[e] # "new" /\ Stands(pub'[e], todo'[e], outcome'[e])
           /\ \A s \in Subs : outcome'[e][s] = calls[s]
                                \/ (calls[s] = "none" /\ outcome'[e][s] = "running")
           /\ ToSet(todo'[e]) \subseteq ToSet(q)
           /\ \A s \in ToSet(q) \ ToSet(todo'[e]) : s \notin active
           /\ todo'[e] # <<>> => todo'[e][1] \in active /\ pub'[e] = "delivering"
           /\ todo'[e] = <<>> => pub'[e] # "delivering"
<1>1. PICK rest : rest = AwaitNext(q)
  OBVIOUS
<1>2. /\ rest \in Seq(Subs) /\ IsInjective(rest) /\ ToSet(rest) \subseteq ToSet(q)
      /\ \A s \in ToSet(q) \ ToSet(rest) : s \notin active
      /\ rest # <<>> => rest[1] \in active
  BY <1>1, AwaitNextSkips
<1>3. /\ todo' = [todo EXCEPT ![e] = rest]
      /\ pub' = [pub EXCEPT ![e] = IF rest = <<>> THEN "returned" ELSE "delivering"]
      /\ outcome' = [outcome EXCEPT ![e] = IF rest = <<>> THEN calls
                                           ELSE [calls EXCEPT ![Head(rest)] = "running"]]
  BY <1>1 DEF Loop
<1>4. /\ todo \in [Events -> Seq(Subs)]
      /\ pub \in [Events -> {"new", "delivering", "returned", "cancelled"}]
      /\ outcome \in [Events -> [Subs -> Outcomes]]
  BY DEF TypeOK, Outcomes
<1>5. /\ todo'[e] = rest
      /\ \A f \in Events : f # e =>
           todo'[f] = todo[f] /\ pub'[f] = pub[f] /\ outcome'[f] = outcome[f]
  BY <1>3, <1>4
<1>6. CASE rest = <<>>
  <2>1. pub'[e] = "returned" /\ outcome'[e] = calls
    BY <1>3, <1>4, <1>6
  <2>2. calls \in [Subs -> Outcomes] /\ \A s \in Subs : calls[s] # "running"
    BY DEF Outcomes
  <2>3. /\ todo' \in [Events -> Seq(Subs)]
        /\ pub' \in [Events -> {"new", "delivering", "returned", "cancelled"}]
        /\ outcome' \in [Events -> [Subs -> Outcomes]]
    BY <1>2, <1>3, <1>4, <1>6, <2>2
  <2>4. Stands(pub'[e], todo'[e], outcome'[e])
    BY <1>5, <1>6, <2>1, <2>2 DEF Stands
  <2> QED BY <1>2, <1>5, <1>6, <2>1, <2>3, <2>4
<1>7. CASE rest # <<>>
  <2>1. /\ Head(rest) = rest[1] /\ rest[1] \in Subs
        /\ ToSet(rest) = ToSet(Tail(rest)) \cup {rest[1]} /\ rest[1] \notin ToSet(Tail(rest))
    BY <1>2, <1>7, TailElements
  <2>2. pub'[e] = "delivering" /\ outcome'[e] = [calls EXCEPT ![rest[1]] = "running"]
    BY <1>3, <1>4, <1>7, <2>1
  <2>3. /\ outcome'[e] \in [Subs -> Outcomes]
        /\ \A s \in Subs : outcome'[e][s] = IF s = rest[1] THEN "running" ELSE calls[s]
    BY <2>1, <2>2 DEF Outcomes
  <2>4. /\ todo' \in [Events -> Seq(Subs)]
        /\ pub' \in [Events -> {"new", "delivering", "returned", "cancelled"}]
        /\ outcome' \in [Events -> [Subs -> Outcomes]]
    BY <1>2, <1>3, <1>4, <1>7, <2>2, <2>3
  <2>5. \A s \in ToSet(rest) : s \in Subs /\ calls[s] = "none"
    <3>1. \A s \in ToSet(rest) : s \in Subs
      <4>1. DOMAIN rest = 1..Len(rest) /\ \A i \in 1..Len(rest) : rest[i] \in Subs
        BY <1>2, LenProperties, ElementOfSeq
      <4> QED BY <4>1 DEF ToSet
    <3> QED BY <1>2, <3>1
  <2>6. Stands(pub'[e], todo'[e], outcome'[e])
    <3>1. \A s \in Subs : outcome'[e][s] = "running" <=> s = rest[1]
      BY <2>3
    <3>2. \A s \in ToSet(Tail(rest)) : outcome'[e][s] = "none"
      BY <2>1, <2>3, <2>5
    <3> QED BY <1>2, <1>5, <1>7, <2>2, <3>1, <3>2 DEF Stands
  <2>7. \A s \in Subs : outcome'[e][s] = calls[s]
                          \/ (calls[s] = "none" /\ outcome'[e][s] = "running")
    BY <2>1, <2>3, <2>5
  <2> QED BY <1>2, <1>5, <1>7, <2>2, <2>4, <2>6, <2>7
<1> QED
  BY <1>6, <1>7
-----------------------------------------------------------------------------
(* Every step keeps the invariant *)

LEMMA InitBusInv == Init => BusInv
<1> SUFFICES ASSUME Init PROVE BusInv
  OBVIOUS
<1>1. /\ started = FALSE /\ table = <<>> /\ active = {}
      /\ pub = [e \in Events |-> "new"] /\ todo = [e \in Events |-> <<>>]
      /\ delivered = [e \in Events |-> 0] /\ sequence = 0
      /\ errors = 0 /\ dead = <<>> /\ failures = <<>>
      /\ outcome = [e \in Events |-> [s \in Subs |-> "none"]]
  BY DEF Init
<1>2. TypeOK /\ IsInjective(table)
  <2>1. <<>> \in Seq(Subs) /\ <<>> \in Seq(Letters) /\ Len(<<>>) = 0 /\ IsInjective(<<>>)
    BY DEF IsInjective
  <2>2. 0 <= MaxDead
    BY BusAssumption
  <2> QED BY <1>1, <2>1, <2>2 DEF TypeOK
<1>3. \A e \in Events : Stands(pub[e], todo[e], outcome[e]) /\ Took(e) = {}
  BY <1>1 DEF Stands, Took
<1>4. Failed = {} /\ Published = {}
  BY <1>1 DEF Failed, Published
<1>5. Counted({}, 0)
  BY FS_EmptySet DEF Counted
<1>6. LatestFailures
  <2>1. Len(failures) = 0 /\ Len(dead) = 0
    BY <1>1
  <2>2. SubSeq(failures, 0 - 0 + 1, 0) = <<>>
    BY SubSeqEmpty
  <2> QED BY <1>1, <2>1, <2>2, BusAssumption DEF LatestFailures
<1> QED
  BY <1>1, <1>2, <1>3, <1>4, <1>5, <1>6 DEF BusInv

\* Types, one by one.
LEMMA BusTypes ==
    ASSUME BusInv
    PROVE  /\ table \in Seq(Subs) /\ IsInjective(table) /\ active \subseteq ToSet(table)
           /\ pub \in [Events -> {"new", "delivering", "returned", "cancelled"}]
           /\ todo \in [Events -> Seq(Subs)] /\ delivered \in [Events -> Nat]
           /\ sequence \in Nat /\ errors \in Nat
           /\ dead \in Seq(Letters) /\ Len(dead) <= MaxDead /\ failures \in Seq(Letters)
           /\ outcome \in [Events -> [Subs -> Outcomes]]
           /\ MaxDead \in Nat \ {0}
  BY BusAssumption DEF BusInv, TypeOK, Outcomes

\* A table with one more subscription, or one less active.
LEMMA TableKeeps ==
    ASSUME BusInv, NEW s \in Subs, Subscribe(s) \/ Unsubscribe(s)
    PROVE  /\ BusInv' /\ UNCHANGED <<todo, outcome>>
           /\ Subscribe(s) => ToSet(table') = ToSet(table) \cup {s}
<1>1. UNCHANGED <<started, pub, todo, delivered, sequence, outcome, errors, dead, failures>>
  BY DEF Subscribe, Unsubscribe, publications, deadLetters
<1>2. /\ table' \in Seq(Subs) /\ IsInjective(table') /\ active' \subseteq ToSet(table')
      /\ Subscribe(s) => ToSet(table') = ToSet(table) \cup {s}
  <2>1. CASE Subscribe(s)
    <3>1. /\ s \notin ToSet(table) /\ table' = InsertAt(table, Place(s), s)
          /\ active' = active \cup {s}
      BY <2>1 DEF Subscribe
    <3>2. Place(s) \in 1..(Len(table) + 1)
      <4> DEFINE Same == {i \in DOMAIN table : SubType[table[i]] = SubType[s]}
      <4>1. DOMAIN table = 1..Len(table) /\ Len(table) \in Nat
        BY BusTypes, LenProperties
      <4>2. CASE Same = {}
        BY <4>1, <4>2 DEF Place
      <4>3. CASE Same # {}
        <5>1. /\ Same \in SUBSET Nat /\ Same \subseteq 1..Len(table)
              /\ \A i \in Same : i <= Len(table)
          BY <4>1
        <5>2. Max(Same) \in Same
          <6> HIDE DEF Same
          <6> QED BY <4>1, <4>3, <5>1, MaxElement
        <5>3. Place(s) = Max(Same) + 1
          BY <4>3 DEF Place
        <5>4. Max(Same) \in 1..Len(table)
          BY <5>1, <5>2
        <5> HIDE DEF Same
        <5> QED BY <4>1, <5>3, <5>4
      <4> QED BY <4>2, <4>3
    <3>3. /\ table' \in Seq(Subs) /\ IsInjective(table')
          /\ ToSet(table') = ToSet(table) \cup {s}
      BY <3>1, <3>2, BusTypes, InsertAtAdds
    <3> QED BY <3>1, <3>3, BusTypes
  <2>2. CASE Unsubscribe(s) /\ ~Subscribe(s)
    BY <2>2, BusTypes DEF Unsubscribe
  <2> QED BY <2>1, <2>2
<1>3. TypeOK'
  BY <1>1, <1>2 DEF BusInv, TypeOK
<1>4. \A e \in Events : Stands(pub'[e], todo'[e], outcome'[e]) /\ Counted(Took(e)', delivered'[e])
  BY <1>1 DEF BusInv, Took
<1>5. Counted(Failed', errors') /\ Counted(Published', sequence')
  BY <1>1 DEF BusInv, Failed, Published
<1>6. LatestFailures'
  BY <1>1 DEF BusInv, LatestFailures
<1> QED
  BY <1>1, <1>2, <1>3, <1>4, <1>5, <1>6 DEF BusInv

LEMMA StartsAndClearsKeep ==
    ASSUME BusInv, Start \/ ClearDeadLetters
    PROVE  BusInv' /\ UNCHANGED <<table, active, todo, outcome>>
<1>1. UNCHANGED <<table, active, pub, todo, delivered, sequence, outcome, errors>>
  BY DEF Start, ClearDeadLetters, publications, deadLetters
<1>2. \/ UNCHANGED <<dead, failures>> /\ started' \in BOOLEAN
      \/ dead' = <<>> /\ failures' = <<>> /\ UNCHANGED started
  BY DEF Start, ClearDeadLetters, deadLetters
<1>3. <<>> \in Seq(Letters) /\ Len(<<>>) = 0 /\ MaxDead \in Nat \ {0}
  BY BusTypes
<1>4. TypeOK'
  <2>1. TypeOK /\ started' \in BOOLEAN /\ dead' \in Seq(Letters) /\ Len(dead') <= MaxDead
        /\ failures' \in Seq(Letters)
    <3>1. TypeOK
      BY DEF BusInv
    <3>2. CASE UNCHANGED <<dead, failures>> /\ started' \in BOOLEAN
      BY <3>1, <3>2 DEF TypeOK
    <3>3. CASE dead' = <<>> /\ failures' = <<>> /\ UNCHANGED started
      BY <1>3, <3>1, <3>3 DEF TypeOK
    <3> QED BY <1>2, <3>1, <3>2, <3>3
  <2> QED BY <1>1, <2>1 DEF TypeOK
<1>5. \A e \in Events : Stands(pub'[e], todo'[e], outcome'[e]) /\ Counted(Took(e)', delivered'[e])
  BY <1>1 DEF BusInv, Took
<1>6. Counted(Failed', errors') /\ Counted(Published', sequence')
  BY <1>1 DEF BusInv, Failed, Published
<1>7. LatestFailures'
  <2>1. CASE UNCHANGED <<dead, failures>>
    BY <2>1 DEF BusInv, LatestFailures
  <2>2. CASE dead' = <<>> /\ failures' = <<>>
    <3>1. SubSeq(<<>>, 0 - 0 + 1, 0) = <<>>
      BY SubSeqEmpty
    <3> QED BY <1>3, <2>2, <3>1 DEF LatestFailures
  <2> QED BY <1>2, <2>1, <2>2
<1> QED
  BY <1>1, <1>4, <1>5, <1>6, <1>7 DEF BusInv

LEMMA PublishKeeps ==
    ASSUME BusInv, NEW e \in Events, Publish(e)
    PROVE  BusInv'
<1>1. PICK q \in Collected(e) : Loop(e, q, outcome[e])
  BY DEF Publish
<1>2. /\ pub[e] = "new" /\ sequence' = sequence + 1
      /\ UNCHANGED <<started, table, active, delivered, errors, dead, failures>>
  BY DEF Publish, deadLetters
<1>3. q \in Seq(Subs) /\ IsInjective(q) /\ ToSet(q) \subseteq ToSet(table)
  BY <1>1, BusTypes, CollectedMatch
<1>4. \A s \in Subs : outcome[e][s] = "none"
  BY <1>2 DEF BusInv, Stands
<1>5. outcome[e] \in [Subs -> Outcomes \ {"running"}] /\ \A s \in ToSet(q) : outcome[e][s] = "none"
  <2>1. outcome[e] \in [Subs -> Outcomes]
    BY BusTypes
  <2>2. ToSet(q) \subseteq Subs
    BY <1>3, LenProperties, ElementOfSeq DEF ToSet
  <2> QED BY <1>4, <2>1, <2>2 DEF Outcomes
<1>6. /\ todo' \in [Events -> Seq(Subs)]
      /\ pub' \in [Events -> {"new", "delivering", "returned", "cancelled"}]
      /\ outcome' \in [Events -> [Subs -> Outcomes]]
      /\ \A f \in Events : f # e =>
           todo'[f] = todo[f] /\ pub'[f] = pub[f] /\ outcome'[f] = outcome[f]
      /\ pub'[e] # "new" /\ Stands(pub'[e], todo'[e], outcome'[e])
      /\ \A s \in Subs : outcome'[e][s] = outcome[e][s]
                           \/ (outcome[e][s] = "none" /\ outcome'[e][s] = "running")
  BY <1>1, <1>3, <1>5, LoopKeeps DEF BusInv
<1>7. \A f \in Events, s \in Subs :
        /\ outcome'[f][s] = "returned" <=> outcome[f][s] = "returned"
        /\ outcome'[f][s] = "raised" <=> outcome[f][s] = "raised"
  BY <1>6
<1>8. (\A f \in Events : Took(f)' = Took(f)) /\ Failed' = Failed
  BY <1>7 DEF Took, Failed
<1>9. Counted(Published', sequence')
  <2>1. Published' = Published \cup {e} /\ e \notin Published
    BY <1>2, <1>6 DEF Published
  <2>2. Counted(Published, sequence) /\ sequence \in Nat
    BY BusTypes DEF BusInv
  <2> QED BY <1>2, <2>1, <2>2, FS_AddElement DEF Counted
<1>10. TypeOK'
  BY <1>2, <1>6 DEF BusInv, TypeOK, Outcomes
<1>11. \A f \in Events : Stands(pub'[f], todo'[f], outcome'[f]) /\ Counted(Took(f)', delivered'[f])
  BY <1>2, <1>6, <1>8 DEF BusInv
<1>12. Counted(Failed', errors') /\ LatestFailures'
  BY <1>2, <1>8 DEF BusInv, LatestFailures
<1> QED
  BY <1>2, <1>9, <1>10, <1>11, <1>12 DEF BusInv

\* What a handler's end hands to the loop.
LEMMA CallEnds ==
    ASSUME BusInv, NEW e \in Events, pub[e] = "delivering", NEW how \in {"returned", "raised"}
    PROVE  LET h == Head(todo[e])  calls == [outcome[e] EXCEPT ![h] = how] IN
           /\ h \in Subs /\ outcome[e][h] = "running"
           /\ {s \in Subs : outcome[e][s] = "running"} = {h}
           /\ Tail(todo[e]) \in Seq(Subs) /\ IsInjective(Tail(todo[e]))
           /\ ToSet(todo[e]) \ {h} = ToSet(Tail(todo[e]))
           /\ calls \in [Subs -> Outcomes \ {"running"}]
           /\ \A s \in Subs : calls[s] = IF s = h THEN how ELSE outcome[e][s]
           /\ \A s \in ToSet(Tail(todo[e])) : calls[s] = "none"
<1>1. PICK q \in Seq(Subs) : q = todo[e]
  BY BusTypes
<1>2. PICK o \in [Subs -> Outcomes] : o = outcome[e]
  BY BusTypes
<1>3. /\ q # <<>> /\ IsInjective(q) /\ \A s \in Subs : o[s] = "running" <=> s = q[1]
      /\ \A s \in ToSet(Tail(q)) : o[s] = "none"
  BY <1>1, <1>2 DEF BusInv, Stands
<1>4. /\ Head(q) = q[1] /\ q[1] \in Subs /\ Tail(q) \in Seq(Subs) /\ IsInjective(Tail(q))
      /\ ToSet(q) = ToSet(Tail(q)) \cup {q[1]} /\ q[1] \notin ToSet(Tail(q))
  BY <1>3, TailElements
<1>5. PICK calls : calls = [o EXCEPT ![q[1]] = how]
  OBVIOUS
<1>6. /\ calls \in [Subs -> Outcomes \ {"running"}]
      /\ \A s \in Subs : calls[s] = IF s = q[1] THEN how ELSE o[s]
  BY <1>3, <1>4, <1>5 DEF Outcomes
<1>7. ToSet(Tail(q)) \subseteq Subs
  <2>1. /\ DOMAIN Tail(q) = 1..Len(Tail(q))
        /\ \A i \in 1..Len(Tail(q)) : Tail(q)[i] \in Subs
    BY <1>4, LenProperties, ElementOfSeq
  <2> QED BY <2>1 DEF ToSet
<1>8. \A s \in ToSet(Tail(q)) : calls[s] = "none"
  BY <1>3, <1>4, <1>6, <1>7
<1>9. {s \in Subs : o[s] = "running"} = {q[1]} /\ ToSet(q) \ {q[1]} = ToSet(Tail(q))
  BY <1>3, <1>4
<1> QED
  BY <1>1, <1>2, <1>3, <1>4, <1>5, <1>6, <1>8, <1>9
\* The calls that a handler's end counts.
LEMMA CallEndsCount ==
    ASSUME BusInv, NEW e \in Events, pub[e] = "delivering", NEW how \in {"returned", "raised"},
           Loop(e, Tail(todo[e]), [outcome[e] EXCEPT ![Head(todo[e])] = how])
    PROVE  LET h == Head(todo[e]) IN
           /\ todo' \in [Events -> Seq(Subs)]
           /\ pub' \in [Events -> {"new", "delivering", "returned", "cancelled"}]
           /\ outcome' \in [Events -> [Subs -> Outcomes]]
           /\ \A f \in Events : Stands(pub'[f], todo'[f], outcome'[f])
           /\ Published' = Published
           /\ h \notin Took(e) /\ <<e, h>> \notin Failed
           /\ \A f \in Events : f # e => Took(f)' = Took(f)
           /\ Took(e)' = IF how = "returned" THEN Took(e) \cup {h} ELSE Took(e)
           /\ Failed' = IF how = "raised" THEN Failed \cup {<<e, h>>} ELSE Failed
<1>1. PICK h \in Subs : h = Head(todo[e])
  BY CallEnds
<1>2. PICK calls \in [Subs -> Outcomes \ {"running"}] :
        /\ calls = [outcome[e] EXCEPT ![h] = how]
        /\ \A s \in Subs : calls[s] = IF s = h THEN how ELSE outcome[e][s]
        /\ \A s \in ToSet(Tail(todo[e])) : calls[s] = "none"
  <2>1. /\ [outcome[e] EXCEPT ![h] = how] \in [Subs -> Outcomes \ {"running"}]
        /\ \A s \in Subs :
             [outcome[e] EXCEPT ![h] = how][s] = IF s = h THEN how ELSE outcome[e][s]
        /\ \A s \in ToSet(Tail(todo[e])) : [outcome[e] EXCEPT ![h] = how][s] = "none"
    BY <1>1, CallEnds
  <2> QED BY <2>1
<1>3. /\ outcome[e][h] = "running" /\ Tail(todo[e]) \in Seq(Subs) /\ IsInjective(Tail(todo[e]))
  BY <1>1, CallEnds
<1>4. Loop(e, Tail(todo[e]), calls)
  BY <1>1, <1>2
<1>5. /\ todo' \in [Events -> Seq(Subs)]
      /\ pub' \in [Events -> {"new", "delivering", "returned", "cancelled"}]
      /\ outcome' \in [Events -> [Subs -> Outcomes]]
      /\ \A f \in Events : f # e =>
           todo'[f] = todo[f] /\ pub'[f] = pub[f] /\ outcome'[f] = outcome[f]
      /\ pub'[e] # "new" /\ Stands(pub'[e], todo'[e], outcome'[e])
      /\ \A s \in Subs : outcome'[e][s] = calls[s]
                           \/ (calls[s] = "none" /\ outcome'[e][s] = "running")
  <2>1. PICK q \in Seq(Subs) : q = Tail(todo[e])
    BY <1>3
  <2>2. TypeOK /\ IsInjective(q) /\ Loop(e, q, calls) /\ \A s \in ToSet(q) : calls[s] = "none"
    BY <1>2, <1>3, <1>4, <2>1, Zenon DEF BusInv
  <2> QED BY <2>2, LoopKeeps
<1>6. \A s \in Subs :
        (outcome'[e][s] \in {"returned", "raised"} \/ calls[s] \in {"returned", "raised"})
          => outcome'[e][s] = calls[s]
  BY <1>5
<1>7. \A f \in Events, s \in Subs : \A w \in {"returned", "raised"} :
        outcome'[f][s] = w <=> outcome[f][s] = w \/ (f = e /\ s = h /\ w = how)
  BY <1>2, <1>3, <1>5, <1>6
<1>8. \A f \in Events : Stands(pub'[f], todo'[f], outcome'[f])
  BY <1>5 DEF BusInv
<1>9. Published' = Published
  BY <1>5 DEF Published
<1>10. h \notin Took(e) /\ <<e, h>> \notin Failed
  BY <1>3 DEF Took, Failed
<1>11. /\ \A f \in Events : f # e => Took(f)' = Took(f)
       /\ Took(e)' = IF how = "returned" THEN Took(e) \cup {h} ELSE Took(e)
  BY <1>7 DEF Took
<1>12. Failed' = IF how = "raised" THEN Failed \cup {<<e, h>>} ELSE Failed
  <2>1. \A c \in Events \X Subs : c = <<c[1], c[2]>> /\ c[1] \in Events /\ c[2] \in Subs
    OBVIOUS
  <2>2. \A c \in Events \X Subs :
          c \in Failed' <=> c \in Failed \/ (c = <<e, h>> /\ how = "raised")
    BY <1>7, <2>1 DEF Failed
  <2>3. Failed' \subseteq Events \X Subs /\ Failed \subseteq Events \X Subs
        /\ <<e, h>> \in Events \X Subs
    BY DEF Failed
  <2> QED BY <2>2, <2>3
<1> QED
  BY <1>1, <1>5, <1>8, <1>9, <1>10, <1>11, <1>12

LEMMA ReturnsKeep ==
    ASSUME BusInv, NEW e \in Events, HandlerReturns(e)
    PROVE  BusInv'
<1>1. /\ pub[e] = "delivering" /\ delivered' = [delivered EXCEPT ![e] = @ + 1]
      /\ Loop(e, Tail(todo[e]), [outcome[e] EXCEPT ![Head(todo[e])] = "returned"])
      /\ UNCHANGED <<started, table, active, sequence, errors, dead, failures>>
  BY DEF HandlerReturns, HandlersAfter, deadLetters
<1>2. PICK h : h = Head(todo[e])
  OBVIOUS
<1>3. /\ todo' \in [Events -> Seq(Subs)]
      /\ pub' \in [Events -> {"new", "delivering", "returned", "cancelled"}]
      /\ outcome' \in [Events -> [Subs -> Outcomes]]
      /\ \A f \in Events : Stands(pub'[f], todo'[f], outcome'[f])
      /\ Published' = Published /\ Failed' = Failed
      /\ h \notin Took(e) /\ Took(e)' = Took(e) \cup {h}
      /\ \A f \in Events : f # e => Took(f)' = Took(f)
  BY <1>1, <1>2, CallEndsCount
<1>4. /\ delivered \in [Events -> Nat] /\ delivered' \in [Events -> Nat]
      /\ delivered'[e] = delivered[e] + 1
      /\ \A f \in Events : f # e => delivered'[f] = delivered[f]
  BY <1>1, BusTypes
<1>5. Counted(Took(e)', delivered'[e])
  <2>1. Counted(Took(e), delivered[e])
    BY DEF BusInv
  <2>2. IsFiniteSet(Took(e) \cup {h}) /\ Cardinality(Took(e) \cup {h}) = Cardinality(Took(e)) + 1
    BY <1>3, <2>1, FS_AddElement DEF Counted
  <2>3. Took(e)' = Took(e) \cup {h}
    BY <1>3
  <2> QED BY <1>4, <2>1, <2>2, <2>3 DEF Counted
<1>6. \A f \in Events : Counted(Took(f)', delivered'[f])
  BY <1>3, <1>4, <1>5 DEF BusInv
<1>7. TypeOK'
  BY <1>1, <1>3, <1>4 DEF BusInv, TypeOK, Outcomes
<1>8. Counted(Failed', errors') /\ Counted(Published', sequence') /\ LatestFailures'
  BY <1>1, <1>3 DEF BusInv, LatestFailures
<1> QED
  BY <1>1, <1>3, <1>6, <1>7, <1>8 DEF BusInv

\* The letters are the end of the failures, and stay it.
LEMMA LettersKept ==
    ASSUME BusInv, NEW l \in Letters,
           dead' = Record(dead, l), failures' = Append(failures, l)
    PROVE  /\ dead' \in Seq(Letters) /\ Len(dead') <= MaxDead /\ failures' \in Seq(Letters)
           /\ LatestFailures'
<1>1. PICK n \in Nat, d \in Nat, m \in Nat \ {0} : n = Len(failures) /\ d = Len(dead) /\ m = MaxDead
  BY BusTypes, LenProperties
<1>2. /\ failures \in Seq(Letters) /\ dead \in Seq(Letters)
      /\ dead = SubSeq(failures, n - d + 1, n) /\ d = IF n < m THEN n ELSE m
  BY <1>1, BusTypes DEF BusInv, LatestFailures
<1>3. n - d + 1 \in 1..(n + 1) /\ n - (n - d + 1) + 1 = d
  BY <1>2
<1>4. \A i \in 1..d : dead[i] = failures[n - d + i]
  <2>1. PICK a \in 1..(n + 1) : a = n - d + 1
    BY <1>3
  <2>2. a \in 1..(Len(failures) + 1) /\ n = Len(failures) /\ failures \in Seq(Letters)
    BY <1>1, <1>2, <2>1
  <2>3. \A i \in 1..(n - a + 1) : SubSeq(failures, a, n)[i] = failures[a + i - 1]
    BY <2>2, SuffixElements
  <2>4. n - a + 1 = d /\ \A i \in 1..d : a + i - 1 = n - d + i
    BY <2>1
  <2>5. dead = SubSeq(failures, a, n)
    BY <1>2, <2>1
  <2> QED BY <2>3, <2>4, <2>5
<1>5. PICK kept : kept = IF d >= m THEN Tail(dead) ELSE dead
  OBVIOUS
<1>6. PICK k \in Nat : /\ k = IF d >= m THEN d - 1 ELSE d
                       /\ k + 1 = IF n + 1 < m THEN n + 1 ELSE m
                       /\ k <= n
  BY <1>2
<1>7. kept \in Seq(Letters) /\ Len(kept) = k /\ \A i \in 1..k : kept[i] = failures[n - k + i]
  <2>1. CASE d >= m
    <3>1. dead # <<>>
      BY <1>1, <2>1
    <3>2. Tail(dead) \in Seq(Letters) /\ Len(Tail(dead)) = d - 1
          /\ \A i \in 1..(d - 1) : Tail(dead)[i] = dead[i + 1]
      BY <1>1, <1>2, <3>1, TailElements
    <3>3. k = d - 1 /\ kept = Tail(dead)
      BY <1>5, <1>6, <2>1
    <3>4. ASSUME NEW i \in 1..k PROVE kept[i] = failures[n - k + i]
      <4>1. i + 1 \in 1..d /\ n - d + (i + 1) = n - k + i
        BY <3>3
      <4> QED BY <1>4, <3>2, <3>3, <4>1
    <3> QED BY <3>2, <3>3, <3>4
  <2>2. CASE ~(d >= m)
    BY <1>1, <1>2, <1>4, <1>5, <1>6, <2>2
  <2> QED BY <2>1, <2>2
<1>8. dead' = Append(kept, l)
  BY <1>1, <1>5 DEF Record
<1>9. /\ dead' \in Seq(Letters) /\ Len(dead') = k + 1 /\ dead'[k + 1] = l
      /\ \A i \in 1..k : dead'[i] = kept[i]
  BY <1>7, <1>8, AppendElements
<1>10. /\ failures' \in Seq(Letters) /\ Len(failures') = n + 1 /\ failures'[n + 1] = l
       /\ \A i \in 1..n : failures'[i] = failures[i]
  BY <1>1, <1>2, AppendElements
<1>11. ASSUME NEW i \in 1..(k + 1)
       PROVE  dead'[i] = failures'[(n + 1) - (k + 1) + i]
  <2>1. CASE i = k + 1
    <3>1. (n + 1) - (k + 1) + i = n + 1
      BY <2>1
    <3> QED BY <1>9, <1>10, <2>1, <3>1
  <2>2. CASE i # k + 1
    <3>1. i \in 1..k /\ (n + 1) - (k + 1) + i = n - k + i /\ n - k + i \in 1..n
      BY <1>6, <2>2
    <3> QED BY <1>7, <1>9, <1>10, <3>1
  <2> QED BY <2>1, <2>2
<1>12. dead' = SubSeq(failures', (n + 1) - (k + 1) + 1, n + 1)
  <2>1. PICK a : a = (n + 1) - (k + 1) + 1
    OBVIOUS
  <2>2. a \in 1..(Len(failures') + 1) /\ (n + 1) - a + 1 = k + 1
    BY <1>6, <1>10, <2>1
  <2>3. PICK t : t = SubSeq(failures', a, n + 1)
    OBVIOUS
  <2>4. /\ t \in Seq(Letters) /\ Len(t) = k + 1
        /\ \A i \in 1..(k + 1) : t[i] = failures'[a + i - 1]
    BY <1>10, <2>2, <2>3, SuffixElements
  <2>5. ASSUME NEW i \in 1..(k + 1) PROVE t[i] = dead'[i]
    <3>1. a + i - 1 = (n + 1) - (k + 1) + i
      BY <2>1
    <3> QED BY <1>11, <2>4, <3>1
  <2>6. t = dead'
    BY <1>9, <2>4, <2>5, SeqEqual
  <2> QED BY <2>1, <2>3, <2>6
<1>13. LatestFailures'
  BY <1>1, <1>6, <1>9, <1>10, <1>12 DEF LatestFailures
<1>14. Len(dead') <= MaxDead
  BY <1>1, <1>6, <1>9
<1> QED
  BY <1>9, <1>10, <1>13, <1>14

LEMMA RaisesKeep ==
    ASSUME BusInv, NEW e \in Events, HandlerRaises(e)
    PROVE  BusInv'
<1>1. PICK h : h = Head(todo[e])
  OBVIOUS
<1>2. /\ pub[e] = "delivering" /\ errors' = errors + 1
      /\ dead' = Record(dead, [event |-> e, handler |-> h])
      /\ failures' = Append(failures, [event |-> e, handler |-> h])
      /\ delivered' = [delivered EXCEPT ![e] = delivered[e]]
      /\ Loop(e, Tail(todo[e]), [outcome[e] EXCEPT ![h] = "raised"])
      /\ UNCHANGED <<started, table, active, sequence>>
  BY <1>1 DEF HandlerRaises, HandlersAfter, CountOfRaised
<1>3. h \in Subs
  BY <1>1, <1>2, CallEnds
<1>4. /\ todo' \in [Events -> Seq(Subs)]
      /\ pub' \in [Events -> {"new", "delivering", "returned", "cancelled"}]
      /\ outcome' \in [Events -> [Subs -> Outcomes]]
      /\ \A f \in Events : Stands(pub'[f], todo'[f], outcome'[f])
      /\ Published' = Published
      /\ <<e, h>> \notin Failed /\ Failed' = Failed \cup {<<e, h>>}
      /\ \A f \in Events : Took(f)' = Took(f)
  BY <1>1, <1>2, CallEndsCount
<1>5. delivered' = delivered /\ delivered \in [Events -> Nat] /\ errors \in Nat
  BY <1>2, BusTypes
<1>6. Counted(Failed', errors')
  <2>1. Counted(Failed, errors)
    BY DEF BusInv
  <2> QED BY <1>2, <1>4, <1>5, <2>1, FS_AddElement DEF Counted
<1>7. [event |-> e, handler |-> h] \in Letters
  BY <1>3 DEF Letters
<1>8. /\ dead' \in Seq(Letters) /\ Len(dead') <= MaxDead /\ failures' \in Seq(Letters)
      /\ LatestFailures'
  BY <1>2, <1>7, LettersKept
<1>9. errors' \in Nat
  BY <1>2, <1>5
<1>10. TypeOK'
  BY <1>2, <1>4, <1>5, <1>8, <1>9 DEF BusInv, TypeOK, Outcomes
<1>11. \A f \in Events : Counted(Took(f)', delivered'[f])
  BY <1>4, <1>5 DEF BusInv
<1>12. Counted(Published', sequence')
  BY <1>2, <1>4 DEF BusInv
<1> QED
  BY <1>2, <1>4, <1>6, <1>8, <1>10, <1>11, <1>12 DEF BusInv

LEMMA CancelledKeeps ==
    ASSUME BusInv, NEW e \in Events, PublisherCancelled(e)
    PROVE  /\ BusInv' /\ UNCHANGED <<table, active>>
           /\ \A f \in Events : f # e => todo'[f] = todo[f] /\ outcome'[f] = outcome[f]
           /\ todo'[e] = <<>> /\ \A s \in Subs : outcome'[e][s] # "running"
<1>1. PICK h : h = Head(todo[e])
  OBVIOUS
<1>2. /\ pub[e] = "delivering" /\ pub' = [pub EXCEPT ![e] = "cancelled"]
      /\ todo' = [todo EXCEPT ![e] = <<>>]
      /\ outcome' = [outcome EXCEPT ![e][h] = "cancelled"]
      /\ UNCHANGED <<started, table, active, delivered, sequence, errors, dead, failures>>
  BY <1>1 DEF PublisherCancelled, deadLetters
<1>3. h \in Subs /\ outcome[e][h] = "running" /\ {s \in Subs : outcome[e][s] = "running"} = {h}
  BY <1>1, <1>2, CallEnds
<1>4. /\ pub \in [Events -> {"new", "delivering", "returned", "cancelled"}]
      /\ todo \in [Events -> Seq(Subs)] /\ outcome \in [Events -> [Subs -> Outcomes]]
  BY BusTypes
<1>5. /\ pub' \in [Events -> {"new", "delivering", "returned", "cancelled"}]
      /\ todo' \in [Events -> Seq(Subs)] /\ outcome' \in [Events -> [Subs -> Outcomes]]
      /\ pub'[e] = "cancelled" /\ todo'[e] = <<>>
      /\ \A s \in Subs : outcome'[e][s] = IF s = h THEN "cancelled" ELSE outcome[e][s]
      /\ \A f \in Events : f # e =>
           todo'[f] = todo[f] /\ pub'[f] = pub[f] /\ outcome'[f] = outcome[f]
  <2>1. <<>> \in Seq(Subs) /\ "cancelled" \in Outcomes
    BY DEF Outcomes
  <2> QED BY <1>2, <1>3, <1>4, <2>1
<1>6. \A s \in Subs : outcome'[e][s] # "running"
  BY <1>3, <1>5
<1>7. Stands(pub'[e], todo'[e], outcome'[e])
  BY <1>5, <1>6 DEF Stands
<1>8. \A f \in Events : Stands(pub'[f], todo'[f], outcome'[f])
  BY <1>5, <1>7 DEF BusInv
<1>9. \A f \in Events, s \in Subs :
        /\ outcome'[f][s] = "returned" <=> outcome[f][s] = "returned"
        /\ outcome'[f][s] = "raised" <=> outcome[f][s] = "raised"
  BY <1>3, <1>5
<1>10. (\A f \in Events : Took(f)' = Took(f)) /\ Failed' = Failed
  BY <1>9 DEF Took, Failed
<1>11. Published' = Published
  BY <1>2, <1>5 DEF Published
<1>12. TypeOK'
  BY <1>2, <1>5 DEF BusInv, TypeOK, Outcomes
<1>13. \A f \in Events : Counted(Took(f)', delivered'[f])
  BY <1>2, <1>10 DEF BusInv
<1>14. Counted(Failed', errors') /\ Counted(Published', sequence') /\ LatestFailures'
  BY <1>2, <1>10, <1>11 DEF BusInv, LatestFailures
<1> QED
  BY <1>2, <1>5, <1>6, <1>8, <1>12, <1>13, <1>14 DEF BusInv

LEMMA NextBusInv == ASSUME BusInv, [Next]_vars PROVE BusInv'
<1>1. CASE UNCHANGED vars
  <2>1. UNCHANGED <<started, table, active, pub, todo, delivered, sequence, outcome,
                    errors, dead, failures>>
    BY <1>1 DEF vars, publications, deadLetters
  <2> QED BY <2>1 DEF BusInv, TypeOK, Took, Failed, Published, LatestFailures
<1>2. CASE Next
  BY <1>2, StartsAndClearsKeep, TableKeeps, PublishKeeps, ReturnsKeep, RaisesKeep, CancelledKeeps
     DEF Next, HandlerEnds
<1> QED
  BY <1>1, <1>2

-----------------------------------------------------------------------------
(* Every step is one of EventDelivery, or changes nothing of it *)

Calling(e) == {s \in Subs : outcome[e][s] = "running"}
Owed(e)    == ToSet(todo[e]) \ Calling(e)

\* What becomes of the event e, the others' publications being left alone.
LEMMA OneEvent ==
    ASSUME NEW e \in Events,
           \A f \in Events : f # e => todo'[f] = todo[f] /\ outcome'[f] = outcome[f]
    PROVE  /\ [f \in Events |-> Calling(f)]' =
                [[f \in Events |-> Calling(f)] EXCEPT ![e] = Calling(e)']
           /\ [f \in Events |-> Owed(f)]' = [[f \in Events |-> Owed(f)] EXCEPT ![e] = Owed(e)']
<1>1. \A f \in Events : f # e => Calling(f)' = Calling(f) /\ Owed(f)' = Owed(f)
  BY DEF Calling, Owed
<1> QED
  BY <1>1

\* The loop gives the turn to someone who is still subscribed, if there is one.
LEMMA LoopTurns ==
    ASSUME BusInv, NEW e \in Events, NEW q \in Seq(Subs), IsInjective(q),
           NEW calls \in [Subs -> Outcomes \ {"running"}], \A s \in ToSet(q) : calls[s] = "none",
           Loop(e, q, calls), UNCHANGED <<table, active>>
    PROVE  Delivery!Turn(e, ToSet(q))
<1>1. /\ todo' \in [Events -> Seq(Subs)]
      /\ \A f \in Events : f # e => todo'[f] = todo[f] /\ outcome'[f] = outcome[f]
      /\ Stands(pub'[e], todo'[e], outcome'[e])
      /\ ToSet(todo'[e]) \subseteq ToSet(q)
      /\ \A s \in ToSet(q) \ ToSet(todo'[e]) : s \notin active
      /\ todo'[e] # <<>> => todo'[e][1] \in active /\ pub'[e] = "delivering"
      /\ todo'[e] = <<>> => pub'[e] # "delivering"
  BY LoopKeeps DEF BusInv
<1>2. /\ [f \in Events |-> Calling(f)]' =
           [[f \in Events |-> Calling(f)] EXCEPT ![e] = Calling(e)']
      /\ [f \in Events |-> Owed(f)]' = [[f \in Events |-> Owed(f)] EXCEPT ![e] = Owed(e)']
  BY <1>1, OneEvent
<1>3. PICK rest \in Seq(Subs) : rest = todo'[e]
  BY <1>1
<1>4. CASE rest = <<>>
  <2>1. ToSet(rest) = {}
    BY <1>4 DEF ToSet
  <2>2. Calling(e)' = {} /\ Owed(e)' = {}
    BY <1>1, <1>3, <1>4, <2>1 DEF Stands, Calling, Owed
  <2>3. ToSet(q) \cap active = {}
    BY <1>1, <1>3, <2>1
  <2> QED BY <1>2, <2>2, <2>3 DEF Delivery!Turn, Calling, Owed
<1>5. CASE rest # <<>>
  <2>1. PICK s : s = rest[1]
    OBVIOUS
  <2>2. s \in Subs /\ s \in ToSet(rest) /\ s \in active
    BY <1>1, <1>3, <1>5, <2>1, TailElements DEF Stands
  <2>3. Calling(e)' = {s}
    BY <1>1, <1>3, <1>5, <2>1, <2>2 DEF Stands, Calling
  <2>4. PICK dropped : dropped = ToSet(q) \ ToSet(rest)
    OBVIOUS
  <2>5. Owed(e)' = ToSet(q) \ (dropped \cup {s})
    BY <1>1, <1>3, <2>3, <2>4 DEF Owed
  <2>6. s \in ToSet(q) \cap active /\ dropped \in SUBSET (ToSet(q) \ active)
    BY <1>1, <1>3, <2>2, <2>4
  <2>7. /\ [f \in Events |-> Calling(f)]' = [[f \in Events |-> Calling(f)] EXCEPT ![e] = {s}]
        /\ [f \in Events |-> Owed(f)]' =
             [[f \in Events |-> Owed(f)] EXCEPT ![e] = ToSet(q) \ (dropped \cup {s})]
    BY <1>2, <2>3, <2>5
  <2> QED BY <2>6, <2>7 DEF Delivery!Turn, Calling, Owed
<1> QED
  BY <1>4, <1>5

LEMMA PublishDelivers ==
    ASSUME BusInv, NEW e \in Events, Publish(e)
    PROVE  Delivery!Publish(e)
<1>1. PICK q \in Collected(e) : Loop(e, q, outcome[e])
  BY DEF Publish
<1>2. pub[e] = "new" /\ UNCHANGED <<table, active>>
  BY DEF Publish
<1>3. /\ q \in Seq(Subs) /\ IsInjective(q) /\ ToSet(q) = {s \in ToSet(table) : Matches(s, e)}
  BY <1>1, BusTypes, CollectedMatch
<1>4. todo[e] = <<>> /\ \A s \in Subs : outcome[e][s] = "none"
  BY <1>2 DEF BusInv, Stands
<1>5. outcome[e] \in [Subs -> Outcomes \ {"running"}] /\ \A s \in ToSet(q) : outcome[e][s] = "none"
  <2>1. outcome[e] \in [Subs -> Outcomes]
    BY BusTypes
  <2>2. ToSet(q) \subseteq Subs
    BY <1>3, LenProperties, ElementOfSeq DEF ToSet
  <2> QED BY <1>4, <2>1, <2>2 DEF Outcomes
<1>6. Delivery!Turn(e, ToSet(q))
  BY <1>1, <1>2, <1>3, <1>5, LoopTurns
<1>7. ToSet(q) = {s \in active \cup (ToSet(table) \ active) : Matches(s, e)}
  BY <1>3, BusTypes
<1>8. Calling(e) = {} /\ Owed(e) = {}
  BY <1>4 DEF Calling, Owed, ToSet
<1> QED
  BY <1>6, <1>7, <1>8 DEF Delivery!Publish, Delivery!Turn, Calling, Owed

LEMMA EndProceeds ==
    ASSUME BusInv, NEW e \in Events, HandlerEnds(e)
    PROVE  Delivery!Proceed(e)
<1>1. PICK how \in {"returned", "raised"} :
        Loop(e, Tail(todo[e]), [outcome[e] EXCEPT ![Head(todo[e])] = how])
  BY DEF HandlerEnds, HandlerReturns, HandlerRaises, HandlersAfter
<1>2. pub[e] = "delivering" /\ UNCHANGED <<table, active>>
  BY DEF HandlerEnds, HandlerReturns, HandlerRaises
<1>3. PICK h \in Subs : h = Head(todo[e])
  BY <1>2, CallEnds
<1>4. PICK q \in Seq(Subs) : q = Tail(todo[e])
  BY <1>1, <1>2, CallEnds
<1>5. PICK calls \in [Subs -> Outcomes \ {"running"}] : calls = [outcome[e] EXCEPT ![h] = how]
  BY <1>2, <1>3, CallEnds
<1>6. /\ IsInjective(q) /\ \A s \in ToSet(q) : calls[s] = "none"
      /\ Calling(e) = {h} /\ Owed(e) = ToSet(q)
  BY <1>2, <1>3, <1>4, <1>5, CallEnds DEF Calling, Owed
<1>7. Delivery!Turn(e, ToSet(q))
  <2>1. Loop(e, q, calls)
    BY <1>1, <1>3, <1>4, <1>5
  <2> QED BY <1>2, <1>6, <2>1, LoopTurns
<1> QED
  BY <1>6, <1>7 DEF Delivery!Proceed, Delivery!Turn, Calling, Owed

LEMMA CancelledAbandons ==
    ASSUME BusInv, NEW e \in Events, PublisherCancelled(e)
    PROVE  Delivery!Abandon(e)
<1>1. /\ UNCHANGED <<table, active>> /\ todo'[e] = <<>>
      /\ \A f \in Events : f # e => todo'[f] = todo[f] /\ outcome'[f] = outcome[f]
      /\ \A s \in Subs : outcome'[e][s] # "running"
  BY CancelledKeeps
<1>2. Calling(e)' = {} /\ Owed(e)' = {}
  BY <1>1 DEF Calling, Owed, ToSet
<1>3. Calling(e) # {}
  <2>1. pub[e] = "delivering"
    BY DEF PublisherCancelled
  <2> QED BY <2>1, CallEnds DEF Calling
<1>4. /\ [f \in Events |-> Calling(f)]' = [[f \in Events |-> Calling(f)] EXCEPT ![e] = {}]
      /\ [f \in Events |-> Owed(f)]' = [[f \in Events |-> Owed(f)] EXCEPT ![e] = {}]
  BY <1>1, <1>2, OneEvent
<1> QED
  BY <1>1, <1>3, <1>4 DEF Delivery!Abandon, Calling, Owed

LEMMA TableDelivers ==
    ASSUME BusInv, NEW s \in Subs
    PROVE  /\ Subscribe(s) => Delivery!Subscribe(s)
           /\ Unsubscribe(s) => Delivery!Unsubscribe(s)
<1>1. ASSUME Subscribe(s) PROVE Delivery!Subscribe(s)
  <2>1. /\ s \notin ToSet(table) /\ active' = active \cup {s}
        /\ UNCHANGED <<todo, outcome>> /\ ToSet(table') = ToSet(table) \cup {s}
    BY <1>1, TableKeeps DEF Subscribe
  <2>2. active \subseteq ToSet(table)
    BY BusTypes
  <2> QED BY <2>1, <2>2 DEF Delivery!Subscribe
<1>2. ASSUME Unsubscribe(s) PROVE Delivery!Unsubscribe(s)
  <2>1. /\ s \in active /\ active' = active \ {s}
        /\ UNCHANGED <<table, todo, outcome>>
    BY <1>2, TableKeeps DEF Unsubscribe
  <2>2. active \subseteq ToSet(table)
    BY BusTypes
  <2> QED BY <2>1, <2>2 DEF Delivery!Unsubscribe
<1> QED
  BY <1>1, <1>2

LEMMA NextDelivers == ASSUME BusInv, [Next]_vars PROVE [Delivery!Next]_(Delivery!vars)
<1>1. ASSUME UNCHANGED <<table, active, todo, outcome>> PROVE UNCHANGED Delivery!vars
  BY <1>1 DEF Delivery!vars
<1>2. CASE UNCHANGED vars
  BY <1>1, <1>2 DEF vars, publications
<1>3. CASE Start \/ ClearDeadLetters
  BY <1>1, <1>3, StartsAndClearsKeep
<1>4. ASSUME NEW s \in Subs, Subscribe(s) \/ Unsubscribe(s) PROVE Delivery!Next
  BY <1>4, TableDelivers DEF Delivery!Next
<1>5. ASSUME NEW e \in Events, Publish(e) \/ HandlerEnds(e) \/ PublisherCancelled(e)
      PROVE  Delivery!Next
  BY <1>5, PublishDelivers, EndProceeds, CancelledAbandons DEF Delivery!Next
<1> QED
  BY <1>2, <1>3, <1>4, <1>5 DEF Next

-----------------------------------------------------------------------------
(* Theorems *)

\* The invariant of the bus holds in every reachable state.
THEOREM BusInvariant == Spec => []BusInv
<1>1. Init => BusInv
  BY InitBusInv
<1>2. BusInv /\ [Next]_vars => BusInv'
  BY NextBusInv
<1> QED
  BY <1>1, <1>2, PTL DEF Spec

\* What publish() returns, the error count and the publish count are true of
\* the calls that were made, however many publications overlap.
THEOREM CountsTrueHolds == Spec => []CountsTrue
<1>1. BusInv => CountsTrue
  BY DEF BusInv, CountsTrue, Counted, CallsThat, Took, Failed, Published
<1> QED
  BY <1>1, BusInvariant, PTL

\* The dead letters are the latest failures, in the order they happened.
THEOREM LatestFailuresHolds == Spec => []LatestFailures
<1>1. BusInv => LatestFailures
  BY DEF BusInv
<1> QED
  BY <1>1, BusInvariant, PTL

\* Whoever is subscribed when an event is published is called for it once and
\* alone, and nobody after unsubscribing: EventDelivery is implemented.
THEOREM DeliveryImplemented == Spec => ImplementsDelivery
<1>1. Init => Delivery!Init
  BY DEF Init, Delivery!Init, ToSet
<1>2. BusInv /\ [Next]_vars => [Delivery!Next]_(Delivery!vars)
  BY NextDelivers
<1> QED
  BY <1>1, <1>2, BusInvariant, PTL DEF Spec, ImplementsDelivery, Delivery!Spec

-----------------------------------------------------------------------------
(* The phase store *)

\* The transition graph of Store is the one of RuntimePhases.
LEMMA StoreGraph == Store!VALID_TRANSITIONS = VALID_TRANSITIONS
BY DEF Store!VALID_TRANSITIONS, VALID_TRANSITIONS, Store!RuntimePhase, RuntimePhase

\* The successors of a phase are phases.
LEMMA Successors ==
    ASSUME NEW p \in RuntimePhase
    PROVE  VALID_TRANSITIONS[p] \subseteq RuntimePhase
BY DEF VALID_TRANSITIONS, RuntimePhase

\* What the locked part of transition() does to phase and history.
LEMMA CommitHolds ==
    ASSUME IInv, NEW th \in Threads, NEW expected \in RuntimePhase \cup {"any"},
           NEW target, Store!Commit(th, expected, target)
    PROVE  IInv'
<1>1. /\ target \in VALID_TRANSITIONS[phase] /\ target \in RuntimePhase
      /\ phase \in RuntimePhase /\ history \in Seq(RuntimePhase)
  BY Successors, StoreGraph DEF IInv, StoreTypeOK, Store!Commit, Store!Allowed
<1>2. phase' = target /\ history' = Append(history, target)
  BY DEF Store!Commit
<1>3. Notifying(expected, phase, Len(history) + 1, observers) \in Calls
  BY <1>1 DEF IInv, StoreTypeOK, Calls, Notifying
<1>4. StoreTypeOK'
  <2>1. phase' \in RuntimePhase /\ history' \in Seq(RuntimePhase)
    BY <1>1, <1>2
  <2>2. call' \in [Threads -> Calls]
    BY <1>3 DEF IInv, StoreTypeOK, Store!Commit, Store!Notifying, Notifying
  <2> QED
    BY <2>1, <2>2 DEF IInv, StoreTypeOK, Store!Commit
<1>5. HistoryIsPath'
  <2>1. Len(history') = Len(history) + 1
    BY <1>1, <1>2
  <2>2. history'[Len(history')] = target
    BY <1>1, <1>2, <2>1
  <2>3. \A i \in 1..Len(history) : history'[i] = history[i]
    BY <1>1, <1>2
  <2>4. ASSUME NEW i \in 1..(Len(history') - 1)
        PROVE  history'[i + 1] \in VALID_TRANSITIONS[history'[i]]
    <3>1. CASE i = Len(history)
      BY <1>1, <2>1, <2>2, <2>3, <3>1 DEF IInv, HistoryIsPath
    <3>2. CASE i # Len(history)
      <4>1. i \in 1..(Len(history) - 1) /\ i + 1 \in 1..Len(history)
        BY <1>1, <2>1, <3>2
      <4> QED
        BY <2>3, <4>1 DEF IInv, HistoryIsPath
    <3> QED
      BY <3>1, <3>2
  <2> QED
    BY <1>1, <1>2, <2>1, <2>2, <2>4 DEF HistoryIsPath
<1> QED
  BY <1>4, <1>5 DEF IInv

\* A thread that moves on in its call leaves phase and history alone.
LEMMA NotifyTypes ==
    ASSUME StoreTypeOK, NEW th \in Threads, Store!Notify(th)
    PROVE  StoreTypeOK'
<1> DEFINE c == call[th]
<1>1. /\ c \in Calls /\ c.at = "notifying" /\ c.rest # <<>>
  BY DEF StoreTypeOK, Store!Notify
<1>2. c \in [at: {"notifying"}, expected: RuntimePhase \cup {"any"}, from: RuntimePhase,
             n: Nat, rest: Seq(Observers)]
  BY <1>1 DEF Calls, Idle
<1>3. Head(c.rest) \in Observers /\ Tail(c.rest) \in Seq(Observers)
  BY <1>1, <1>2
<1>4. seen' \in [Observers -> Seq(Nat)]
  BY <1>2, <1>3 DEF StoreTypeOK, Store!Notify
<1>5. call' = [call EXCEPT ![th] = [c EXCEPT !.rest = Tail(c.rest)]]
  BY DEF Store!Notify, Store!RestAfter
<1>6. [c EXCEPT !.rest = Tail(c.rest)] \in Calls
  BY <1>2, <1>3 DEF Calls
<1>7. call' \in [Threads -> Calls]
  BY <1>5, <1>6 DEF StoreTypeOK
<1> QED
  BY <1>4, <1>7 DEF StoreTypeOK, Store!Notify

\* The invariant is inductive.
LEMMA PhaseStep == IInv /\ [Store!Next]_(Store!vars) => IInv'
<1> SUFFICES ASSUME IInv, [Store!Next]_(Store!vars) PROVE IInv'
  OBVIOUS
<1> USE DEF IInv
<1>0. ASSUME StoreTypeOK', UNCHANGED <<phase, history>>
      PROVE  IInv'
  BY <1>0 DEF HistoryIsPath
<1>1. ASSUME NEW th \in Threads, NEW target \in RuntimePhase, Store!Transition(th, target)
      PROVE  IInv'
  BY <1>1, CommitHolds DEF Store!Transition
<1>2. ASSUME NEW th \in Threads, NEW g \in GuardedCalls, Store!CheckCurrent(th, g[1], g[2])
      PROVE  IInv'
  <2>1. g[1] \in RuntimePhase /\ g[2] \in RuntimePhase
    BY StateAssumption
  <2>2. Guarded(g[1], g[2]) \in Calls
    BY <2>1 DEF Calls, Guarded
  <2>3. StoreTypeOK'
    BY <1>2, <2>2 DEF StoreTypeOK, Store!CheckCurrent, Store!Guarded, Guarded, Calls
  <2> QED
    BY <1>0, <1>2, <2>3 DEF Store!CheckCurrent
<1>3. ASSUME NEW th \in Threads, Store!TransitionGuarded(th)
      PROVE  IInv'
  <2>1. call[th] \in Calls /\ call[th].at = "guarded"
    BY <1>3 DEF StoreTypeOK, Store!TransitionGuarded
  <2>2. call[th].expected \in RuntimePhase
    BY <2>1 DEF Calls, Idle
  <2> QED
    BY <1>3, <2>2, CommitHolds DEF Store!TransitionGuarded
<1>4. ASSUME NEW th \in Threads, Store!GuardedRaises(th) \/ Store!Return(th)
      PROVE  IInv'
  <2>1. StoreTypeOK'
    BY <1>4 DEF StoreTypeOK, Store!GuardedRaises, Store!Return, Calls, Store!Idle, Idle
  <2> QED
    BY <1>0, <1>4, <2>1 DEF Store!GuardedRaises, Store!Return
<1>5. ASSUME NEW th \in Threads, Store!Notify(th)
      PROVE  IInv'
  BY <1>0, <1>5, NotifyTypes DEF Store!Notify
<1>6. ASSUME NEW o \in Observers, Store!AddObserver(o)
      PROVE  IInv'
  <2>1. StoreTypeOK'
    BY <1>6 DEF StoreTypeOK, Store!AddObserver
  <2> QED
    BY <1>0, <1>6, <2>1 DEF Store!AddObserver
<1>7. ASSUME NEW o \in Observers, Store!RemoveObserver(o)
      PROVE  IInv'
  <2>1. observers' \in Seq(Observers)
    BY <1>7 DEF StoreTypeOK, Store!RemoveObserver
  <2>2. StoreTypeOK'
    BY <1>7, <2>1 DEF StoreTypeOK, Store!RemoveObserver
  <2> QED
    BY <1>0, <1>7, <2>2 DEF Store!RemoveObserver
<1>8. CASE UNCHANGED Store!vars
  BY <1>8 DEF Store!vars, StoreTypeOK, HistoryIsPath
<1> QED
  BY <1>1, <1>2, <1>3, <1>4, <1>5, <1>6, <1>7, <1>8 DEF Store!Next, Store!RuntimePhase, RuntimePhase

LEMMA PhaseInit == Store!Init => IInv
BY DEF Store!Init, IInv, StoreTypeOK, HistoryIsPath, RuntimePhase, Calls, Idle, Store!Idle

\* The history that threads racing through transition() and
\* transition_if_current() leave is a path of the transition graph to the
\* current phase, however stale the guards they saw.
THEOREM PathHolds == Store!Spec => []IInv
BY PhaseInit, PhaseStep, PTL DEF Store!Spec

\* STOPPED is final, and STOPPING leads nowhere else.
THEOREM NoWayBackHolds == Store!Spec => Store!NoWayBack
<1> DEFINE Forward == /\ phase = "stopped" => phase' = "stopped"
                      /\ phase = "stopping" => phase' \in {"stopping", "stopped"}
<1>1. IInv /\ [Store!Next]_(Store!vars) => [Forward]_(Store!vars)
  <2> SUFFICES ASSUME IInv, Store!Next PROVE Forward
    BY DEF Store!vars
  <2>1. ASSUME NEW th \in Threads, NEW expected, NEW target, Store!Commit(th, expected, target)
        PROVE  Forward
    BY <2>1, StoreGraph DEF Store!Commit, Store!Allowed, VALID_TRANSITIONS, RuntimePhase
  <2>2. ASSUME UNCHANGED phase
        PROVE  Forward
    BY <2>2
  <2> QED
    BY <2>1, <2>2
       DEF Store!Next, Store!Transition, Store!TransitionGuarded, Store!CheckCurrent,
           Store!GuardedRaises, Store!Notify, Store!Return,
           Store!AddObserver, Store!RemoveObserver
<1>2. Store!Spec => [][Forward]_(Store!vars)
  BY <1>1, PathHolds, PTL DEF Store!Spec
<1> QED
  BY <1>2 DEF Store!NoWayBack

-----------------------------------------------------------------------------
(* What the observers are told of *)

Has(s, n) == \E i \in 1..Len(s) : s[i] = n
\* A transition is under way to an observer: a thread has it left to tell.
Owing(th, o, n) ==
    /\ call[th].at = "notifying"
    /\ call[th].n = n
    /\ \E i \in 1..Len(call[th].rest) : call[th].rest[i] = o

\* An observer is registered once, after it was added.
ObserversStand ==
    /\ \A i, j \in 1..Len(observers) : observers[i] = observers[j] => i = j
    /\ \A o \in Observers :
         /\ Registered(o) => since[o] > 0
         /\ since[o] <= Len(history)
         /\ since[o] = 0 => seen[o] = <<>>

\* Nobody in the rest of a call occurs twice or was told of its transition,
\* which is one since they were added.
RestStands(c, now, told) ==
    /\ \A i, j \in 1..Len(c.rest) : c.rest[i] = c.rest[j] => i = j
    /\ \A i \in 1..Len(c.rest) :
         now[c.rest[i]] > 0 /\ now[c.rest[i]] < c.n /\ ~Has(told[c.rest[i]], c.n)

\* Each notifying thread has a transition of its own.
CallsStand ==
    /\ \A th \in Threads : call[th].at = "notifying" =>
         call[th].n <= Len(history) /\ RestStands(call[th], since, seen)
    /\ \A th, other \in Threads :
         (call[th].at = "notifying" /\ call[other].at = "notifying"
            /\ call[th].n = call[other].n) => th = other

ToldOnce ==
    \A o \in Observers :
        /\ \A i, j \in 1..Len(seen[o]) : seen[o][i] = seen[o][j] => i = j
        /\ \A i \in 1..Len(seen[o]) : since[o] < seen[o][i] /\ seen[o][i] <= Len(history)

ToldOrOwed ==
    \A o \in Observers : Registered(o) =>
        \A n \in (since[o] + 1)..Len(history) :
            Has(seen[o], n) \/ \E th \in Threads : Owing(th, o, n)

Telling == ObserversStand /\ CallsStand /\ ToldOnce /\ ToldOrOwed

LEMMA CallFacts ==
    ASSUME StoreTypeOK, NEW th \in Threads, call[th].at = "notifying"
    PROVE  /\ call[th].n \in Nat /\ call[th].rest \in Seq(Observers)
           /\ Len(call[th].rest) \in Nat
           /\ \A i \in 1..Len(call[th].rest) : call[th].rest[i] \in Observers
<1>1. call[th] \in [at: {"notifying"}, expected: RuntimePhase \cup {"any"},
                    from: RuntimePhase, n: Nat, rest: Seq(Observers)]
  BY DEF StoreTypeOK, Calls, Idle
<1>2. call[th].n \in Nat /\ call[th].rest \in Seq(Observers)
  BY <1>1
<1> QED BY <1>2

\* A thread that does not notify, or has nobody left, comes and goes unnoticed.
LEMMA QuietCalls ==
    ASSUME Telling, UNCHANGED <<history, observers, seen, since>>, NEW th \in Threads,
           call[th].at # "notifying" \/ call[th].rest = <<>>,
           call'[th].at # "notifying",
           \A other \in Threads \ {th} : call'[other] = call[other]
    PROVE  Telling'
<1>1. \A x \in Threads : call'[x].at = "notifying" => x # th /\ call'[x] = call[x]
  OBVIOUS
<1>2. ObserversStand' /\ ToldOnce'
  BY DEF Telling, ObserversStand, ToldOnce, Registered
<1>3. CallsStand'
  BY <1>1 DEF Telling, CallsStand, RestStands
<1>5. ToldOrOwed'
  <2> SUFFICES ASSUME NEW o \in Observers, Registered(o), NEW n \in (since[o] + 1)..Len(history)
               PROVE  Has(seen'[o], n) \/ \E x \in Threads : Owing(x, o, n)'
    BY DEF ToldOrOwed, Registered
  <2>1. Has(seen[o], n) \/ \E x \in Threads : Owing(x, o, n)
    BY DEF Telling, ToldOrOwed
  <2>2. ASSUME NEW x \in Threads, Owing(x, o, n) PROVE Owing(x, o, n)'
    BY <2>2 DEF Owing
  <2> QED BY <2>1, <2>2 DEF Has
<1> QED BY <1>2, <1>3, <1>5 DEF Telling

\* A new transition is owed to everybody registered.
LEMMA CommitTells ==
    ASSUME StoreTypeOK, Telling, NEW th \in Threads, NEW expected, NEW target,
           call[th].at # "notifying", Store!Commit(th, expected, target), history' \in Seq(RuntimePhase)
    PROVE  Telling'
<1> DEFINE last == Len(history) + 1
<1>1. /\ history \in Seq(RuntimePhase) /\ Len(history) \in Nat /\ Len(history') = last
      /\ observers \in Seq(Observers) /\ Len(observers) \in Nat
      /\ \A i \in 1..Len(observers) : observers[i] \in Observers
      /\ UNCHANGED <<observers, seen, since>>
      /\ since \in [Observers -> Nat] /\ seen \in [Observers -> Seq(Nat)]
  BY DEF StoreTypeOK, Store!Commit
<1>2. /\ call'[th].at = "notifying" /\ call'[th].n = last /\ call'[th].rest = observers
      /\ \A x \in Threads \ {th} : call'[x] = call[x]
  BY DEF Store!Commit, Notifying, StoreTypeOK, Store!Notifying
<1>3. \A o \in Observers : since[o] < last /\ ~Has(seen[o], last)
  BY <1>1 DEF Telling, ObserversStand, ToldOnce, Has
<1>4. ObserversStand' /\ ToldOnce'
  <2>1. \A o \in Observers : since[o] <= Len(history')
    BY <1>1 DEF Telling, ObserversStand
  <2>2. \A o \in Observers : \A i \in 1..Len(seen[o]) :
           since[o] < seen[o][i] /\ seen[o][i] <= Len(history')
    BY <1>1 DEF Telling, ToldOnce
  <2> QED BY <1>1, <2>1, <2>2 DEF Telling, ObserversStand, ToldOnce, Registered
<1>5. \A x \in Threads \ {th} : call[x].at = "notifying" => call[x].n # last /\ call[x].n <= last
  BY <1>1, CallFacts DEF Telling, CallsStand, RestStands
<1>6. CallsStand'
  <2>1. ASSUME NEW x \in Threads, call'[x].at = "notifying"
        PROVE  call'[x].n <= last /\ RestStands(call'[x], since, seen)
    <3>1. CASE x = th
      <4>1. \A i \in 1..Len(observers) :
              since[observers[i]] > 0 /\ since[observers[i]] < last /\ ~Has(seen[observers[i]], last)
        BY <1>1, <1>3 DEF Telling, ObserversStand, Registered
      <4>2. \A i, j \in 1..Len(observers) : observers[i] = observers[j] => i = j
        BY DEF Telling, ObserversStand
      <4> HIDE DEF last
      <4>3. last <= last
        BY <1>1 DEF last
      <4> QED BY <1>2, <3>1, <4>1, <4>2, <4>3 DEF RestStands
    <3>2. CASE x # th
      BY <1>2, <1>5, <2>1, <3>2 DEF Telling, CallsStand, RestStands
    <3> QED BY <3>1, <3>2
  <2>2. ASSUME NEW x \in Threads, NEW y \in Threads, call'[x].at = "notifying",
               call'[y].at = "notifying", call'[x].n = call'[y].n
        PROVE  x = y
    BY <1>2, <1>5, <2>2 DEF Telling, CallsStand, RestStands
  <2> QED BY <1>1, <2>1, <2>2 DEF CallsStand
<1>7. ToldOrOwed'
  <2> SUFFICES ASSUME NEW o \in Observers, Registered(o), NEW n \in (since[o] + 1)..last
               PROVE  Has(seen'[o], n) \/ \E x \in Threads : Owing(x, o, n)'
    BY <1>1 DEF ToldOrOwed, Registered
  <2>1. CASE n = last
    <3>1. Owing(th, o, n)'
      BY <1>2, <2>1 DEF Owing, Registered
    <3> QED BY <3>1
  <2>2. CASE n # last
    <3>1. n \in (since[o] + 1)..Len(history)
      BY <1>1, <2>2
    <3>2. Has(seen[o], n) \/ \E x \in Threads : Owing(x, o, n)
      BY <3>1 DEF Telling, ToldOrOwed
    <3>3. ASSUME NEW x \in Threads, Owing(x, o, n) PROVE Owing(x, o, n)'
      <4>1. x # th /\ call'[x] = call[x]
        BY <1>2, <3>3 DEF Owing
      <4> QED BY <3>3, <4>1 DEF Owing
    <3> QED BY <1>1, <3>2, <3>3 DEF Has
  <2> QED BY <2>1, <2>2
<1> QED BY <1>4, <1>6, <1>7 DEF Telling

\* What is owed to an observer becomes told; the rest stays owed.
LEMMA NotifyTells ==
    ASSUME StoreTypeOK, Telling, NEW th \in Threads, Store!Notify(th)
    PROVE  Telling'
<1>0. call[th].n \in Nat /\ call[th].rest \in Seq(Observers) /\ call[th].rest[1] \in Observers
  BY CallFacts DEF Store!Notify
<1>n. PICK n \in Nat, rest \in Seq(Observers), o \in Observers :
         n = call[th].n /\ rest = call[th].rest /\ o = rest[1]
  BY <1>0
<1>1. /\ call[th].at = "notifying" /\ n \in Nat /\ rest \in Seq(Observers) /\ rest # <<>>
      /\ Len(rest) \in Nat /\ \A i \in 1..Len(rest) : rest[i] \in Observers
      /\ UNCHANGED <<phase, history, observers, since>>
  BY <1>n, CallFacts DEF Store!Notify
<1>2. /\ 1 \in 1..Len(rest) /\ o \in Observers /\ Head(rest) = o
      /\ Tail(rest) \in Seq(Observers) /\ Len(Tail(rest)) = Len(rest) - 1
      /\ \A i \in 1..(Len(rest) - 1) : Tail(rest)[i] = rest[i + 1]
  BY <1>n, <1>1
<1>3. /\ call'[th].at = "notifying" /\ call'[th].n = n /\ call'[th].rest = Tail(rest)
      /\ \A x \in Threads \ {th} : call'[x] = call[x]
  BY <1>n, <1>1 DEF Store!Notify, Store!RestAfter, StoreTypeOK
<1>4. /\ seen' = [seen EXCEPT ![o] = Append(@, n)]
      /\ seen[o] \in Seq(Nat) /\ Len(seen[o]) \in Nat
      /\ seen'[o] = Append(seen[o], n)
      /\ Len(seen'[o]) = Len(seen[o]) + 1 /\ seen'[o][Len(seen[o]) + 1] = n
      /\ \A i \in 1..Len(seen[o]) : seen'[o][i] = seen[o][i]
      /\ \A p \in Observers \ {o} : seen'[p] = seen[p]
  <2>1. seen' = [seen EXCEPT ![o] = Append(@, n)]
    BY <1>n, <1>1, <1>2 DEF Store!Notify
  <2>2. seen[o] \in Seq(Nat) /\ seen'[o] = Append(seen[o], n)
    BY <1>2, <2>1 DEF StoreTypeOK
  <2>3. \A p \in Observers \ {o} : seen'[p] = seen[p]
    BY <2>1 DEF StoreTypeOK
  <2>4. /\ Len(seen'[o]) = Len(seen[o]) + 1 /\ seen'[o][Len(seen[o]) + 1] = n
        /\ \A i \in 1..Len(seen[o]) : seen'[o][i] = seen[o][i]
    BY <1>1, <2>2
  <2> QED BY <1>1, <2>1, <2>2, <2>3, <2>4
<1>5. n <= Len(history) /\ since[o] > 0 /\ since[o] < n /\ ~Has(seen[o], n)
  BY <1>n, <1>1, <1>2 DEF Telling, CallsStand, RestStands
<1>6. \A p \in Observers, m \in Nat : Has(seen'[p], m) <=> Has(seen[p], m) \/ (p = o /\ m = n)
  <2> SUFFICES ASSUME NEW p \in Observers, NEW m \in Nat
               PROVE  Has(seen'[p], m) <=> Has(seen[p], m) \/ (p = o /\ m = n)
    OBVIOUS
  <2>1. CASE p = o
    <3>1. Has(seen[o], m) => Has(seen'[o], m)
      BY <1>4 DEF Has
    <3>2. m = n => Has(seen'[o], m)
      <4>1. Len(seen[o]) + 1 \in 1..Len(seen'[o])
        BY <1>4
      <4> QED BY <1>4, <4>1 DEF Has
    <3>3. Has(seen'[o], m) => Has(seen[o], m) \/ m = n
      <4> SUFFICES ASSUME NEW i \in 1..Len(seen'[o]), seen'[o][i] = m
                   PROVE  Has(seen[o], m) \/ m = n
        BY DEF Has
      <4>1. i = Len(seen[o]) + 1 \/ i \in 1..Len(seen[o])
        BY <1>4
      <4> QED BY <1>4, <4>1 DEF Has
    <3> QED BY <2>1, <3>1, <3>2, <3>3
  <2>2. CASE p # o
    BY <1>4, <2>2 DEF Has
  <2> QED BY <2>1, <2>2
<1>7. ObserversStand'
  <2>1. \A p \in Observers : since[p] = 0 => seen'[p] = <<>>
    BY <1>4, <1>5 DEF Telling, ObserversStand
  <2> QED BY <1>1, <2>1 DEF Telling, ObserversStand, Registered
<1>8. ToldOnce'
  <2> SUFFICES ASSUME NEW p \in Observers
               PROVE  /\ \A i, j \in 1..Len(seen'[p]) : seen'[p][i] = seen'[p][j] => i = j
                      /\ \A i \in 1..Len(seen'[p]) :
                           since[p] < seen'[p][i] /\ seen'[p][i] <= Len(history)
    BY <1>1 DEF ToldOnce
  <2>1. CASE p # o
    BY <1>4, <2>1 DEF Telling, ToldOnce
  <2>2. CASE p = o
    <3>1. \A i \in 1..Len(seen'[o]) : i \in 1..Len(seen[o]) \/ i = Len(seen[o]) + 1
      BY <1>4
    <3>2. \A i \in 1..Len(seen[o]) : seen[o][i] # n
      BY <1>5 DEF Has
    <3>3. \A i, j \in 1..Len(seen'[o]) : seen'[o][i] = seen'[o][j] => i = j
      BY <1>2, <1>4, <3>1, <3>2 DEF Telling, ToldOnce
    <3>4. \A i \in 1..Len(seen'[o]) : since[o] < seen'[o][i] /\ seen'[o][i] <= Len(history)
      BY <1>2, <1>4, <1>5, <3>1 DEF Telling, ToldOnce
    <3> QED BY <2>2, <3>3, <3>4
  <2> QED BY <2>1, <2>2
<1>9. CallsStand'
  <2>1. ASSUME NEW x \in Threads, call'[x].at = "notifying"
        PROVE  /\ call[x].at = "notifying" /\ call'[x].n = call[x].n
               /\ call'[x].n <= Len(history) /\ RestStands(call'[x], since, seen')
    <3>1. CASE x = th
      <4>1. \A i \in 1..Len(Tail(rest)) : i + 1 \in 1..Len(rest) /\ Tail(rest)[i] = rest[i + 1]
        BY <1>1, <1>2
      <4>2. \A i, j \in 1..Len(rest) : rest[i] = rest[j] => i = j
        BY <1>n, <1>1 DEF Telling, CallsStand, RestStands
      <4>3. \A i \in 1..Len(rest) :
              since[rest[i]] > 0 /\ since[rest[i]] < n /\ ~Has(seen[rest[i]], n)
        BY <1>n, <1>1 DEF Telling, CallsStand, RestStands
      <4>4. \A i, j \in 1..Len(Tail(rest)) : Tail(rest)[i] = Tail(rest)[j] => i = j
        <5> SUFFICES ASSUME NEW i \in 1..Len(Tail(rest)), NEW j \in 1..Len(Tail(rest)),
                            Tail(rest)[i] = Tail(rest)[j]
                     PROVE  i = j
          OBVIOUS
        <5>1. i + 1 \in 1..Len(rest) /\ j + 1 \in 1..Len(rest) /\ rest[i + 1] = rest[j + 1]
          BY <4>1
        <5>2. i + 1 = j + 1
          BY <4>2, <5>1
        <5> QED BY <5>2
      <4>5. \A i \in 1..Len(Tail(rest)) :
              since[Tail(rest)[i]] > 0 /\ since[Tail(rest)[i]] < n /\ ~Has(seen'[Tail(rest)[i]], n)
        <5> SUFFICES ASSUME NEW i \in 1..Len(Tail(rest))
                     PROVE  /\ since[Tail(rest)[i]] > 0 /\ since[Tail(rest)[i]] < n
                            /\ ~Has(seen'[Tail(rest)[i]], n)
          OBVIOUS
        <5>1. i + 1 \in 1..Len(rest) /\ Tail(rest)[i] = rest[i + 1]
          BY <4>1
        <5>2. rest[i + 1] # o
          <6>1. i + 1 # 1
            BY <1>2, <5>1
          <6> QED BY <1>n, <1>2, <4>2, <5>1, <6>1
        <5>3. rest[i + 1] \in Observers /\ ~Has(seen'[rest[i + 1]], n)
          BY <1>1, <1>6, <4>3, <5>1, <5>2
        <5> QED BY <4>3, <5>1, <5>3
      <4>6. call[th].n = n /\ n \in Nat /\ n <= Len(history)
        BY <1>n, <1>1, <1>5
      <4>7. PICK c : c = call'[th] /\ c.n = n /\ c.rest = Tail(rest)
        BY <1>3
      <4>8. RestStands(c, since, seen')
        <5>1. \A i, j \in 1..Len(c.rest) : c.rest[i] = c.rest[j] => i = j
          BY <4>4, <4>7
        <5>2. \A i \in 1..Len(c.rest) :
                since[c.rest[i]] > 0 /\ since[c.rest[i]] < c.n /\ ~Has(seen'[c.rest[i]], c.n)
          BY <4>5, <4>7
        <5> QED BY <5>1, <5>2 DEF RestStands
      <4>9. /\ call[th].at = "notifying" /\ call'[th].n = call[th].n
            /\ call'[th].n <= Len(history)
        BY <1>1, <1>3, <4>6
      <4>10. RestStands(call'[th], since, seen')
        BY <4>7, <4>8, Zenon
      <4> QED BY <3>1, <4>9, <4>10, Zenon
    <3>2. CASE x # th
      <4>1. call'[x] = call[x] /\ call[x].n # n /\ call[x].n \in Nat
        BY <1>n, <1>1, <1>3, <2>1, <3>2, CallFacts DEF Telling, CallsStand, RestStands
      <4>2. \A i \in 1..Len(call[x].rest) : call[x].rest[i] \in Observers
        BY <2>1, <4>1, CallFacts
      <4>3. \A i \in 1..Len(call[x].rest) : ~Has(seen'[call[x].rest[i]], call[x].n)
        BY <1>6, <2>1, <4>1, <4>2 DEF Telling, CallsStand, RestStands
      <4> QED BY <2>1, <4>1, <4>3 DEF Telling, CallsStand, RestStands
    <3> QED BY <3>1, <3>2
  <2>2. ASSUME NEW x \in Threads, NEW y \in Threads, call'[x].at = "notifying",
               call'[y].at = "notifying", call'[x].n = call'[y].n
        PROVE  x = y
    BY <2>1, <2>2 DEF Telling, CallsStand, RestStands
  <2> QED BY <1>1, <2>1, <2>2 DEF CallsStand
<1>10. ToldOrOwed'
  <2> SUFFICES ASSUME NEW p \in Observers, Registered(p), NEW m \in (since[p] + 1)..Len(history)
               PROVE  Has(seen'[p], m) \/ \E x \in Threads : Owing(x, p, m)'
    BY <1>1 DEF ToldOrOwed, Registered
  <2>1. m \in Nat
    BY DEF StoreTypeOK
  <2>2. Has(seen[p], m) \/ \E x \in Threads : Owing(x, p, m)
    BY DEF Telling, ToldOrOwed
  <2>3. ASSUME NEW x \in Threads, Owing(x, p, m)
        PROVE  Has(seen'[p], m) \/ Owing(x, p, m)'
    <3>1. CASE x # th
      BY <1>3, <2>3, <3>1 DEF Owing
    <3>2. CASE x = th
      <4>1. m = n
        BY <1>n, <2>3, <3>2 DEF Owing
      <4>2. PICK i \in 1..Len(rest) : rest[i] = p
        BY <1>n, <2>3, <3>2 DEF Owing
      <4>3. CASE i = 1
        BY <1>n, <1>6, <2>1, <4>1, <4>2, <4>3
      <4>4. CASE i # 1
        <5>1. i - 1 \in 1..Len(Tail(rest)) /\ Tail(rest)[i - 1] = p
          BY <1>1, <1>2, <4>2, <4>4
        <5> QED BY <1>3, <3>2, <4>1, <5>1 DEF Owing
      <4> QED BY <4>3, <4>4
    <3> QED BY <3>1, <3>2
  <2> QED BY <1>6, <2>1, <2>2, <2>3
<1> QED BY <1>7, <1>8, <1>9, <1>10 DEF Telling

\* Who is added is owed nothing yet.
LEMMA AddTells ==
    ASSUME StoreTypeOK, HistoryIsPath, Telling, NEW o \in Observers, Store!AddObserver(o)
    PROVE  Telling'
<1>1. /\ since[o] = 0 /\ seen[o] = <<>> /\ ~Registered(o)
      /\ UNCHANGED <<history, call, seen>> /\ Len(history) \in Nat /\ Len(history) > 0
      /\ since'[o] = Len(history) /\ \A p \in Observers \ {o} : since'[p] = since[p]
      /\ observers \in Seq(Observers) /\ observers' = Append(observers, o)
  BY DEF Store!AddObserver, Telling, ObserversStand, StoreTypeOK, HistoryIsPath
<1>2. /\ Len(observers) \in Nat /\ Len(observers') = Len(observers) + 1
      /\ observers'[Len(observers) + 1] = o
      /\ \A i \in 1..Len(observers) : observers'[i] = observers[i]
      /\ \A i \in 1..Len(observers') : i \in 1..Len(observers) \/ i = Len(observers) + 1
  BY <1>1
<1>3. \A p \in Observers : Registered(p)' => Registered(p) \/ p = o
  BY <1>2 DEF Registered
<1>4. ObserversStand'
  <2>1. \A i \in 1..Len(observers) : observers[i] # o
    BY <1>1 DEF Registered
  <2>2. \A i, j \in 1..Len(observers') : observers'[i] = observers'[j] => i = j
    BY <1>2, <2>1 DEF Telling, ObserversStand
  <2>3. \A p \in Observers : /\ Registered(p)' => since'[p] > 0
                             /\ since'[p] <= Len(history)
                             /\ since'[p] = 0 => seen[p] = <<>>
    BY <1>1, <1>3 DEF Telling, ObserversStand
  <2> QED BY <1>1, <2>2, <2>3 DEF ObserversStand
<1>5. ToldOnce'
  <2>1. Len(seen[o]) = 0
    BY <1>1
  <2> QED BY <1>1, <2>1 DEF Telling, ToldOnce
<1>6. CallsStand'
  <2>1. ASSUME NEW x \in Threads, call[x].at = "notifying", NEW i \in 1..Len(call[x].rest)
        PROVE  since'[call[x].rest[i]] = since[call[x].rest[i]]
    <3>1. call[x].rest[i] \in Observers /\ since[call[x].rest[i]] > 0
      BY <2>1, CallFacts DEF Telling, CallsStand, RestStands
    <3> QED BY <1>1, <3>1
  <2>2. ASSUME NEW x \in Threads, call[x].at = "notifying"
        PROVE  RestStands(call[x], since', seen)
    BY <2>1, <2>2 DEF Telling, CallsStand, RestStands
  <2> QED BY <1>1, <2>2 DEF Telling, CallsStand, RestStands
<1>7. ToldOrOwed'
  <2> SUFFICES ASSUME NEW p \in Observers, Registered(p)',
                      NEW n \in (since'[p] + 1)..Len(history)
               PROVE  Has(seen'[p], n) \/ \E x \in Threads : Owing(x, p, n)'
    BY <1>1 DEF ToldOrOwed
  <2>1. p # o
    BY <1>1
  <2>2. Registered(p) /\ since'[p] = since[p]
    BY <1>1, <1>3, <2>1
  <2>3. Has(seen[p], n) \/ \E x \in Threads : Owing(x, p, n)
    BY <2>2 DEF Telling, ToldOrOwed
  <2> QED BY <1>1, <2>3 DEF Has, Owing
<1> QED BY <1>4, <1>5, <1>6, <1>7 DEF Telling

LEMMA RemoveTells ==
    ASSUME StoreTypeOK, Telling, NEW o \in Observers, Store!RemoveObserver(o)
    PROVE  Telling'
<1>1. PICK k \in 1..Len(observers) :
         observers' = SubSeq(observers, 1, k - 1) \o SubSeq(observers, k + 1, Len(observers))
  BY DEF Store!RemoveObserver
<1>2. UNCHANGED <<history, call, seen, since>> /\ observers \in Seq(Observers)
  BY DEF Store!RemoveObserver, StoreTypeOK
<1>3. /\ Len(observers) \in Nat /\ Len(observers') = Len(observers) - 1
      /\ \A i \in 1..(Len(observers) - 1) :
           observers'[i] = IF i < k THEN observers[i] ELSE observers[i + 1]
  <2>1. /\ SubSeq(observers, 1, k - 1) \in Seq(Observers)
        /\ Len(SubSeq(observers, 1, k - 1)) = k - 1
        /\ \A i \in 1..(k - 1) : SubSeq(observers, 1, k - 1)[i] = observers[i]
    BY <1>2
  <2>2. /\ SubSeq(observers, k + 1, Len(observers)) \in Seq(Observers)
        /\ Len(SubSeq(observers, k + 1, Len(observers))) = Len(observers) - k
        /\ \A i \in 1..(Len(observers) - k) :
             SubSeq(observers, k + 1, Len(observers))[i] = observers[i + k]
    BY <1>2
  <2>0. Len(observers) \in Nat
    BY <1>2
  <2>3. PICK a, b : /\ a = SubSeq(observers, 1, k - 1)
                    /\ b = SubSeq(observers, k + 1, Len(observers))
    OBVIOUS
  <2>a. a \in Seq(Observers) /\ Len(a) = k - 1 /\ \A i \in 1..(k - 1) : a[i] = observers[i]
    BY <2>1, <2>3, Zenon
  <2>b. /\ b \in Seq(Observers) /\ Len(b) = Len(observers) - k
        /\ \A i \in 1..(Len(observers) - k) : b[i] = observers[i + k]
    BY <2>2, <2>3, Zenon
  <2>c. observers' = a \o b
    BY <1>1, <2>3, Zenon
  <2>4. /\ Len(observers') = Len(a) + Len(b)
        /\ \A i \in 1..(Len(a) + Len(b)) :
             observers'[i] = IF i <= Len(a) THEN a[i] ELSE b[i - Len(a)]
    <3>1. a \in Seq(Observers) /\ b \in Seq(Observers)
      BY <2>a, <2>b
    <3>2. /\ Len(a \o b) = Len(a) + Len(b)
          /\ \A i \in 1..(Len(a) + Len(b)) : (a \o b)[i] = IF i <= Len(a) THEN a[i] ELSE b[i - Len(a)]
      BY <3>1, ConcatProperties, Zenon
    <3> QED BY <2>c, <3>2, Zenon
  <2>5. Len(observers') = Len(observers) - 1
    BY <2>0, <2>a, <2>b, <2>4
  <2>6. ASSUME NEW i \in 1..(Len(observers) - 1)
        PROVE  observers'[i] = IF i < k THEN observers[i] ELSE observers[i + 1]
    <3>1. i \in 1..(Len(a) + Len(b))
      BY <2>0, <2>a, <2>b
    <3>2. CASE i < k
      BY <2>0, <2>a, <2>b, <2>4, <3>1, <3>2
    <3>3. CASE ~(i < k)
      <4>1. i - Len(a) \in 1..(Len(observers) - k) /\ (i - Len(a)) + k = i + 1
        BY <2>0, <2>a, <2>b, <3>3
      <4>2. observers'[i] = b[i - Len(a)]
        BY <2>0, <2>a, <2>b, <2>4, <3>1, <3>3
      <4> QED BY <2>0, <2>a, <2>b, <3>3, <4>1, <4>2
    <3> QED BY <3>2, <3>3
  <2> QED BY <2>0, <2>a, <2>b, <2>5, <2>6
<1>4. \A p \in Observers : Registered(p)' => Registered(p)
  <2> SUFFICES ASSUME NEW p \in Observers, NEW i \in 1..Len(observers'), observers'[i] = p
               PROVE  Registered(p)
    BY DEF Registered
  <2>1. i \in 1..Len(observers) /\ i + 1 \in 1..Len(observers)
    BY <1>3
  <2>2. p = observers[i] \/ p = observers[i + 1]
    BY <1>3
  <2> QED BY <2>1, <2>2 DEF Registered
<1>5. ObserversStand'
  <2>1. \A i, j \in 1..Len(observers') : observers'[i] = observers'[j] => i = j
    <3> SUFFICES ASSUME NEW i \in 1..Len(observers'), NEW j \in 1..Len(observers'),
                        observers'[i] = observers'[j]
                 PROVE  i = j
      OBVIOUS
    <3> DEFINE at(x) == IF x < k THEN x ELSE x + 1
    <3>1. /\ at(i) \in 1..Len(observers) /\ at(j) \in 1..Len(observers)
          /\ observers'[i] = observers[at(i)] /\ observers'[j] = observers[at(j)]
      BY <1>3
    <3>2. at(i) = at(j)
      <4> HIDE DEF at
      <4> QED BY <3>1 DEF Telling, ObserversStand
    <3> QED BY <1>3, <3>2
  <2> QED BY <1>2, <1>4, <2>1 DEF Telling, ObserversStand
<1>6. CallsStand' /\ ToldOnce'
  BY <1>2 DEF Telling, CallsStand, ToldOnce, Has
<1>7. ToldOrOwed'
  <2> SUFFICES ASSUME NEW p \in Observers, Registered(p), NEW n \in (since[p] + 1)..Len(history)
               PROVE  Has(seen'[p], n) \/ \E x \in Threads : Owing(x, p, n)'
    BY <1>2, <1>4 DEF ToldOrOwed
  <2>1. Has(seen[p], n) \/ \E x \in Threads : Owing(x, p, n)
    BY DEF Telling, ToldOrOwed
  <2> QED BY <1>2, <2>1 DEF Has, Owing
<1> QED BY <1>5, <1>6, <1>7 DEF Telling

LEMMA TellingStep == IInv /\ IInv' /\ Telling /\ [Store!Next]_(Store!vars) => Telling'
<1> SUFFICES ASSUME IInv, IInv', Telling, [Store!Next]_(Store!vars) PROVE Telling'
  OBVIOUS
<1> USE DEF IInv
<1>1. ASSUME NEW th \in Threads, NEW target, Store!Transition(th, target) PROVE Telling'
  <2>1. call[th].at # "notifying"
    BY <1>1 DEF Store!Transition, Idle, Store!Idle
  <2> QED BY <1>1, <2>1, CommitTells DEF Store!Transition, StoreTypeOK
<1>2. ASSUME NEW th \in Threads, Store!TransitionGuarded(th) PROVE Telling'
  BY <1>2, CommitTells DEF Store!TransitionGuarded, StoreTypeOK
<1>3. ASSUME NEW th \in Threads, NEW g \in GuardedCalls, Store!CheckCurrent(th, g[1], g[2])
      PROVE  Telling'
  <2>1. /\ call[th].at # "notifying" /\ call'[th].at # "notifying"
        /\ \A other \in Threads \ {th} : call'[other] = call[other]
        /\ UNCHANGED <<history, observers, seen, since>>
    BY <1>3 DEF Store!CheckCurrent, StoreTypeOK, Idle, Guarded, Store!Idle, Store!Guarded
  <2> QED BY <2>1, QuietCalls
<1>4. ASSUME NEW th \in Threads, Store!GuardedRaises(th) \/ Store!Return(th) PROVE Telling'
  <2>1. /\ call[th].at # "notifying" \/ call[th].rest = <<>>
        /\ call'[th].at # "notifying"
        /\ \A other \in Threads \ {th} : call'[other] = call[other]
        /\ UNCHANGED <<history, observers, seen, since>>
    BY <1>4 DEF Store!GuardedRaises, Store!Return, StoreTypeOK, Idle, Store!Idle
  <2> QED BY <2>1, QuietCalls
<1>5. ASSUME NEW th \in Threads, Store!Notify(th) PROVE Telling'
  BY <1>5, NotifyTells
<1>6. ASSUME NEW o \in Observers, Store!AddObserver(o) \/ Store!RemoveObserver(o) PROVE Telling'
  BY <1>6, AddTells, RemoveTells
<1>7. CASE UNCHANGED Store!vars
  BY <1>7 DEF Store!vars, Telling, ObserversStand, CallsStand, ToldOnce, ToldOrOwed, Has, Owing,
              Registered
<1> QED BY <1>1, <1>2, <1>3, <1>4, <1>5, <1>6, <1>7 DEF Store!Next

LEMMA TellingInit == Store!Init => Telling
<1> SUFFICES ASSUME Store!Init PROVE Telling
  OBVIOUS
<1>1. Len(observers) = 0 /\ \A o \in Observers : ~Registered(o)
  BY DEF Store!Init, Registered
<1>2. \A o \in Observers : Len(seen[o]) = 0 /\ seen[o] = <<>> /\ since[o] = 0
  BY DEF Store!Init
<1>3. Len(history) = 1 /\ \A th \in Threads : call[th].at # "notifying"
  BY DEF Store!Init, Idle, Store!Idle
<1> QED BY <1>1, <1>2, <1>3 DEF Telling, ObserversStand, CallsStand, ToldOnce, ToldOrOwed

\* No observer is told twice, nor of what it missed; and once every thread is
\* through, one that stayed was told of every transition since it was added.
THEOREM ToldOnceEachHolds == Store!Spec => []ToldOnceEach
<1>1. IInv /\ Telling => ToldOnceEach
  <2> SUFFICES ASSUME Telling PROVE ToldOnceEach
    OBVIOUS
  <2>1. (\A th \in Threads : call[th].at # "notifying") =>
          \A o \in Observers : Registered(o) =>
            \A n \in (since[o] + 1)..Len(history) : Has(seen[o], n)
    BY DEF Telling, ToldOrOwed, Owing
  <2> QED BY <2>1 DEF Telling, ToldOnce, ToldOnceEach, Has
<1> QED BY <1>1, TellingInit, TellingStep, PathHolds, PTL DEF Store!Spec
=============================================================================
