----------------------------- MODULE ServiceProofs -----------------------------
(***************************************************************************)
(* The services of a runtime, proved for any number of them: the registry  *)
(* that starts and stops them, whose definitions appear under their own    *)
(* names, and the containers that make them, whose operators are those of  *)
(* Container.                                                              *)
(***************************************************************************)
EXTENDS ServiceRegistry, ContainerState, SequenceLemmas

Container == INSTANCE DependencyContainer

-----------------------------------------------------------------------------
(* The registry *)

\* The order holds the names that are taken, and each name has its own registration.
NamesStand ==
    \A n \in Names :
        /\ n \in ToSet(order) <=> current[n] # Nobody
        /\ current[n] # Nobody => Name[current[n]] = n

\* While start_all() awaits a service, what lies before its place has come up;
\* what has the place is what it awaits, or has been put over it.
StarterStands(c) ==
    at[c] = "awaiting" =>
        /\ index[c] \in DOMAIN order /\ awaits[c] \in Lifecycle
        /\ Reg(index[c]) \in Overriders \cup {awaits[c]}
        /\ \A j \in 1..(index[c] - 1) : Reg(j) \in Lifecycle \ Overriders => Reg(j) \in started

\* What has place j, if stop_all() found it up, has had its turn.
Turned(c, j) == Reg(j) \in owed[c] => Reg(j) \in tried[c] \cup stopped

StopperStands(c) ==
    /\ owed[c] \subseteq started
    /\ at[c] = "awaiting" =>
         /\ index[c] \in DOMAIN order /\ awaits[c] \in started \cap tried[c]
         /\ Reg(index[c]) \in owed[c] => Reg(index[c]) = awaits[c]
         /\ \A j \in (index[c] + 1)..Len(order) : Turned(c, j)
    /\ at[c] = "returned" => \A j \in 1..Len(order) : Turned(c, j)

RegistryInv ==
    /\ TypeOK /\ NamesStand
    /\ \A c \in Starters : StarterStands(c)
    /\ \A c \in Stoppers : StopperStands(c)

\* Each place of the order is that of a registration.
LEMMA OrderPlaces ==
    ASSUME TypeOK, NamesStand
    PROVE  /\ Len(order) \in Nat /\ DOMAIN order = 1..Len(order)
           /\ \A i \in 1..Len(order) :
                order[i] \in Names /\ Reg(i) \in Regs /\ Name[Reg(i)] = order[i]
           /\ \A r \in Regs : current[Name[r]] = r => \E i \in 1..Len(order) : Reg(i) = r
<1>1. /\ Len(order) \in Nat /\ DOMAIN order = 1..Len(order)
      /\ \A i \in 1..Len(order) : order[i] \in Names
  BY LenProperties, ElementOfSeq DEF TypeOK
<1>2. current \in [Names -> Regs \cup {Nobody}] /\ Nobody \notin Regs /\ Name \in [Regs -> Names]
  BY RegistryAssumption DEF TypeOK
<1>3. ASSUME NEW i \in 1..Len(order)
      PROVE  Reg(i) \in Regs /\ Name[Reg(i)] = order[i]
  <2>1. order[i] \in Names /\ order[i] \in ToSet(order)
    BY <1>1 DEF ToSet
  <2>2. current[order[i]] # Nobody /\ Name[current[order[i]]] = order[i]
    BY <2>1 DEF NamesStand
  <2> QED BY <1>2, <2>1, <2>2 DEF Reg
<1>4. ASSUME NEW r \in Regs, current[Name[r]] = r
      PROVE  \E i \in 1..Len(order) : Reg(i) = r
  <2>1. Name[r] \in ToSet(order)
    BY <1>2, <1>4 DEF NamesStand
  <2>2. PICK i \in 1..Len(order) : order[i] = Name[r]
    BY <1>1, <2>1 DEF ToSet
  <2> QED BY <1>4, <2>2 DEF Reg
<1> QED
  BY <1>1, <1>3, <1>4

\* The place from i on whose service is to be started, or none.
LEMMA NextStartFinds ==
    ASSUME TypeOK, NEW i \in Nat, NEW up, NEW n, n = NextStart(i, up)
    PROVE  /\ n \in {0} \cup DOMAIN order
           /\ n # 0 => n >= i /\ Reg(n) \in Lifecycle \ up
           /\ n # 0 => \A j \in i..(n - 1) : j \in DOMAIN order => Reg(j) \notin Lifecycle \ up
<1> DEFINE Due == {j \in DOMAIN order : j >= i /\ Reg(j) \in Lifecycle \ up}
<1>1. DOMAIN order = 1..Len(order) /\ Len(order) \in Nat
  BY LenProperties DEF TypeOK
<1>2. n = IF Due = {} THEN 0 ELSE Min(Due)
  BY DEF NextStart
<1>3. Due \in SUBSET Nat
  BY <1>1
<1>4. ASSUME Due # {} PROVE n \in Due /\ \A j \in Due : n <= j
  <2> HIDE DEF Due
  <2> QED BY <1>2, <1>3, <1>4, MinElement
<1>5. CASE Due = {}
  BY <1>2, <1>5
<1>6. CASE Due # {}
  <2>1. n \in DOMAIN order /\ n >= i /\ Reg(n) \in Lifecycle \ up /\ n \in Nat
    BY <1>1, <1>4, <1>6
  <2>2. ASSUME NEW j \in i..(n - 1), j \in DOMAIN order PROVE Reg(j) \notin Lifecycle \ up
    <3>1. j >= i /\ ~(n <= j)
      BY <2>1
    <3> QED BY <1>4, <1>6, <2>2, <3>1
  <2> QED BY <2>1, <2>2
<1> QED
  BY <1>5, <1>6

\* The place up to i whose service is to be stopped, or none.
LEMMA NextStopFinds ==
    ASSUME TypeOK, NEW i \in Nat, i <= Len(order), NEW down, NEW n, n = NextStop(i, down)
    PROVE  /\ n \in 0..i
           /\ n # 0 => n \in DOMAIN order /\ Stoppable(Reg(n), down)
           /\ \A j \in (n + 1)..i : ~Stoppable(Reg(j), down)
<1> DEFINE Due == {j \in DOMAIN order : j <= i /\ Stoppable(Reg(j), down)}
<1>1. DOMAIN order = 1..Len(order) /\ Len(order) \in Nat
  BY LenProperties DEF TypeOK
<1>2. n = IF Due = {} THEN 0 ELSE Max(Due)
  BY DEF NextStop
<1>3. Due \in SUBSET Nat /\ \A j \in Due : j <= i
  BY <1>1
<1>4. ASSUME Due # {} PROVE n \in Due /\ \A j \in Due : j <= n
  <2> HIDE DEF Due
  <2> QED BY <1>2, <1>3, <1>4, MaxElement
<1>5. \A j \in 1..i : j \in DOMAIN order
  BY <1>1
<1>6. CASE Due = {}
  <2>1. n = 0
    BY <1>2, <1>6
  <2> QED BY <1>5, <1>6, <2>1
<1>7. CASE Due # {}
  <2>1. n \in DOMAIN order /\ n \in 1..i /\ Stoppable(Reg(n), down)
    BY <1>1, <1>4, <1>7
  <2>2. ASSUME NEW j \in (n + 1)..i PROVE ~Stoppable(Reg(j), down)
    <3>1. j \in 1..i /\ j <= i /\ ~(j <= n)
      BY <2>1
    <3> QED BY <1>4, <1>5, <1>7, <3>1
  <2> QED BY <2>1, <2>2
<1> QED
  BY <1>6, <1>7

\* A call that is not concerned: flags are only ever set.
LEMMA Bystander ==
    ASSUME RegistryInv, NEW c \in Callers, UNCHANGED <<current, order>>,
           started \subseteq started', stopped \subseteq stopped',
           at'[c] = at[c], index'[c] = index[c], awaits'[c] = awaits[c]
    PROVE  /\ c \in Starters => StarterStands(c)'
           /\ c \in Stoppers /\ owed'[c] = owed[c] /\ tried'[c] = tried[c] => StopperStands(c)'
<1>1. \A i : Reg(i)' = Reg(i)
  BY DEF Reg
<1>2. ASSUME c \in Starters PROVE StarterStands(c)'
  <2>1. StarterStands(c)
    BY <1>2 DEF RegistryInv
  <2> QED BY <1>1, <2>1 DEF StarterStands
<1>3. ASSUME c \in Stoppers, owed'[c] = owed[c], tried'[c] = tried[c] PROVE StopperStands(c)'
  <2>1. StopperStands(c)
    BY <1>3 DEF RegistryInv
  <2>2. \A j : Turned(c, j) => Turned(c, j)'
    BY <1>1, <1>3 DEF Turned
  <2> QED BY <1>1, <1>3, <2>1, <2>2 DEF StopperStands
<1> QED
  BY <1>2, <1>3

\* What register() does to a place of the order.
LEMMA RegisterPlaces ==
    ASSUME RegistryInv, NEW r \in Regs, Register(r)
    PROVE  /\ current' \in [Names -> Regs \cup {Nobody}] /\ order' \in Seq(Names)
           /\ IsInjective(order') /\ NamesStand'
           /\ DOMAIN order \subseteq DOMAIN order'
           /\ \A i \in DOMAIN order : Reg(i)' = Reg(i) \/ (Reg(i)' = r /\ r \in Overriders)
           /\ \A i \in DOMAIN order' \ DOMAIN order : Reg(i)' = r
<1>1. /\ current[Name[r]] = Nobody \/ r \in Overriders
      /\ current' = [current EXCEPT ![Name[r]] = r]
      /\ order' = IF Name[r] \in ToSet(order) THEN order ELSE Append(order, Name[r])
  BY DEF Register
<1>2. /\ Name \in [Regs -> Names] /\ Nobody \notin Regs
      /\ current \in [Names -> Regs \cup {Nobody}] /\ order \in Seq(Names) /\ IsInjective(order)
  BY RegistryAssumption DEF RegistryInv, TypeOK
<1>3. Len(order) \in Nat /\ DOMAIN order = 1..Len(order)
  BY <1>2, LenProperties
<1>4. PICK n \in Names : n = Name[r]
  BY <1>2
<1>5. /\ current' \in [Names -> Regs \cup {Nobody}] /\ current'[n] = r
      /\ \A m \in Names : m # n => current'[m] = current[m]
  BY <1>1, <1>2, <1>4
<1>6. /\ order' \in Seq(Names) /\ IsInjective(order') /\ ToSet(order') = ToSet(order) \cup {n}
      /\ DOMAIN order \subseteq DOMAIN order'
      /\ \A i \in DOMAIN order : order'[i] = order[i]
      /\ \A i \in DOMAIN order' \ DOMAIN order : order'[i] = n
  <2>1. CASE n \in ToSet(order)
    BY <1>1, <1>2, <1>4, <2>1
  <2>2. CASE n \notin ToSet(order)
    <3>1. order' = Append(order, n)
      BY <1>1, <1>4, <2>2
    <3>2. IsInjective(order')
      BY <1>2, <2>2, <3>1, AppendKeepsInjective
    <3>3. /\ order' \in Seq(Names) /\ ToSet(order') = ToSet(order) \cup {n}
          /\ DOMAIN order' = 1..(Len(order) + 1)
          /\ \A i \in 1..Len(order) : order'[i] = order[i]
          /\ order'[Len(order) + 1] = n
      BY <1>2, <3>1, AppendElements
    <3> QED BY <1>3, <3>2, <3>3
  <2> QED BY <2>1, <2>2
<1>7. NamesStand'
  BY <1>2, <1>4, <1>5, <1>6 DEF RegistryInv, NamesStand
<1>8. ASSUME NEW i \in DOMAIN order
      PROVE  Reg(i)' = Reg(i) \/ (Reg(i)' = r /\ r \in Overriders)
  <2>1. order[i] \in Names /\ Reg(i) \in Regs
    BY <1>3, OrderPlaces DEF RegistryInv
  <2>2. CASE order[i] = n
    <3>1. current[n] # Nobody
      BY <1>2, <2>1, <2>2 DEF Reg
    <3> QED BY <1>1, <1>4, <1>5, <1>6, <2>2, <3>1 DEF Reg
  <2>3. CASE order[i] # n
    BY <1>5, <1>6, <2>1, <2>3 DEF Reg
  <2> QED BY <2>2, <2>3
<1>9. \A i \in DOMAIN order' \ DOMAIN order : Reg(i)' = r
  BY <1>5, <1>6 DEF Reg
<1> QED
  BY <1>5, <1>6, <1>7, <1>8, <1>9

LEMMA RegisterKeeps ==
    ASSUME RegistryInv, NEW r \in Regs, Register(r)
    PROVE  RegistryInv'
<1>1. /\ r \notin started
      /\ UNCHANGED <<started, stopped, at, index, awaits, owed, tried>>
  BY DEF Register, flags, calls
<1>2. /\ DOMAIN order \subseteq DOMAIN order' /\ NamesStand'
      /\ \A i \in DOMAIN order : Reg(i)' = Reg(i) \/ (Reg(i)' = r /\ r \in Overriders)
      /\ \A i \in DOMAIN order' \ DOMAIN order : Reg(i)' = r
  BY RegisterPlaces
<1>3. TypeOK'
  BY <1>1, RegisterPlaces DEF RegistryInv, TypeOK
<1>4. /\ DOMAIN order = 1..Len(order) /\ Len(order) \in Nat
      /\ DOMAIN order' = 1..Len(order') /\ Len(order') \in Nat
  BY <1>3, LenProperties DEF RegistryInv, TypeOK
<1>5. ASSUME NEW c \in Starters PROVE StarterStands(c)'
  <2> SUFFICES ASSUME at[c] = "awaiting"
               PROVE  /\ index[c] \in DOMAIN order' /\ awaits[c] \in Lifecycle
                      /\ Reg(index[c])' \in Overriders \cup {awaits[c]}
                      /\ \A j \in 1..(index[c] - 1) :
                           Reg(j)' \in Lifecycle \ Overriders => Reg(j)' \in started
    BY <1>1 DEF StarterStands, Reg
  <2>1. /\ index[c] \in DOMAIN order /\ awaits[c] \in Lifecycle
        /\ Reg(index[c]) \in Overriders \cup {awaits[c]}
        /\ \A j \in 1..(index[c] - 1) : Reg(j) \in Lifecycle \ Overriders => Reg(j) \in started
    BY DEF RegistryInv, StarterStands
  <2>2. \A j \in 1..(index[c] - 1) : j \in DOMAIN order
    BY <1>4, <2>1
  <2> QED BY <1>1, <1>2, <2>1, <2>2
<1>6. ASSUME NEW c \in Stoppers PROVE StopperStands(c)'
  <2>1. StopperStands(c) /\ r \notin owed[c]
    BY <1>1 DEF RegistryInv, StopperStands
  <2>2. \A j \in DOMAIN order : Turned(c, j) => Turned(c, j)'
    BY <1>1, <1>2, <2>1 DEF Turned
  <2>3. \A j \in DOMAIN order' \ DOMAIN order : Turned(c, j)'
    BY <1>1, <1>2, <2>1 DEF Turned
  <2>4. ASSUME at[c] = "awaiting"
        PROVE  /\ index[c] \in DOMAIN order' /\ awaits[c] \in started \cap tried[c]
               /\ Reg(index[c])' \in owed[c] => Reg(index[c])' = awaits[c]
               /\ \A j \in (index[c] + 1)..Len(order') : Turned(c, j)'
    <3>1. /\ index[c] \in DOMAIN order /\ awaits[c] \in started \cap tried[c]
          /\ Reg(index[c]) \in owed[c] => Reg(index[c]) = awaits[c]
          /\ \A j \in (index[c] + 1)..Len(order) : Turned(c, j)
      BY <2>1, <2>4 DEF StopperStands
    <3>2. ASSUME NEW j \in (index[c] + 1)..Len(order') PROVE Turned(c, j)'
      <4>1. j \in DOMAIN order' /\ (j \in DOMAIN order => j \in (index[c] + 1)..Len(order))
        BY <1>4, <3>1
      <4> QED BY <2>2, <2>3, <3>1, <4>1
    <3> QED BY <1>1, <1>2, <2>1, <3>1, <3>2
  <2>5. ASSUME at[c] = "returned", NEW j \in 1..Len(order') PROVE Turned(c, j)'
    <3>1. j \in DOMAIN order' /\ (j \in DOMAIN order => j \in 1..Len(order))
      BY <1>4
    <3>2. \A i \in 1..Len(order) : Turned(c, i)
      BY <2>1, <2>5 DEF StopperStands
    <3> QED BY <2>2, <2>3, <3>1, <3>2
  <2>6. owed[c] \subseteq started
    BY <2>1 DEF StopperStands
  <2> QED BY <1>1, <2>4, <2>5, <2>6 DEF StopperStands, Reg
<1> QED
  BY <1>2, <1>3, <1>5, <1>6 DEF RegistryInv

-----------------------------------------------------------------------------
(* start_all and stop_all *)

\* start_all() goes on from place k: what lies before it has come up.
LEMMA StartGoesOn ==
    ASSUME RegistryInv, NEW c \in Starters, UNCHANGED <<current, order, stopped, owed, tried>>,
           started \subseteq started', started' \subseteq Lifecycle,
           NEW k \in Nat \ {0}, NEW n, n = NextStart(k, started'), GoOn(c, n),
           \A j \in DOMAIN order : j < k /\ Reg(j) \in Lifecycle \ Overriders => Reg(j) \in started'
    PROVE  RegistryInv'
<1>1. TypeOK /\ NamesStand /\ c \in Callers /\ c \notin Stoppers
  BY RegistryAssumption DEF RegistryInv, Callers
<1>2. /\ Len(order) \in Nat /\ DOMAIN order = 1..Len(order)
      /\ \A i \in 1..Len(order) : Reg(i) \in Regs
  BY <1>1, OrderPlaces
<1>3. PICK up : up = started'
  OBVIOUS
<1>4. n = NextStart(k, up)
  BY <1>3 DEF NextStart
<1>5. /\ n \in {0} \cup DOMAIN order
      /\ n # 0 => n >= k /\ Reg(n) \in Lifecycle \ up
      /\ n # 0 => \A j \in k..(n - 1) : j \in DOMAIN order => Reg(j) \notin Lifecycle \ up
  BY <1>1, <1>4, NextStartFinds
<1>6. /\ index' = [index EXCEPT ![c] = n]
      /\ awaits' = [awaits EXCEPT ![c] = IF n = 0 THEN Nobody ELSE Reg(n)]
      /\ at' = [at EXCEPT ![c] = IF n = 0 THEN "returned" ELSE "awaiting"]
  BY DEF GoOn
<1>7. TypeOK'
  <2>1. n \in Nat /\ (n # 0 => Reg(n) \in Regs)
    BY <1>2, <1>5
  <2>2. /\ index' \in [Callers -> Nat] /\ awaits' \in [Callers -> Regs \cup {Nobody}]
        /\ at' \in [Callers -> {"new", "awaiting", "returned", "raised"}]
    BY <1>1, <1>6, <2>1 DEF TypeOK
  <2>3. stopped' \subseteq started'
    BY <1>1 DEF TypeOK
  <2> QED BY <1>1, <2>2, <2>3 DEF TypeOK
<1>8. NamesStand'
  BY <1>1 DEF NamesStand
<1>9. /\ at'[c] = (IF n = 0 THEN "returned" ELSE "awaiting")
      /\ index'[c] = n /\ awaits'[c] = (IF n = 0 THEN Nobody ELSE Reg(n))
      /\ \A d \in Callers : d # c => at'[d] = at[d] /\ index'[d] = index[d] /\ awaits'[d] = awaits[d]
  BY <1>1, <1>6 DEF TypeOK
<1>10. StarterStands(c)'
  <2>1. \A i : Reg(i)' = Reg(i)
    BY DEF Reg
  <2>2. CASE n = 0
    BY <1>9, <2>2 DEF StarterStands
  <2>3. CASE n # 0
    <3>1. n \in DOMAIN order /\ Reg(n) \in Lifecycle
      BY <1>5, <2>3
    <3>2. ASSUME NEW j \in 1..(n - 1), Reg(j) \in Lifecycle \ Overriders PROVE Reg(j) \in up
      <4>1. j \in DOMAIN order /\ (j < k \/ j \in k..(n - 1))
        BY <1>2, <3>1
      <4> QED BY <1>3, <1>5, <2>3, <3>2, <4>1
    <3> QED BY <1>3, <1>9, <2>1, <2>3, <3>1, <3>2 DEF StarterStands
  <2> QED BY <2>2, <2>3
<1>11. \A d \in Starters \ {c} : StarterStands(d)'
  BY <1>9, Bystander DEF Callers
<1>12. \A d \in Stoppers : StopperStands(d)'
  BY <1>1, <1>9, Bystander DEF Callers
<1> QED
  BY <1>7, <1>8, <1>10, <1>11, <1>12 DEF RegistryInv

LEMMA StartsKeep ==
    ASSUME RegistryInv, NEW c \in Starters, StartAll(c) \/ Started(c)
    PROVE  RegistryInv'
<1>1. TypeOK /\ NamesStand /\ StarterStands(c) /\ c \in Callers
  BY DEF RegistryInv, Callers
<1>2. Len(order) \in Nat /\ DOMAIN order = 1..Len(order)
  BY <1>1, OrderPlaces
<1>3. CASE StartAll(c)
  <2>1. /\ UNCHANGED <<current, order, started, stopped, owed, tried>>
        /\ GoOn(c, NextStart(1, started))
    BY <1>3 DEF StartAll, flags
  <2>2. PICK n : n = NextStart(1, started)
    OBVIOUS
  <2>3. n = NextStart(1, started') /\ GoOn(c, n)
    BY <2>1, <2>2 DEF NextStart, GoOn
  <2>4. started' \subseteq Lifecycle
    BY <1>1, <2>1 DEF TypeOK
  <2>5. \A j \in DOMAIN order : ~(j < 1)
    BY <1>2
  <2> QED BY <2>1, <2>3, <2>4, <2>5, StartGoesOn
<1>4. CASE Started(c)
  <2>1. /\ at[c] = "awaiting" /\ started' = started \cup {awaits[c]}
        /\ UNCHANGED <<current, order, stopped, owed, tried>>
        /\ GoOn(c, NextStart(index[c] + 1, started'))
    BY <1>4 DEF Started
  <2>2. /\ index[c] \in DOMAIN order /\ awaits[c] \in Lifecycle
        /\ Reg(index[c]) \in Overriders \cup {awaits[c]}
        /\ \A j \in 1..(index[c] - 1) : Reg(j) \in Lifecycle \ Overriders => Reg(j) \in started
    BY <1>1, <2>1 DEF StarterStands
  <2>3. PICK k \in Nat \ {0} : k = index[c] + 1
    BY <1>2, <2>2
  <2>4. PICK n : n = NextStart(index[c] + 1, started')
    OBVIOUS
  <2>5. n = NextStart(k, started') /\ GoOn(c, n)
    BY <2>1, <2>3, <2>4 DEF NextStart, GoOn
  <2>6. started' \subseteq Lifecycle
    BY <1>1, <2>1, <2>2 DEF TypeOK
  <2>7. ASSUME NEW j \in DOMAIN order, j < k, Reg(j) \in Lifecycle \ Overriders
        PROVE  Reg(j) \in started'
    <3>1. j = index[c] \/ j \in 1..(index[c] - 1)
      BY <1>2, <2>2, <2>3, <2>7
    <3> QED BY <2>1, <2>2, <2>7, <3>1
  <2> QED BY <2>1, <2>5, <2>6, <2>7, StartGoesOn
<1> QED
  BY <1>3, <1>4

\* A call that raises awaits nothing any more.
LEMMA RaisesKeepRegistry ==
    ASSUME RegistryInv, NEW c \in Callers, Raise(c),
           UNCHANGED <<current, order, started, stopped, owed, tried>>
    PROVE  RegistryInv'
<1>1. /\ at' = [at EXCEPT ![c] = "raised"] /\ awaits' = [awaits EXCEPT ![c] = Nobody]
      /\ UNCHANGED index
  BY DEF Raise
<1>2. TypeOK' /\ NamesStand'
  BY <1>1 DEF RegistryInv, TypeOK, NamesStand
<1>3. /\ at'[c] = "raised"
      /\ \A d \in Callers : d # c => at'[d] = at[d] /\ index'[d] = index[d] /\ awaits'[d] = awaits[d]
  BY <1>1 DEF RegistryInv, TypeOK
<1>4. c \in Starters => StarterStands(c)'
  BY <1>3 DEF StarterStands
<1>5. c \in Stoppers => StopperStands(c)'
  BY <1>3 DEF RegistryInv, StopperStands
<1>6. /\ \A d \in Starters \ {c} : StarterStands(d)'
      /\ \A d \in Stoppers \ {c} : StopperStands(d)'
  BY <1>3, Bystander DEF Callers
<1> QED
  BY <1>2, <1>4, <1>5, <1>6 DEF RegistryInv

\* stop_all() goes on from place k downwards: what lies above has had its turn.
LEMMA StopGoesOnFrom ==
    ASSUME RegistryInv, NEW c \in Stoppers, UNCHANGED <<current, order, started>>,
           stopped \subseteq stopped', stopped' \subseteq started,
           NEW k \in Nat, k <= Len(order), StopOn(c, k, stopped'),
           owed' \in [Stoppers -> SUBSET Regs], owed'[c] \subseteq started,
           \A d \in Stoppers : d # c => owed'[d] = owed[d],
           \A j \in DOMAIN order : j > k /\ Reg(j) \in owed'[c] => Reg(j) \in tried[c] \cup stopped'
    PROVE  RegistryInv'
<1>1. TypeOK /\ NamesStand /\ c \in Callers /\ c \notin Starters
  BY RegistryAssumption DEF RegistryInv, Callers
<1>2. /\ Len(order) \in Nat /\ DOMAIN order = 1..Len(order)
      /\ \A i \in 1..Len(order) : Reg(i) \in Regs
  BY <1>1, OrderPlaces
<1>3. PICK down : down = stopped'
  OBVIOUS
<1>4. PICK n : n = NextStop(k, down)
  OBVIOUS
<1>5. n = NextStop(k, stopped')
  BY <1>3, <1>4 DEF NextStop
<1>6. /\ n \in 0..k
      /\ n # 0 => n \in DOMAIN order /\ Stoppable(Reg(n), down)
      /\ \A j \in (n + 1)..k : ~Stoppable(Reg(j), down)
  BY <1>1, <1>4, NextStopFinds
<1>7. /\ index' = [index EXCEPT ![c] = n]
      /\ awaits' = [awaits EXCEPT ![c] = IF n = 0 THEN Nobody ELSE Reg(n)]
      /\ at' = [at EXCEPT ![c] = IF n = 0 THEN "returned" ELSE "awaiting"]
      /\ tried' = IF n = 0 THEN tried ELSE [tried EXCEPT ![c] = @ \cup {Reg(n)}]
  BY <1>5 DEF StopOn, GoOn
<1>8. TypeOK'
  <2>1. n \in Nat /\ (n # 0 => Reg(n) \in Regs)
    BY <1>2, <1>6
  <2>2. /\ index' \in [Callers -> Nat] /\ awaits' \in [Callers -> Regs \cup {Nobody}]
        /\ at' \in [Callers -> {"new", "awaiting", "returned", "raised"}]
    BY <1>1, <1>7, <2>1 DEF TypeOK
  <2>3. tried' \in [Stoppers -> SUBSET Regs]
    BY <1>1, <1>7, <2>1 DEF TypeOK
  <2> QED BY <1>1, <2>2, <2>3 DEF TypeOK
<1>9. NamesStand'
  BY <1>1 DEF NamesStand
<1>10. /\ at'[c] = (IF n = 0 THEN "returned" ELSE "awaiting")
       /\ index'[c] = n /\ awaits'[c] = (IF n = 0 THEN Nobody ELSE Reg(n))
       /\ tried'[c] = (IF n = 0 THEN tried[c] ELSE tried[c] \cup {Reg(n)})
       /\ \A d \in Callers : d # c => at'[d] = at[d] /\ index'[d] = index[d] /\ awaits'[d] = awaits[d]
       /\ \A d \in Stoppers : d # c => tried'[d] = tried[d]
  BY <1>1, <1>7 DEF TypeOK
<1>11. StopperStands(c)'
  <2>1. \A i : Reg(i)' = Reg(i)
    BY DEF Reg
  <2>2. ASSUME NEW j \in 1..Len(order), j > n PROVE Turned(c, j)'
    <3> SUFFICES ASSUME Reg(j) \in owed'[c] PROVE Reg(j) \in tried[c] \cup down
      BY <1>3, <1>10, <2>1 DEF Turned
    <3>1. CASE j > k
      BY <1>2, <1>3, <3>1
    <3>2. CASE ~(j > k)
      <4>1. j \in (n + 1)..k
        BY <1>2, <1>6, <2>2, <3>2
      <4> QED BY <1>6, <4>1 DEF Stoppable
    <3> QED BY <3>1, <3>2
  <2>3. CASE n = 0
    <3>1. \A j \in 1..Len(order) : Turned(c, j)'
      BY <2>2, <2>3
    <3> QED BY <1>10, <2>3, <3>1 DEF StopperStands
  <2>4. CASE n # 0
    <3>1. n \in DOMAIN order /\ Reg(n) \in started
      BY <1>6, <2>4 DEF Stoppable
    <3>2. \A j \in (n + 1)..Len(order) : Turned(c, j)'
      BY <1>2, <2>2, <3>1
    <3> QED BY <1>10, <2>1, <2>4, <3>1, <3>2 DEF StopperStands
  <2> QED BY <2>3, <2>4
<1>12. \A d \in Stoppers \ {c} : StopperStands(d)'
  BY <1>10, Bystander DEF Callers
<1>13. \A d \in Starters : StarterStands(d)'
  BY <1>1, <1>10, Bystander DEF Callers
<1> QED
  BY <1>8, <1>9, <1>11, <1>12, <1>13 DEF RegistryInv

LEMMA StopsKeep ==
    ASSUME RegistryInv, NEW c \in Stoppers, StopAll(c) \/ Stopped(c) \/ StopFails(c)
    PROVE  RegistryInv'
<1>1. TypeOK /\ NamesStand /\ StopperStands(c)
  BY DEF RegistryInv
<1>2. Len(order) \in Nat /\ DOMAIN order = 1..Len(order)
  BY <1>1, OrderPlaces
<1>3. started \subseteq Regs /\ stopped \subseteq started
  BY <1>1, RegistryAssumption DEF TypeOK
<1>4. CASE StopAll(c)
  <2>1. /\ owed' = [owed EXCEPT ![c] = started \ stopped]
        /\ UNCHANGED <<current, order, started, stopped>>
        /\ StopOn(c, Len(order), stopped)
    BY <1>4 DEF StopAll, flags
  <2>2. StopOn(c, Len(order), stopped')
    BY <2>1 DEF StopOn, NextStop, GoOn
  <2>3. /\ owed' \in [Stoppers -> SUBSET Regs] /\ owed'[c] \subseteq started
        /\ \A d \in Stoppers : d # c => owed'[d] = owed[d]
    BY <1>1, <1>3, <2>1 DEF TypeOK
  <2>4. \A j \in DOMAIN order : ~(j > Len(order))
    BY <1>2
  <2>5. PICK k \in Nat : k = Len(order)
    BY <1>2
  <2>6. StopOn(c, k, stopped') /\ \A j \in DOMAIN order : ~(j > k)
    BY <2>2, <2>4, <2>5 DEF StopOn, NextStop, GoOn
  <2>7. k <= Len(order) /\ stopped \subseteq stopped' /\ stopped' \subseteq started
    BY <1>2, <1>3, <2>1, <2>5
  <2> QED BY <2>1, <2>3, <2>6, <2>7, StopGoesOnFrom
<1>5. CASE Stopped(c) \/ StopFails(c)
  <2>1. /\ at[c] = "awaiting" /\ UNCHANGED <<current, order, started, owed>>
        /\ stopped' = stopped \cup {awaits[c]} \/ stopped' = stopped
        /\ StopOn(c, index[c] - 1, stopped')
    BY <1>5 DEF Stopped, StopFails, StopGoesOn
  <2>2. /\ index[c] \in DOMAIN order /\ awaits[c] \in started \cap tried[c]
        /\ Reg(index[c]) \in owed[c] => Reg(index[c]) = awaits[c]
        /\ \A j \in (index[c] + 1)..Len(order) : Turned(c, j)
    BY <1>1, <2>1 DEF StopperStands
  <2>3. PICK k \in Nat : k = index[c] - 1
    BY <1>2, <2>2
  <2>4. StopOn(c, k, stopped') /\ k <= Len(order)
    BY <1>2, <2>1, <2>2, <2>3 DEF StopOn, NextStop, GoOn
  <2>5. stopped \subseteq stopped' /\ stopped' \subseteq started
    BY <1>3, <2>1, <2>2
  <2>6. /\ owed' \in [Stoppers -> SUBSET Regs] /\ owed'[c] \subseteq started
        /\ \A d \in Stoppers : d # c => owed'[d] = owed[d]
    BY <1>1, <2>1 DEF StopperStands, TypeOK
  <2>7. ASSUME NEW j \in DOMAIN order, j > k, Reg(j) \in owed'[c]
        PROVE  Reg(j) \in tried[c] \cup stopped'
    <3>1. j = index[c] \/ j \in (index[c] + 1)..Len(order)
      BY <1>2, <2>2, <2>3, <2>7
    <3> QED BY <2>1, <2>2, <2>5, <2>7, <3>1 DEF Turned
  <2> QED BY <2>1, <2>4, <2>5, <2>6, <2>7, StopGoesOnFrom
<1> QED
  BY <1>4, <1>5

LEMMA InitRegistryInv == Init => RegistryInv
<1> SUFFICES ASSUME Init PROVE RegistryInv
  OBVIOUS
<1>1. TypeOK
  <2>1. order = <<>> /\ <<>> \in Seq(Names) /\ IsInjective(<<>>)
    BY DEF Init, IsInjective
  <2> QED BY <2>1 DEF Init, TypeOK
<1>2. NamesStand
  BY DEF Init, NamesStand, ToSet
<1>3. \A c \in Starters : StarterStands(c)
  BY DEF Init, StarterStands, Callers
<1>4. \A c \in Stoppers : StopperStands(c)
  BY DEF Init, StopperStands, Callers
<1> QED
  BY <1>1, <1>2, <1>3, <1>4 DEF RegistryInv

LEMMA NextRegistryInv == RegistryInv /\ [Next]_vars => RegistryInv'
<1> SUFFICES ASSUME RegistryInv, [Next]_vars PROVE RegistryInv'
  OBVIOUS
<1>1. ASSUME NEW c \in Starters, StartFails(c) PROVE RegistryInv'
  <2>1. c \in Callers /\ Raise(c) /\ UNCHANGED <<current, order, started, stopped, owed, tried>>
    BY <1>1 DEF StartFails, AfterStartFailure, Callers, flags
  <2> QED BY <2>1, RaisesKeepRegistry
<1>2. ASSUME NEW c \in Stoppers, StopCancelled(c) PROVE RegistryInv'
  <2>1. c \in Callers /\ Raise(c) /\ UNCHANGED <<current, order, started, stopped, owed, tried>>
    BY <1>2 DEF StopCancelled, Callers, flags
  <2> QED BY <2>1, RaisesKeepRegistry
<1>3. CASE UNCHANGED vars
  <2>1. UNCHANGED <<current, order, started, stopped, at, index, awaits, owed, tried>>
    BY <1>3 DEF vars, flags, calls
  <2> QED BY <2>1 DEF RegistryInv, TypeOK, NamesStand, StarterStands, StopperStands, Turned, Reg
<1> QED
  BY <1>1, <1>2, <1>3, RegisterKeeps, StartsKeep, StopsKeep DEF Next

\* The invariant of the registry holds in every reachable state.
THEOREM RegistryInvariant == Spec => []RegistryInv
BY InitRegistryInv, NextRegistryInv, PTL DEF Spec

\* A service is started only after every lifecycle service registered before it
\* has come up, whichever start_all() started them and whatever is registered
\* meanwhile.
THEOREM StartsInOrderHolds == Spec => []StartsInOrder
<1>1. RegistryInv => StartsInOrder
  BY DEF RegistryInv, StarterStands, StartsInOrder
<1> QED
  BY <1>1, RegistryInvariant, PTL

\* stop_all() gives every service that was up its turn, the later ones first,
\* whatever the others raise.
THEOREM StopsAllInReverseHolds == Spec => []StopsAllInReverse
<1>1. RegistryInv => StopsAllInReverse
  <2> SUFFICES ASSUME RegistryInv, NEW c \in Stoppers
               PROVE  /\ at[c] = "awaiting" =>
                           /\ awaits[c] \in started
                           /\ \A j \in (index[c] + 1)..Len(order) :
                                Reg(j) \in owed[c] => Reg(j) \in tried[c] \cup stopped
                      /\ at[c] = "returned" =>
                           \A r \in owed[c] : r \in tried[c] \cup stopped \/ current[Name[r]] # r
    BY DEF StopsAllInReverse
  <2>1. TypeOK /\ NamesStand /\ StopperStands(c)
    BY DEF RegistryInv
  <2>2. ASSUME at[c] = "returned", NEW r \in owed[c], current[Name[r]] = r
        PROVE  r \in tried[c] \cup stopped
    <3>1. r \in Regs
      BY <2>1, <2>2 DEF TypeOK
    <3>2. PICK i \in 1..Len(order) : Reg(i) = r
      BY <2>1, <2>2, <3>1, OrderPlaces
    <3> QED BY <2>1, <2>2, <3>2 DEF StopperStands, Turned
  <2> QED BY <2>1, <2>2 DEF StopperStands, Turned
<1> QED
  BY <1>1, RegistryInvariant, PTL

-----------------------------------------------------------------------------
(* The containers *)

\* The resolve() calls fs of one thread: no place is resolved inside its own
\* resolution, all calls but the innermost run a factory, and only singletons
\* look at their instance and wait for a lock.
StackStands(fs) ==
    /\ \A i, j \in DOMAIN fs : i # j => Place[fs[i].binding] # Place[fs[j].binding]
    /\ \A i \in DOMAIN fs : i < Len(fs) => fs[i].at = "making"
    /\ \A i \in DOMAIN fs : fs[i].at # "making" => fs[i].binding \in Singletons

AllMaking(fs) == \A i \in DOMAIN fs : fs[i].at = "making"
Makes(fs, b)  == \E i \in DOMAIN fs : fs[i].binding = b /\ fs[i].at = "making"
PlacesOf(fs)  == {Place[fs[i].binding] : i \in DOMAIN fs}

\* A binding is found at its own place only.
TableStands == \A p \in Places : table[p] # Absent => Place[table[p]] = p

ThreadsStand ==
    \A t \in Threads :
        /\ StackStands(frames[t])
        /\ raising[t] # "nothing" => AllMaking(frames[t])
        /\ \A b \in Singletons : lock[b] = t <=> Makes(frames[t], b)

\* Where nothing competes for its place, a singleton that is being made has no
\* instance yet, and one that was given has that.
InstancesStand ==
    \A b \in Singletons : ~Contested(b) =>
        /\ b \in Given => instance[b] \in {b, Absent}
        /\ b \notin Given => \A t \in Threads : Makes(frames[t], b) => instance[b] = Absent

ContainerInv == ContainerTypeOK /\ TableStands /\ ThreadsStand /\ InstancesStand

-----------------------------------------------------------------------------
(* Stacks *)

\* The innermost call ends.
LEMMA FrontStands ==
    ASSUME NEW fs \in Seq(Frames), fs # <<>>, StackStands(fs)
    PROVE  /\ Last(fs) \in Frames /\ Front(fs) \in Seq(Frames)
           /\ StackStands(Front(fs)) /\ AllMaking(Front(fs))
           /\ Place[Last(fs).binding] \notin PlacesOf(Front(fs))
           /\ PlacesOf(fs) = PlacesOf(Front(fs)) \cup {Place[Last(fs).binding]}
           /\ Makes(fs, Last(fs).binding) <=> Last(fs).at = "making"
           /\ \A b : Makes(Front(fs), b) <=> Makes(fs, b) /\ b # Last(fs).binding
           /\ Last(fs).at # "making" => Last(fs).binding \in Singletons
<1> DEFINE n  == Len(fs)
           gs == Front(fs)
<1>1. /\ n \in Nat \ {0} /\ DOMAIN fs = 1..n
      /\ Last(fs) = fs[n] /\ Last(fs) \in Frames
      /\ gs \in Seq(Frames) /\ Len(gs) = n - 1 /\ DOMAIN gs = 1..(n - 1)
      /\ \A i \in 1..(n - 1) : gs[i] = fs[i]
  BY FrontElements, LenProperties
<1>2. /\ \A i \in 1..(n - 1) : i \in 1..n /\ i # n /\ i < n
      /\ n \in 1..n /\ \A i \in 1..n : i = n \/ i \in 1..(n - 1)
  <2> HIDE DEF n
  <2>1. n \in Nat \ {0}
    BY <1>1
  <2> QED
    BY <2>1
<1>3. /\ \A i, j \in 1..n : i # j => Place[fs[i].binding] # Place[fs[j].binding]
      /\ \A i \in 1..(n - 1) : fs[i].at = "making"
      /\ \A i \in 1..n : fs[i].at # "making" => fs[i].binding \in Singletons
  BY <1>1, <1>2 DEF StackStands
<1> HIDE DEF n, gs
<1>4. StackStands(gs) /\ AllMaking(gs)
  BY <1>1, <1>2, <1>3 DEF StackStands, AllMaking
<1>5. \A i \in 1..(n - 1) : Place[fs[i].binding] # Place[fs[n].binding]
  BY <1>2, <1>3
<1>6. Place[Last(fs).binding] \notin PlacesOf(gs)
  BY <1>1, <1>5 DEF PlacesOf
<1>7. PlacesOf(fs) = PlacesOf(gs) \cup {Place[Last(fs).binding]}
  BY <1>1, <1>2 DEF PlacesOf
<1>8. Makes(fs, Last(fs).binding) <=> Last(fs).at = "making"
  BY <1>1, <1>2, <1>5 DEF Makes
<1>9. ASSUME NEW b
      PROVE  Makes(gs, b) <=> Makes(fs, b) /\ b # Last(fs).binding
  BY <1>1, <1>2, <1>5 DEF Makes
<1>10. Last(fs).at # "making" => Last(fs).binding \in Singletons
  BY <1>1, <1>2, <1>3
<1> QED
  BY <1>1, <1>4, <1>6, <1>7, <1>8, <1>9, <1>10 DEF gs

\* A call begins inside those that run a factory.
LEMMA PushStands ==
    ASSUME NEW fs \in Seq(Frames), StackStands(fs), AllMaking(fs),
           NEW f \in Frames, Place[f.binding] \notin PlacesOf(fs),
           f.at # "making" => f.binding \in Singletons
    PROVE  /\ Append(fs, f) \in Seq(Frames) /\ StackStands(Append(fs, f))
           /\ f.at = "making" => AllMaking(Append(fs, f))
           /\ PlacesOf(Append(fs, f)) = PlacesOf(fs) \cup {Place[f.binding]}
           /\ \A b : Makes(Append(fs, f), b) <=>
                       Makes(fs, b) \/ (b = f.binding /\ f.at = "making")
<1> DEFINE n  == Len(fs)
           gs == Append(fs, f)
<1>1. /\ n \in Nat /\ DOMAIN fs = 1..n
      /\ gs \in Seq(Frames) /\ Len(gs) = n + 1 /\ DOMAIN gs = 1..(n + 1)
      /\ \A i \in 1..n : gs[i] = fs[i]
      /\ gs[n + 1] = f
  BY AppendElements, LenProperties
<1>2. /\ \A i \in 1..n : i \in 1..(n + 1) /\ i # n + 1
      /\ n + 1 \in 1..(n + 1) /\ \A i \in 1..(n + 1) : i = n + 1 \/ i \in 1..n
      /\ \A i \in 1..(n + 1) : i < n + 1 => i \in 1..n
  BY <1>1
<1>3. /\ \A i, j \in 1..n : i # j => Place[fs[i].binding] # Place[fs[j].binding]
      /\ \A i \in 1..n : fs[i].at = "making" /\ Place[fs[i].binding] # Place[f.binding]
  BY <1>1 DEF StackStands, AllMaking, PlacesOf
<1> HIDE DEF n, gs
<1>4. StackStands(gs)
  <2>1. ASSUME NEW i \in 1..(n + 1), NEW j \in 1..(n + 1), i # j
        PROVE  Place[gs[i].binding] # Place[gs[j].binding]
    <3>1. CASE i \in 1..n /\ j \in 1..n
      BY <1>1, <1>3, <2>1, <3>1
    <3>2. CASE i = n + 1 /\ j \in 1..n
      BY <1>1, <1>3, <3>2
    <3>3. CASE j = n + 1 /\ i \in 1..n
      BY <1>1, <1>3, <3>3
    <3> QED
      BY <1>2, <2>1, <3>1, <3>2, <3>3
  <2>2. \A i \in 1..(n + 1) : i < n + 1 => gs[i].at = "making"
    BY <1>1, <1>2, <1>3
  <2>3. \A i \in 1..(n + 1) : gs[i].at # "making" => gs[i].binding \in Singletons
    BY <1>1, <1>2, <1>3
  <2> QED
    BY <1>1, <2>1, <2>2, <2>3 DEF StackStands
<1>5. f.at = "making" => AllMaking(gs)
  BY <1>1, <1>2, <1>3 DEF AllMaking
<1>6. PlacesOf(gs) = PlacesOf(fs) \cup {Place[f.binding]}
  BY <1>1, <1>2 DEF PlacesOf
<1>7. ASSUME NEW b
      PROVE  Makes(gs, b) <=> Makes(fs, b) \/ (b = f.binding /\ f.at = "making")
  BY <1>1, <1>2 DEF Makes
<1> QED
  BY <1>1, <1>4, <1>5, <1>6, <1>7 DEF gs

\* The innermost call moves on.
LEMMA ChangeStands ==
    ASSUME NEW fs \in Seq(Frames), fs # <<>>, StackStands(fs),
           NEW f \in Frames, f.binding = Last(fs).binding,
           f.at # "making" => f.binding \in Singletons
    PROVE  LET gs == Append(Front(fs), f)
           IN  /\ gs \in Seq(Frames) /\ StackStands(gs)
               /\ f.at = "making" => AllMaking(gs)
               /\ PlacesOf(gs) = PlacesOf(fs)
               /\ \A b : Makes(gs, b) <=> IF b = f.binding THEN f.at = "making" ELSE Makes(fs, b)
<1>1. /\ Front(fs) \in Seq(Frames)
      /\ StackStands(Front(fs)) /\ AllMaking(Front(fs))
      /\ Place[f.binding] \notin PlacesOf(Front(fs))
      /\ PlacesOf(fs) = PlacesOf(Front(fs)) \cup {Place[f.binding]}
      /\ \A b : Makes(Front(fs), b) <=> Makes(fs, b) /\ b # f.binding
  BY FrontStands
<1> QED
  BY <1>1, PushStands

-----------------------------------------------------------------------------
(* Looking up *)

\* What is found is bound at a place that the thread is not resolving.
LEMMA LookUpFinds ==
    ASSUME ContainerInv, NEW t \in Threads, NEW p \in Places,
           Container!LookUp(t, p[1], p[2]) \notin {"missing", "circular"}
    PROVE  /\ Container!LookUp(t, p[1], p[2]) \in Bindings
           /\ Place[Container!LookUp(t, p[1], p[2])] \notin Container!Stack(t)
           /\ \E i \in DOMAIN Chain[p[1]] :
                Place[Container!LookUp(t, p[1], p[2])] = <<Chain[p[1]][i], p[2]>>
<1> DEFINE c    == p[1]
           k    == p[2]
           Hits == {i \in DOMAIN Chain[c] : LET q == <<Chain[c][i], k>>
                                            IN  q \in Container!Stack(t) \/ table[q] # Absent}
           q    == <<Chain[c][Min(Hits)], k>>
<1>1. c \in Containers /\ k \in Keys /\ Chain[c] \in Seq(Containers)
  BY ContainerAssumption DEF Places
<1>2. DOMAIN Chain[c] \subseteq Nat /\ \A i \in DOMAIN Chain[c] : <<Chain[c][i], k>> \in Places
  BY <1>1, LenProperties, ElementOfSeq DEF Places
<1>3. Container!LookUp(t, c, k) = IF Hits = {} THEN "missing"
                                  ELSE IF q \in Container!Stack(t) THEN "circular" ELSE table[q]
  BY DEF Container!LookUp, Container!Min, Min
<1>4. Hits # {} /\ q \notin Container!Stack(t) /\ Container!LookUp(t, c, k) = table[q]
  BY <1>3
<1>5. Min(Hits) \in Hits
  <2>1. Hits \in SUBSET Nat
    BY <1>2
  <2> HIDE DEF Hits
  <2> QED
    BY <1>4, <2>1, MinElement
<1>6. q \in Places /\ table[q] # Absent /\ \E i \in DOMAIN Chain[c] : q = <<Chain[c][i], k>>
  BY <1>2, <1>4, <1>5
<1> HIDE DEF q, Hits
<1>7. table[q] \in Bindings /\ Place[table[q]] = q
  BY <1>6 DEF ContainerInv, ContainerTypeOK, TableStands
<1> QED
  BY <1>4, <1>6, <1>7

\* Entering resolve() on top of the calls fs.
LEMMA EnterStands ==
    ASSUME ContainerInv, NEW t \in Threads, NEW p \in Places, NEW fs \in Seq(Frames),
           StackStands(fs), AllMaking(fs), PlacesOf(fs) = Container!Stack(t),
           raising[t] = "nothing", Container!Enter(t, p, fs)
    PROVE  \E gs \in Seq(Frames) :
             /\ frames' = [frames EXCEPT ![t] = gs]
             /\ StackStands(gs)
             /\ \A b \in Singletons : Makes(gs, b) <=> Makes(fs, b)
             /\ \E r \in {"nothing", "circular", "missing", "failed"} :
                  /\ raising' = [raising EXCEPT ![t] = r]
                  /\ r # "nothing" => AllMaking(gs)
<1> DEFINE b == Container!LookUp(t, p[1], p[2])
<1>1. CASE b \in {"missing", "circular"}
  BY <1>1 DEF Container!Enter
<1>2. CASE b \notin {"missing", "circular"}
  <2> DEFINE f == [binding |-> b, todo |-> Needs[b],
                   at |-> IF b \in Singletons THEN "checking" ELSE "making"]
  <2>1. b \in Bindings /\ Place[b] \notin PlacesOf(fs)
    BY <1>2, LookUpFinds
  <2>2. /\ frames' = [frames EXCEPT ![t] = Append(fs, f)] /\ raising' = raising
    BY <1>2 DEF Container!Enter
  <2>3. f \in Frames /\ f.binding = b /\ f.at = IF b \in Singletons THEN "checking" ELSE "making"
    BY <2>1, ContainerAssumption DEF Frames
  <2> HIDE DEF f, b
  <2>4. /\ Append(fs, f) \in Seq(Frames) /\ StackStands(Append(fs, f))
        /\ \A d : Makes(Append(fs, f), d) <=> Makes(fs, d) \/ (d = f.binding /\ f.at = "making")
    BY <2>1, <2>3, PushStands
  <2>5. \A d \in Singletons : Makes(Append(fs, f), d) <=> Makes(fs, d)
    BY <2>3, <2>4
  <2>6. raising' = [raising EXCEPT ![t] = "nothing"]
    BY <2>2 DEF ContainerInv, ContainerTypeOK
  <2> QED
    BY <2>2, <2>4, <2>5, <2>6
<1> QED
  BY <1>1, <1>2

-----------------------------------------------------------------------------
(* The invariant *)

Raised == {"nothing", "circular", "missing", "failed"}

\* A step of thread t that leaves it with the calls gs, and takes or gives back
\* no more locks than those gs accounts for.
LEMMA ThreadMoves ==
    ASSUME ContainerInv, NEW t \in Threads, NEW gs \in Seq(Frames), NEW r \in Raised,
           frames' = [frames EXCEPT ![t] = gs], raising' = [raising EXCEPT ![t] = r],
           StackStands(gs), r # "nothing" => AllMaking(gs),
           lock' \in [Bindings -> Threads \cup {Absent}],
           \A b \in Singletons : lock'[b] = t <=> Makes(gs, b),
           \A b \in Singletons : \A u \in Threads \ {t} : lock'[b] = u <=> lock[b] = u,
           UNCHANGED <<table, bound, seeding>>,
           instance' \in [Bindings -> Threads \cup Given \cup {Absent}]
    PROVE  /\ ContainerTypeOK' /\ TableStands' /\ ThreadsStand'
           /\ frames'[t] = gs /\ \A u \in Threads \ {t} : frames'[u] = frames[u]
<1>1. /\ frames \in [Threads -> Seq(Frames)] /\ raising \in [Threads -> Raised]
  BY DEF ContainerInv, ContainerTypeOK, Raised
<1>2. /\ frames'[t] = gs /\ \A u \in Threads \ {t} : frames'[u] = frames[u]
      /\ raising'[t] = r /\ \A u \in Threads \ {t} : raising'[u] = raising[u]
      /\ frames' \in [Threads -> Seq(Frames)] /\ raising' \in [Threads -> Raised]
  BY <1>1
<1>3. ContainerTypeOK'
  BY <1>2 DEF ContainerInv, ContainerTypeOK, Raised
<1>4. TableStands'
  BY DEF ContainerInv, TableStands
<1>5. ASSUME NEW u \in Threads
      PROVE  /\ StackStands(frames'[u])
             /\ raising'[u] # "nothing" => AllMaking(frames'[u])
             /\ \A b \in Singletons : lock'[b] = u <=> Makes(frames'[u], b)
  <2>1. CASE u = t
    BY <1>2, <2>1
  <2>2. CASE u # t
    <3>1. /\ StackStands(frames[u])
          /\ raising[u] # "nothing" => AllMaking(frames[u])
          /\ \A b \in Singletons : lock[b] = u <=> Makes(frames[u], b)
      BY DEF ContainerInv, ThreadsStand
    <3>2. frames'[u] = frames[u] /\ raising'[u] = raising[u] /\ u \in Threads \ {t}
      BY <1>2, <2>2
    <3> QED
      BY <3>1, <3>2
  <2> QED
    BY <2>1, <2>2
<1>6. ThreadsStand'
  BY <1>5 DEF ThreadsStand, StackStands, AllMaking, Makes
<1> QED
  BY <1>2, <1>3, <1>4, <1>6

\* Whatever a thread does that makes no instance and takes no lock.
LEMMA InstancesStay ==
    ASSUME ContainerInv, NEW t \in Threads, UNCHANGED instance,
           \A u \in Threads \ {t} : frames'[u] = frames[u],
           \A b \in Singletons : Makes(frames'[t], b) => Makes(frames[t], b) \/ instance[b] = Absent
    PROVE  InstancesStand'
<1>1. ASSUME NEW b \in Singletons, ~Contested(b)
      PROVE  /\ b \in Given => instance'[b] \in {b, Absent}
             /\ b \notin Given => \A u \in Threads : Makes(frames'[u], b) => instance'[b] = Absent
  <2>1. /\ b \in Given => instance[b] \in {b, Absent}
        /\ b \notin Given => \A u \in Threads : Makes(frames[u], b) => instance[b] = Absent
    BY <1>1 DEF ContainerInv, InstancesStand
  <2>2. ASSUME b \notin Given, NEW u \in Threads, Makes(frames'[u], b)
        PROVE  instance[b] = Absent
    BY <2>1, <2>2
  <2> QED
    BY <2>1, <2>2
<1> QED
  BY <1>1 DEF InstancesStand, Contested, Makes

\* What is known of a thread that is in some resolve().
LEMMA InCall ==
    ASSUME ContainerInv, NEW t \in Threads, frames[t] # <<>>
    PROVE  /\ ContainerTypeOK
           /\ frames[t] \in Seq(Frames) /\ StackStands(frames[t])
           /\ Top(t) = Last(frames[t]) /\ Top(t) \in Frames /\ Top(t).binding \in Bindings
           /\ Top(t).at # "making" => Top(t).binding \in Singletons
           /\ Makes(frames[t], Top(t).binding) <=> Top(t).at = "making"
           /\ Front(frames[t]) \in Seq(Frames)
           /\ StackStands(Front(frames[t])) /\ AllMaking(Front(frames[t]))
           /\ \A b : Makes(Front(frames[t]), b) <=> Makes(frames[t], b) /\ b # Top(t).binding
           /\ \A b \in Singletons : lock[b] = t <=> Makes(frames[t], b)
           /\ lock \in [Bindings -> Threads \cup {Absent}]
           /\ instance \in [Bindings -> Threads \cup Given \cup {Absent}]
           /\ Singletons \subseteq Bindings /\ Given \subseteq Singletons
           /\ raising[t] \in Raised /\ raising = [raising EXCEPT ![t] = raising[t]]
<1>1. frames[t] \in Seq(Frames) /\ StackStands(frames[t])
  BY DEF ContainerInv, ContainerTypeOK, ThreadsStand
<1>2. /\ Last(frames[t]) \in Frames /\ Front(frames[t]) \in Seq(Frames)
      /\ StackStands(Front(frames[t])) /\ AllMaking(Front(frames[t]))
      /\ Makes(frames[t], Last(frames[t]).binding) <=> Last(frames[t]).at = "making"
      /\ \A b : Makes(Front(frames[t]), b) <=> Makes(frames[t], b) /\ b # Last(frames[t]).binding
      /\ Last(frames[t]).at # "making" => Last(frames[t]).binding \in Singletons
  BY <1>1, FrontStands
<1>3. Last(frames[t]).binding \in Bindings
  BY <1>2 DEF Frames
<1>4. \A b \in Singletons : lock[b] = t <=> Makes(frames[t], b)
  BY DEF ContainerInv, ThreadsStand
<1>5. raising[t] \in Raised /\ raising = [raising EXCEPT ![t] = raising[t]]
  BY DEF ContainerInv, ContainerTypeOK, Raised
<1> QED
  BY <1>1, <1>2, <1>3, <1>4, <1>5, ContainerAssumption DEF ContainerInv, ContainerTypeOK, Top

\* The innermost call of a thread ends without its lock, with its lock given
\* back, or without having one.
LEMMA LeaveStands ==
    ASSUME ContainerInv, NEW t \in Threads, frames[t] # <<>>, NEW r \in Raised,
           raising' = [raising EXCEPT ![t] = r], Container!Return(t),
           lock' = Container!Released(t) \/ (UNCHANGED lock /\ Top(t).at # "making"),
           UNCHANGED <<table, bound, seeding>>,
           instance' \in [Bindings -> Threads \cup Given \cup {Absent}]
    PROVE  /\ ContainerTypeOK' /\ TableStands' /\ ThreadsStand'
           /\ frames'[t] = Front(frames[t]) /\ \A u \in Threads \ {t} : frames'[u] = frames[u]
<1>1. frames' = [frames EXCEPT ![t] = Front(frames[t])]
  BY DEF Container!Return, Container!Front, Front
<1>2. /\ Top(t).binding \in Bindings /\ Singletons \subseteq Bindings
      /\ Makes(frames[t], Top(t).binding) <=> Top(t).at = "making"
      /\ Front(frames[t]) \in Seq(Frames)
      /\ StackStands(Front(frames[t])) /\ AllMaking(Front(frames[t]))
      /\ \A b : Makes(Front(frames[t]), b) <=> Makes(frames[t], b) /\ b # Top(t).binding
      /\ \A b \in Singletons : lock[b] = t <=> Makes(frames[t], b)
      /\ lock \in [Bindings -> Threads \cup {Absent}]
  BY InCall
<1>3. /\ lock' \in [Bindings -> Threads \cup {Absent}]
      /\ \A b \in Singletons : lock'[b] = t <=> Makes(Front(frames[t]), b)
      /\ \A b \in Singletons : \A u \in Threads \ {t} : lock'[b] = u <=> lock[b] = u
  <2>1. CASE lock' = Container!Released(t)
    <3>1. lock' = [b \in Bindings |-> IF b = Top(t).binding /\ lock[b] = t THEN Absent ELSE lock[b]]
      BY <2>1 DEF Container!Released, Container!Top, Top, Container!Last, Last
    <3>2. Absent \notin Threads
      BY ContainerAssumption
    <3> QED
      BY <1>2, <3>1, <3>2
  <2>2. CASE UNCHANGED lock /\ Top(t).at # "making"
    BY <1>2, <2>2
  <2> QED
    BY <2>1, <2>2
<1> QED
  BY <1>1, <1>2, <1>3, ThreadMoves

LEMMA BindKeepsContainerInv ==
    ASSUME ContainerInv, NEW b \in Bindings, Container!Bind(b) \/ Container!Seed(b)
    PROVE  ContainerInv'
<1>1. /\ ContainerTypeOK /\ TableStands /\ Place \in [Bindings -> Places]
      /\ Absent \notin Bindings /\ Given \subseteq Singletons /\ Singletons \subseteq Bindings
  BY ContainerAssumption DEF ContainerInv
<1>2. UNCHANGED <<lock, frames, raising>>
  BY DEF Container!Bind, Container!Seed
<1>3. ThreadsStand'
  BY <1>2 DEF ContainerInv, ThreadsStand
<1>4. CASE Container!Bind(b)
  <2>1. /\ table' = [table EXCEPT ![Place[b]] = b] /\ bound' = bound \cup {b}
        /\ seeding' = IF b \in Given THEN seeding \cup {b} ELSE seeding
        /\ UNCHANGED instance
    BY <1>4 DEF Container!Bind
  <2>2. ContainerTypeOK'
    BY <1>1, <1>2, <2>1 DEF ContainerTypeOK
  <2>3. TableStands'
    BY <1>1, <2>1 DEF ContainerTypeOK, TableStands
  <2>4. InstancesStand'
    BY <1>2, <2>1 DEF ContainerInv, InstancesStand, Contested
  <2> QED
    BY <1>3, <2>2, <2>3, <2>4 DEF ContainerInv
<1>5. CASE Container!Seed(b)
  <2>1. /\ b \in Given /\ b \in Singletons /\ seeding' = seeding \ {b}
        /\ instance' = [instance EXCEPT ![table[Place[b]]] = b]
        /\ UNCHANGED <<table, bound>>
    BY <1>1, <1>5 DEF Container!Seed, ContainerTypeOK
  <2>2. ContainerTypeOK'
    BY <1>1, <1>2, <2>1 DEF ContainerTypeOK
  <2>3. TableStands'
    BY <2>1 DEF ContainerInv, TableStands
  <2>4. ASSUME NEW d \in Singletons, ~Contested(d)
        PROVE  /\ d \in Given => instance'[d] \in {d, Absent}
               /\ d \notin Given => \A t \in Threads : Makes(frames'[t], d) => instance'[d] = Absent
    <3>1. /\ d \in Given => instance[d] \in {d, Absent}
          /\ d \notin Given => \A t \in Threads : Makes(frames[t], d) => instance[d] = Absent
      BY <2>4 DEF ContainerInv, InstancesStand
    <3>2. CASE d = table[Place[b]]
      <4>1. d \in Bindings /\ d # Absent /\ Place[b] \in Places
        BY <1>1
      <4>2. Place[d] = Place[b]
        BY <1>1, <3>2, <4>1 DEF TableStands
      <4>3. b = d
        BY <2>1, <2>4, <4>2 DEF Contested
      <4>4. instance'[d] = b
        BY <1>1, <2>1, <3>2, <4>1 DEF ContainerTypeOK
      <4> QED
        BY <2>1, <4>3, <4>4
    <3>3. CASE d # table[Place[b]]
      <4>1. instance'[d] = instance[d]
        BY <1>1, <2>1, <3>3 DEF ContainerTypeOK
      <4> QED
        BY <1>2, <3>1, <4>1
    <3> QED
      BY <3>2, <3>3
  <2>5. InstancesStand'
    BY <2>4 DEF InstancesStand, Contested, Makes
  <2> QED
    BY <1>3, <2>2, <2>3, <2>5 DEF ContainerInv
<1> QED
  BY <1>4, <1>5

\* resolve() begins, from outside or from a factory.
LEMMA EnterKeepsContainerInv ==
    ASSUME ContainerInv, NEW t \in Threads, NEW p \in Places, NEW fs \in Seq(Frames),
           StackStands(fs), AllMaking(fs), PlacesOf(fs) = Container!Stack(t),
           \A b \in Singletons : Makes(fs, b) <=> Makes(frames[t], b),
           raising[t] = "nothing", Container!Enter(t, p, fs),
           UNCHANGED <<table, bound, seeding, instance, lock>>
    PROVE  ContainerInv'
<1>1. PICK gs \in Seq(Frames) :
        /\ frames' = [frames EXCEPT ![t] = gs]
        /\ StackStands(gs)
        /\ \A b \in Singletons : Makes(gs, b) <=> Makes(fs, b)
        /\ \E r \in Raised :
             /\ raising' = [raising EXCEPT ![t] = r]
             /\ r # "nothing" => AllMaking(gs)
  BY EnterStands DEF Raised
<1>2. PICK r \in Raised :
        /\ raising' = [raising EXCEPT ![t] = r]
        /\ r # "nothing" => AllMaking(gs)
  BY <1>1
<1>3. /\ lock' \in [Bindings -> Threads \cup {Absent}]
      /\ instance' \in [Bindings -> Threads \cup Given \cup {Absent}]
      /\ \A b \in Singletons : lock'[b] = t <=> Makes(gs, b)
      /\ \A b \in Singletons : \A u \in Threads \ {t} : lock'[b] = u <=> lock[b] = u
  BY <1>1 DEF ContainerInv, ContainerTypeOK, ThreadsStand
<1>4. /\ ContainerTypeOK' /\ TableStands' /\ ThreadsStand'
      /\ frames'[t] = gs /\ \A u \in Threads \ {t} : frames'[u] = frames[u]
  BY <1>1, <1>2, <1>3, ThreadMoves
<1>5. \A b \in Singletons : Makes(frames'[t], b) => Makes(frames[t], b)
  BY <1>1, <1>4
<1>6. InstancesStand'
  BY <1>4, <1>5, InstancesStay
<1> QED
  BY <1>4, <1>6 DEF ContainerInv

LEMMA ResolveKeepsContainerInv ==
    ASSUME ContainerInv, NEW t \in Threads, NEW p \in Requests, Container!Resolve(t, p)
    PROVE  ContainerInv'
<1>1. /\ frames[t] = <<>> /\ raising[t] = "nothing" /\ Container!Enter(t, p, <<>>)
      /\ UNCHANGED <<table, bound, seeding, instance, lock>>
      /\ p \in Places
  BY ContainerAssumption DEF Container!Resolve
<1>2. /\ <<>> \in Seq(Frames) /\ DOMAIN <<>> = {}
  OBVIOUS
<1>3. /\ StackStands(<<>>) /\ AllMaking(<<>>) /\ PlacesOf(<<>>) = Container!Stack(t)
      /\ \A b \in Singletons : Makes(<<>>, b) <=> Makes(frames[t], b)
  BY <1>1, <1>2 DEF StackStands, AllMaking, PlacesOf, Container!Stack, Makes
<1> QED
  BY <1>1, <1>2, <1>3, EnterKeepsContainerInv

LEMMA NeedKeepsContainerInv ==
    ASSUME ContainerInv, NEW t \in Threads, Container!Need(t)
    PROVE  ContainerInv'
<1> DEFINE f  == [Top(t) EXCEPT !.todo = Tail(@)]
           fs == Append(Front(frames[t]), f)
           p  == Head(Top(t).todo)
<1>1. /\ frames[t] # <<>> /\ raising[t] = "nothing" /\ Top(t).at = "making"
      /\ Top(t).todo # <<>> /\ Container!Enter(t, p, fs)
      /\ UNCHANGED <<table, bound, seeding, instance, lock>>
  BY DEF Container!Need, Calls, Container!Calls, Container!Top, Top, Container!Last, Last,
         Container!Front, Front
<1>2. /\ frames[t] \in Seq(Frames) /\ StackStands(frames[t]) /\ Top(t) \in Frames
      /\ Top(t) = Last(frames[t])
      /\ Makes(frames[t], Top(t).binding) <=> Top(t).at = "making"
  BY <1>1, InCall
<1>3. p \in Places /\ Tail(Top(t).todo) \in Seq(Places)
  BY <1>1, <1>2, HeadTailProperties DEF Frames
<1>4. f \in Frames /\ f.binding = Top(t).binding /\ f.at = "making"
  BY <1>1, <1>2, <1>3 DEF Frames
<1> HIDE DEF f, p
<1>5. /\ fs \in Seq(Frames) /\ StackStands(fs) /\ AllMaking(fs)
      /\ PlacesOf(fs) = PlacesOf(frames[t])
      /\ \A b : Makes(fs, b) <=> IF b = f.binding THEN f.at = "making" ELSE Makes(frames[t], b)
  BY <1>1, <1>2, <1>4, ChangeStands
<1>6. /\ PlacesOf(fs) = Container!Stack(t)
      /\ \A b \in Singletons : Makes(fs, b) <=> Makes(frames[t], b)
  BY <1>1, <1>2, <1>4, <1>5 DEF PlacesOf, Container!Stack
<1> HIDE DEF fs
<1> QED
  BY <1>1, <1>3, <1>5, <1>6, EnterKeepsContainerInv

\* The two looks at the instance.
LEMMA CheckKeepsContainerInv ==
    ASSUME ContainerInv, NEW t \in Threads, Container!Check(t)
    PROVE  ContainerInv'
<1>1. /\ frames[t] # <<>> /\ raising[t] = "nothing" /\ Top(t).at = "checking"
      /\ Container!GoTo(t, "locking") \/ Container!Return(t)
      /\ UNCHANGED <<table, bound, seeding, instance, lock, raising>>
  BY DEF Container!Check, Calls, Container!Calls, Container!Top, Top, Container!Last, Last
<1>2. /\ ContainerTypeOK /\ frames[t] \in Seq(Frames) /\ StackStands(frames[t]) /\ Top(t) \in Frames
      /\ Top(t) = Last(frames[t]) /\ Top(t).binding \in Singletons
      /\ ~Makes(frames[t], Top(t).binding)
      /\ \A b : Makes(Front(frames[t]), b) <=> Makes(frames[t], b) /\ b # Top(t).binding
      /\ \A b \in Singletons : lock[b] = t <=> Makes(frames[t], b)
      /\ raising[t] \in Raised /\ raising = [raising EXCEPT ![t] = raising[t]]
  BY <1>1, InCall
<1>3. CASE Container!GoTo(t, "locking")
  <2> DEFINE f  == [Last(frames[t]) EXCEPT !.at = "locking"]
             gs == Append(Front(frames[t]), f)
  <2>1. frames' = [frames EXCEPT ![t] = gs]
    BY <1>3 DEF Container!GoTo, Container!Front, Front, Container!Last, Last
  <2>2. f \in Frames /\ f.binding = Top(t).binding /\ f.at = "locking"
    BY <1>2 DEF Frames
  <2> HIDE DEF f
  <2>3. /\ gs \in Seq(Frames) /\ StackStands(gs)
        /\ \A b : Makes(gs, b) <=> IF b = f.binding THEN f.at = "making" ELSE Makes(frames[t], b)
    BY <1>1, <1>2, <2>2, ChangeStands
  <2> HIDE DEF gs
  <2>4. \A b : Makes(gs, b) <=> Makes(frames[t], b)
    BY <1>2, <2>2, <2>3
  <2>5. /\ ContainerTypeOK' /\ TableStands' /\ ThreadsStand'
        /\ frames'[t] = gs /\ \A u \in Threads \ {t} : frames'[u] = frames[u]
    <3>1. /\ lock' \in [Bindings -> Threads \cup {Absent}]
          /\ instance' \in [Bindings -> Threads \cup Given \cup {Absent}]
          /\ \A b \in Singletons : lock'[b] = t <=> Makes(gs, b)
          /\ \A b \in Singletons : \A u \in Threads \ {t} : lock'[b] = u <=> lock[b] = u
          /\ raising' = [raising EXCEPT ![t] = raising[t]]
      BY <1>1, <1>2, <2>4 DEF ContainerTypeOK
    <3> QED
      BY <1>1, <1>2, <2>1, <2>3, <3>1, ThreadMoves
  <2>6. InstancesStand'
    BY <1>1, <2>4, <2>5, InstancesStay
  <2> QED
    BY <2>5, <2>6 DEF ContainerInv
<1>4. CASE Container!Return(t)
  <2>1. /\ ContainerTypeOK' /\ TableStands' /\ ThreadsStand'
        /\ frames'[t] = Front(frames[t]) /\ \A u \in Threads \ {t} : frames'[u] = frames[u]
    <3>1. /\ raising' = [raising EXCEPT ![t] = raising[t]] /\ Top(t).at # "making"
          /\ instance' \in [Bindings -> Threads \cup Given \cup {Absent}]
      BY <1>1, <1>2 DEF ContainerTypeOK
    <3> QED
      BY <1>1, <1>2, <1>4, <3>1, LeaveStands
  <2>2. InstancesStand'
    BY <1>1, <1>2, <2>1, InstancesStay
  <2> QED
    BY <2>1, <2>2 DEF ContainerInv
<1> QED
  BY <1>1, <1>3, <1>4

LEMMA AcquireKeepsContainerInv ==
    ASSUME ContainerInv, NEW t \in Threads, Container!Acquire(t)
    PROVE  ContainerInv'
<1>1. /\ frames[t] # <<>> /\ raising[t] = "nothing" /\ Top(t).at = "locking"
      /\ lock[Top(t).binding] = Absent
      /\ \/ Container!Return(t) /\ UNCHANGED lock
         \/ /\ Container!GoTo(t, "making") /\ lock' = [lock EXCEPT ![Top(t).binding] = t]
            /\ instance[Top(t).binding] = Absent
      /\ UNCHANGED <<table, bound, seeding, instance, raising>>
  BY DEF Container!Acquire, Calls, Container!MadeMeanwhile, Container!Calls, Container!Top, Top,
         Container!Last, Last
<1>2. /\ ContainerTypeOK /\ frames[t] \in Seq(Frames) /\ StackStands(frames[t]) /\ Top(t) \in Frames
      /\ Top(t) = Last(frames[t]) /\ Top(t).binding \in Singletons
      /\ ~Makes(frames[t], Top(t).binding)
      /\ \A b : Makes(Front(frames[t]), b) <=> Makes(frames[t], b) /\ b # Top(t).binding
      /\ \A b \in Singletons : lock[b] = t <=> Makes(frames[t], b)
      /\ raising[t] \in Raised /\ raising = [raising EXCEPT ![t] = raising[t]]
      /\ lock \in [Bindings -> Threads \cup {Absent}] /\ Singletons \subseteq Bindings
  BY <1>1, InCall
<1>3. CASE Container!GoTo(t, "making") /\ lock' = [lock EXCEPT ![Top(t).binding] = t]
           /\ instance[Top(t).binding] = Absent
  <2> DEFINE f  == [Last(frames[t]) EXCEPT !.at = "making"]
             gs == Append(Front(frames[t]), f)
  <2>1. frames' = [frames EXCEPT ![t] = gs]
    BY <1>3 DEF Container!GoTo, Container!Front, Front, Container!Last, Last
  <2>2. f \in Frames /\ f.binding = Top(t).binding /\ f.at = "making"
    BY <1>2 DEF Frames
  <2> HIDE DEF f
  <2>3. /\ gs \in Seq(Frames) /\ StackStands(gs) /\ AllMaking(gs)
        /\ \A b : Makes(gs, b) <=> IF b = f.binding THEN f.at = "making" ELSE Makes(frames[t], b)
    BY <1>1, <1>2, <2>2, ChangeStands
  <2> HIDE DEF gs
  <2>4. \A b : Makes(gs, b) <=> b = Top(t).binding \/ Makes(frames[t], b)
    BY <1>2, <2>2, <2>3
  <2>5. /\ lock' \in [Bindings -> Threads \cup {Absent}]
        /\ \A b \in Singletons : lock'[b] = t <=> Makes(gs, b)
        /\ \A b \in Singletons : \A u \in Threads \ {t} : lock'[b] = u <=> lock[b] = u
    <3>1. lock'[Top(t).binding] = t /\ \A b \in Bindings \ {Top(t).binding} : lock'[b] = lock[b]
      BY <1>2, <1>3
    <3>2. lock' \in [Bindings -> Threads \cup {Absent}] /\ Absent \notin Threads
      BY <1>2, <1>3, ContainerAssumption
    <3> QED
      BY <1>1, <1>2, <2>4, <3>1, <3>2
  <2>6. /\ ContainerTypeOK' /\ TableStands' /\ ThreadsStand'
        /\ frames'[t] = gs /\ \A u \in Threads \ {t} : frames'[u] = frames[u]
    <3>1. /\ instance' \in [Bindings -> Threads \cup Given \cup {Absent}]
          /\ raising' = [raising EXCEPT ![t] = raising[t]]
      BY <1>1, <1>2 DEF ContainerTypeOK
    <3> QED
      BY <1>1, <1>2, <2>1, <2>3, <2>5, <3>1, ThreadMoves
  <2>7. InstancesStand'
    BY <1>1, <1>3, <2>4, <2>6, InstancesStay
  <2> QED
    BY <2>6, <2>7 DEF ContainerInv
<1>4. CASE Container!Return(t) /\ UNCHANGED lock
  <2>1. /\ ContainerTypeOK' /\ TableStands' /\ ThreadsStand'
        /\ frames'[t] = Front(frames[t]) /\ \A u \in Threads \ {t} : frames'[u] = frames[u]
    <3>1. /\ raising' = [raising EXCEPT ![t] = raising[t]] /\ Top(t).at # "making"
          /\ instance' \in [Bindings -> Threads \cup Given \cup {Absent}]
      BY <1>1, <1>2 DEF ContainerTypeOK
    <3> QED
      BY <1>1, <1>2, <1>4, <3>1, LeaveStands
  <2>2. InstancesStand'
    BY <1>1, <1>2, <2>1, InstancesStay
  <2> QED
    BY <2>1, <2>2 DEF ContainerInv
<1> QED
  BY <1>1, <1>3, <1>4

\* A singleton that nothing competes for is made once.
LEMMA MakeKeepsContainerInv ==
    ASSUME ContainerInv, NEW t \in Threads, Container!Make(t)
    PROVE  /\ ContainerInv'
           /\ \A b \in Bindings : instance[b] # Absent /\ ~Contested(b) => instance'[b] = instance[b]
<1> DEFINE b == Top(t).binding
           v == IF b \in Given THEN b ELSE t
<1>1. /\ frames[t] # <<>> /\ Top(t).at = "making" /\ Container!Return(t) /\ lock' = Container!Released(t)
      /\ instance' = IF b \notin Singletons THEN instance ELSE [instance EXCEPT ![b] = v]
      /\ UNCHANGED <<table, bound, seeding, raising>>
  BY DEF Container!Make, Calls, Container!Calls, Container!Top, Top, Container!Last, Last
<1>2. /\ ContainerTypeOK /\ b \in Bindings /\ Makes(frames[t], b)
      /\ \A d : Makes(Front(frames[t]), d) <=> Makes(frames[t], d) /\ d # b
      /\ \A d \in Singletons : lock[d] = t <=> Makes(frames[t], d)
      /\ raising[t] \in Raised /\ raising = [raising EXCEPT ![t] = raising[t]]
      /\ instance \in [Bindings -> Threads \cup Given \cup {Absent}]
      /\ Singletons \subseteq Bindings
  BY <1>1, InCall
<1>3. instance' \in [Bindings -> Threads \cup Given \cup {Absent}]
  BY <1>1, <1>2
<1>4. /\ ContainerTypeOK' /\ TableStands' /\ ThreadsStand'
      /\ frames'[t] = Front(frames[t]) /\ \A u \in Threads \ {t} : frames'[u] = frames[u]
  <2>1. raising' = [raising EXCEPT ![t] = raising[t]]
    BY <1>1, <1>2
  <2> QED
    BY <1>1, <1>2, <1>3, <2>1, LeaveStands
<1> HIDE DEF b
<1>5. ASSUME NEW d \in Singletons, ~Contested(d)
      PROVE  /\ d \in Given => instance[d] \in {d, Absent}
             /\ d \notin Given => \A u \in Threads : Makes(frames[u], d) => instance[d] = Absent
  BY <1>5 DEF ContainerInv, InstancesStand
<1>6. /\ \A d \in Bindings : d # b \/ b \notin Singletons => instance'[d] = instance[d]
      /\ b \in Singletons => instance'[b] = v
  BY <1>1, <1>2
<1>7. ASSUME NEW d \in Singletons, ~Contested(d)
      PROVE  /\ d \in Given => instance'[d] \in {d, Absent}
             /\ d \notin Given => \A u \in Threads : Makes(frames'[u], d) => instance'[d] = Absent
  <2>1. CASE d # b
    <3>1. instance'[d] = instance[d]
      BY <1>2, <1>6, <2>1
    <3>2. ASSUME NEW u \in Threads, Makes(frames'[u], d)
          PROVE  Makes(frames[u], d)
      BY <1>2, <1>4, <3>2
    <3> QED
      BY <1>5, <1>7, <3>1, <3>2
  <2>2. CASE d = b
    <3>1. ASSUME NEW u \in Threads
          PROVE  ~Makes(frames'[u], d)
      <4>1. CASE u = t
        BY <1>2, <1>4, <2>2, <4>1
      <4>2. CASE u # t
        <5>1. lock[d] = t
          BY <1>2, <2>2
        <5>2. lock[d] = u <=> Makes(frames[u], d)
          BY DEF ContainerInv, ThreadsStand
        <5> QED
          BY <1>4, <4>2, <5>1, <5>2
      <4> QED
        BY <4>1, <4>2
    <3> QED
      BY <1>6, <2>2, <3>1
  <2> QED
    BY <2>1, <2>2
<1>8. InstancesStand'
  BY <1>7 DEF InstancesStand, Contested, Makes
<1>9. ASSUME NEW d \in Bindings, instance[d] # Absent, ~Contested(d)
      PROVE  instance'[d] = instance[d]
  <2>1. CASE d # b \/ b \notin Singletons
    BY <1>6, <2>1
  <2>2. CASE d = b /\ b \in Singletons
    BY <1>2, <1>5, <1>6, <1>9, <2>2
  <2> QED
    BY <2>1, <2>2
<1> QED
  BY <1>4, <1>8, <1>9 DEF ContainerInv

\* An exception ends a call, and its lock is given back.
LEMMA RaiseKeepsContainerInv ==
    ASSUME ContainerInv, NEW t \in Threads,
           Container!FactoryRaises(t) \/ Container!Unwind(t) \/ Container!Catch(t)
    PROVE  ContainerInv'
<1>1. UNCHANGED <<table, bound, seeding, instance>>
  BY DEF Container!FactoryRaises, Container!Unwind, Container!Catch
<1>2. instance' \in [Bindings -> Threads \cup Given \cup {Absent}]
  BY <1>1 DEF ContainerInv, ContainerTypeOK
<1>3. ASSUME NEW r \in Raised, raising' = [raising EXCEPT ![t] = r], frames[t] # <<>>,
             Container!Return(t), lock' = Container!Released(t)
      PROVE  ContainerInv'
  <2>1. /\ ContainerTypeOK' /\ TableStands' /\ ThreadsStand'
        /\ frames'[t] = Front(frames[t]) /\ \A u \in Threads \ {t} : frames'[u] = frames[u]
    BY <1>1, <1>2, <1>3, LeaveStands
  <2>2. \A b : Makes(Front(frames[t]), b) => Makes(frames[t], b)
    BY <1>3, InCall
  <2>3. InstancesStand'
    BY <1>1, <2>1, <2>2, InstancesStay
  <2> QED
    BY <2>1, <2>3 DEF ContainerInv
<1>4. ASSUME raising' = [raising EXCEPT ![t] = "nothing"], UNCHANGED <<frames, lock>>
      PROVE  ContainerInv'
  <2>1. raising' \in [Threads -> Raised] /\ \A u \in Threads \ {t} : raising'[u] = raising[u]
        /\ raising'[t] = "nothing"
    BY <1>4 DEF ContainerInv, ContainerTypeOK, Raised
  <2>2. ContainerTypeOK'
    BY <1>1, <1>4, <2>1 DEF ContainerInv, ContainerTypeOK, Raised
  <2>3. ThreadsStand'
    BY <1>4, <2>1 DEF ContainerInv, ThreadsStand
  <2>4. TableStands' /\ InstancesStand'
    BY <1>1, <1>4 DEF ContainerInv, TableStands, InstancesStand, Contested
  <2> QED
    BY <2>2, <2>3, <2>4 DEF ContainerInv
<1>5. CASE Container!FactoryRaises(t)
  BY <1>3, <1>5 DEF Container!FactoryRaises, Calls, Raised, Container!Calls, Container!Top, Top,
                    Container!Last, Last
<1>6. CASE Container!Unwind(t)
  <2>1. CASE frames[t] = <<>>
    BY <1>4, <1>6, <2>1 DEF Container!Unwind
  <2>2. CASE frames[t] # <<>>
    <3>1. raising[t] \in Raised /\ raising' = [raising EXCEPT ![t] = raising[t]]
      BY <1>6, <2>2, InCall DEF Container!Unwind
    <3> QED
      BY <1>3, <1>6, <2>2, <3>1 DEF Container!Unwind
  <2> QED
    BY <2>1, <2>2
<1>7. CASE Container!Catch(t)
  BY <1>4, <1>7 DEF Container!Catch
<1> QED
  BY <1>5, <1>6, <1>7

LEMMA InitContainerInv == Container!Init => ContainerInv
<1> SUFFICES ASSUME Container!Init PROVE ContainerInv
  OBVIOUS
<1>1. DOMAIN <<>> = {} /\ <<>> \in Seq(Frames)
  OBVIOUS
<1>2. ContainerTypeOK
  BY <1>1 DEF Container!Init, ContainerTypeOK, Container!Places, Places
<1>3. TableStands
  BY DEF Container!Init, TableStands, Places, Container!Places
<1>4. \A t \in Threads : frames[t] = <<>> /\ raising[t] = "nothing"
  BY DEF Container!Init
<1>5. ThreadsStand
  <2>1. \A b \in Singletons, t \in Threads : lock[b] # t
    BY ContainerAssumption DEF Container!Init
  <2> QED
    BY <1>1, <1>4, <2>1 DEF ThreadsStand, StackStands, AllMaking, Makes
<1>6. InstancesStand
  BY ContainerAssumption DEF Container!Init, InstancesStand
<1> QED
  BY <1>2, <1>3, <1>5, <1>6 DEF ContainerInv

LEMMA NextContainerInv == ContainerInv /\ [Container!Next]_(Container!containerVars) => ContainerInv'
<1> SUFFICES ASSUME ContainerInv, [Container!Next]_(Container!containerVars) PROVE ContainerInv'
  OBVIOUS
<1>1. ASSUME NEW b \in Bindings, Container!Bind(b) \/ Container!Seed(b)
      PROVE  ContainerInv'
  BY <1>1, BindKeepsContainerInv
<1>2. ASSUME NEW t \in Threads, NEW p \in Requests, Container!Resolve(t, p)
      PROVE  ContainerInv'
  BY <1>2, ResolveKeepsContainerInv
<1>3. ASSUME NEW t \in Threads,
             \/ Container!Continue(t) \/ Container!Acquire(t)
             \/ Container!FactoryEnds(t) \/ Container!Catch(t)
      PROVE  ContainerInv'
  BY <1>3, CheckKeepsContainerInv, NeedKeepsContainerInv, MakeKeepsContainerInv,
     AcquireKeepsContainerInv, RaiseKeepsContainerInv
     DEF Container!Continue, Container!FactoryEnds
<1>4. CASE UNCHANGED Container!containerVars
  <2>1. ContainerTypeOK' /\ TableStands'
    BY <1>4 DEF ContainerInv, ContainerTypeOK, TableStands, Container!containerVars
  <2>2. ThreadsStand'
    BY <1>4 DEF ContainerInv, ThreadsStand, Container!containerVars
  <2>3. InstancesStand'
    BY <1>4 DEF ContainerInv, InstancesStand, Contested, Container!containerVars
  <2> QED
    BY <2>1, <2>2, <2>3 DEF ContainerInv
<1> QED
  BY <1>1, <1>2, <1>3, <1>4 DEF Container!Next

\* The invariant holds in every reachable state.
THEOREM ContainerInvariant == Container!Spec => []ContainerInv
BY InitContainerInv, NextContainerInv, PTL DEF Container!Spec

\* The factory of a singleton runs on one thread at a time, in the lock of its
\* binding, and no thread waits for a lock it holds itself.
THEOREM OneMakerHolds == Container!Spec => []OneMaker
<1>1. ContainerInv => OneMaker
  <2> SUFFICES ASSUME ContainerInv PROVE OneMaker
    OBVIOUS
  <2>1. \A b \in Singletons, t \in Threads : lock[b] = t <=> Making(t, b)
    BY DEF ContainerInv, ThreadsStand, Making, Makes
  <2>2. ASSUME NEW t \in Threads, NEW b \in Bindings, WaitsFor(t, b)
        PROVE  lock[b] # t
    <3>1. frames[t] # <<>> /\ Top(t).at = "locking" /\ Top(t).binding = b
      BY <2>2 DEF WaitsFor, Calls
    <3>2. b \in Singletons /\ ~Makes(frames[t], b)
      BY <3>1, InCall
    <3> QED
      BY <3>2 DEF ContainerInv, ThreadsStand
  <2> QED
    BY <2>1, <2>2 DEF ContainerInv, OneMaker
<1> QED
  BY <1>1, ContainerInvariant, PTL

\* The instance of a singleton never changes, unless a bind_instance() competes
\* for its place.
THEOREM OneInstanceHolds == Container!Spec => OneInstance
<1> DEFINE Kept == \A b \in Bindings :
                     instance[b] # Absent /\ ~Contested(b) => instance'[b] = instance[b]
<1>1. ContainerInv /\ [Container!Next]_(Container!containerVars) => [Kept]_containerVars
  <2> SUFFICES ASSUME ContainerInv, Container!Next PROVE Kept
    BY DEF containerVars, Container!containerVars
  <2>1. ASSUME NEW g \in Bindings, Container!Seed(g)
        PROVE  Kept
    <3> SUFFICES ASSUME NEW b \in Bindings, instance[b] # Absent, ~Contested(b)
                 PROVE  instance'[b] = instance[b]
      OBVIOUS
    <3>1. /\ g \in Given /\ instance' = [instance EXCEPT ![table[Place[g]]] = g]
          /\ Place \in [Bindings -> Places] /\ Given \subseteq Singletons
          /\ Absent \notin Bindings
          /\ instance \in [Bindings -> Threads \cup Given \cup {Absent}]
      BY <2>1, ContainerAssumption DEF Container!Seed, ContainerInv, ContainerTypeOK
    <3>2. CASE b = table[Place[g]]
      <4>1. Place[b] = Place[g]
        BY <3>1, <3>2 DEF ContainerInv, TableStands
      <4>2. g = b
        BY <3>1, <4>1 DEF Contested
      <4>3. instance[b] = b
        BY <3>1, <4>2 DEF ContainerInv, InstancesStand
      <4> QED
        BY <3>1, <3>2, <4>2, <4>3
    <3>3. CASE b # table[Place[g]]
      BY <3>1, <3>3
    <3> QED
      BY <3>2, <3>3
  <2>2. ASSUME NEW t \in Threads, Container!Make(t)
        PROVE  Kept
    BY <2>2, MakeKeepsContainerInv
  <2>3. ASSUME UNCHANGED instance
        PROVE  Kept
    BY <2>3
  <2> QED
    BY <2>1, <2>2, <2>3
       DEF Container!Next, Container!Continue, Container!FactoryEnds, Container!Bind,
           Container!Resolve, Container!Check, Container!Need, Container!Unwind, Container!Acquire,
           Container!FactoryRaises, Container!Catch
<1>2. Container!Spec => [][Kept]_containerVars
  BY <1>1, ContainerInvariant, PTL DEF Container!Spec
<1> QED
  BY <1>2 DEF OneInstance

-----------------------------------------------------------------------------
(* Cycles of waiting threads *)

\* d ranks no higher than b, and lower where it has a lock to wait for.
Under(rank, d, b) == rank[d] <= rank[b] /\ (d \in Singletons => rank[d] < rank[b])

\* The calls fs of a thread descend: each was made for a need of the one below
\* it, and what is left to resolve is part of what is needed.
Descends(rank, fs) ==
    /\ \A i \in DOMAIN fs : ToSet(fs[i].todo) \subseteq ToSet(Needs[fs[i].binding])
    /\ \A i, j \in DOMAIN fs : i < j => Under(rank, fs[j].binding, fs[i].binding)

LEMMA FrontDescends ==
    ASSUME NEW rank \in [Bindings -> Nat],
           NEW fs \in Seq(Frames), fs # <<>>, Descends(rank, fs)
    PROVE  /\ Descends(rank, Front(fs))
           /\ ToSet(Last(fs).todo) \subseteq ToSet(Needs[Last(fs).binding])
           /\ \A i \in DOMAIN Front(fs) : Under(rank, Last(fs).binding, Front(fs)[i].binding)
<1> DEFINE n == Len(fs)
<1>1. /\ n \in Nat \ {0} /\ DOMAIN fs = 1..n /\ Last(fs) = fs[n]
      /\ DOMAIN Front(fs) = 1..(n - 1) /\ \A i \in 1..(n - 1) : Front(fs)[i] = fs[i]
  BY FrontElements, LenProperties
<1> HIDE DEF n
<1>2. n \in 1..n /\ \A i \in 1..(n - 1) : i \in 1..n /\ i < n
  BY <1>1
<1> QED
  BY <1>1, <1>2 DEF Descends

LEMMA PushDescends ==
    ASSUME NEW rank \in [Bindings -> Nat],
           NEW fs \in Seq(Frames), Descends(rank, fs), NEW f \in Frames,
           ToSet(f.todo) \subseteq ToSet(Needs[f.binding]),
           \A i \in DOMAIN fs : Under(rank, f.binding, fs[i].binding)
    PROVE  Descends(rank, Append(fs, f))
<1> DEFINE n  == Len(fs)
           gs == Append(fs, f)
<1>1. /\ n \in Nat /\ DOMAIN fs = 1..n /\ DOMAIN gs = 1..(n + 1)
      /\ \A i \in 1..n : gs[i] = fs[i]
      /\ gs[n + 1] = f
  BY AppendElements, LenProperties
<1> HIDE DEF n, gs
<1>2. \A i \in 1..(n + 1) : i \in 1..n \/ i = n + 1
  BY <1>1
<1>3. \A i \in 1..(n + 1) : ToSet(gs[i].todo) \subseteq ToSet(Needs[gs[i].binding])
  BY <1>1, <1>2 DEF Descends
<1>4. ASSUME NEW i \in 1..(n + 1), NEW j \in 1..(n + 1), i < j
      PROVE  Under(rank, gs[j].binding, gs[i].binding)
  <2>1. i \in 1..n
    BY <1>1, <1>4
  <2>2. CASE j = n + 1
    BY <1>1, <2>1, <2>2
  <2>3. CASE j \in 1..n
    BY <1>1, <1>4, <2>1, <2>3 DEF Descends
  <2> QED
    BY <1>2, <2>2, <2>3
<1>5. Descends(rank, gs)
  BY <1>1, <1>3, <1>4 DEF Descends
<1> QED
  BY <1>5 DEF gs

\* The innermost call goes on, with no more to resolve than it had.
LEMMA ChangeDescends ==
    ASSUME NEW rank \in [Bindings -> Nat],
           NEW fs \in Seq(Frames), fs # <<>>, Descends(rank, fs),
           NEW f \in Frames, f.binding = Last(fs).binding, ToSet(f.todo) \subseteq ToSet(Last(fs).todo)
    PROVE  Descends(rank, Append(Front(fs), f))
BY FrontElements, FrontDescends, PushDescends

\* A call begins for a need of the innermost, or from outside.
LEMMA EnterDescends ==
    ASSUME NEW rank \in [Bindings -> Nat], Ranked(rank), ContainerInv,
           NEW t \in Threads, NEW p \in Places, NEW fs \in Seq(Frames), Descends(rank, fs),
           fs # <<>> => p \in ToSet(Needs[Last(fs).binding]), Container!Enter(t, p, fs)
    PROVE  \E gs : Descends(rank, gs) /\ frames' = [frames EXCEPT ![t] = gs]
<1> DEFINE b == Container!LookUp(t, p[1], p[2])
           f == [binding |-> b, todo |-> Needs[b],
                 at |-> IF b \in Singletons THEN "checking" ELSE "making"]
<1>1. CASE b \in {"missing", "circular"}
  BY <1>1 DEF Container!Enter
<1>2. CASE b \notin {"missing", "circular"}
  <2>1. /\ b \in Bindings
        /\ \E i \in DOMAIN Chain[p[1]] : Place[b] = <<Chain[p[1]][i], p[2]>>
    BY <1>2, LookUpFinds
  <2>2. frames' = [frames EXCEPT ![t] = Append(fs, f)]
    BY <1>2 DEF Container!Enter
  <2> HIDE DEF b
  <2>3. f \in Frames /\ f.binding = b /\ f.todo = Needs[b]
    BY <2>1, ContainerAssumption DEF Frames
  <2> HIDE DEF f
  <2>4. ASSUME NEW i \in DOMAIN fs
        PROVE  Under(rank, b, fs[i].binding)
    <3> DEFINE n == Len(fs)
               a == Last(fs).binding
    <3>1. DOMAIN fs = 1..n /\ i \in 1..n /\ n \in Nat
      BY LenProperties
    <3>2. fs # <<>>
      BY <3>1
    <3>3. n \in Nat \ {0} /\ Last(fs) = fs[n] /\ Last(fs) \in Frames
      BY <3>2, FrontElements
    <3>4. a \in Bindings
      BY <3>3 DEF Frames
    <3>5. MayMeet(a, b)
      BY <2>1, <3>2 DEF MayMeet
    <3>6. Under(rank, b, a)
      BY <2>1, <3>4, <3>5 DEF Ranked, Under
    <3> HIDE DEF n
    <3>7. CASE i = n
      BY <3>3, <3>6, <3>7
    <3>8. CASE i < n
      <4>1. n \in 1..n
        BY <3>3
      <4>2. Under(rank, a, fs[i].binding)
        BY <3>1, <3>3, <3>8, <4>1 DEF Descends
      <4>3. fs[i] \in Frames
        BY <3>1, ElementOfSeq DEF n
      <4>4. fs[i].binding \in Bindings
        BY <4>3 DEF Frames
      <4>5. rank[a] \in Nat /\ rank[b] \in Nat /\ rank[fs[i].binding] \in Nat
        BY <2>1, <3>4, <4>4
      <4> QED BY <3>6, <4>2, <4>5 DEF Under
    <3> QED BY <3>1, <3>7, <3>8
  <2>5. Descends(rank, Append(fs, f))
    BY <2>3, <2>4, PushDescends
  <2> QED BY <2>2, <2>5
<1> QED
  BY <1>1, <1>2

\* Whatever the threads do, the calls of each go on descending.
LEMMA NextDescends ==
    ASSUME NEW rank \in [Bindings -> Nat], Ranked(rank), ContainerInv,
           \A t \in Threads : Descends(rank, frames[t]),
           [Container!Next]_(Container!containerVars)
    PROVE  \A t \in Threads : Descends(rank, frames'[t])
<1>1. frames \in [Threads -> Seq(Frames)]
  BY DEF ContainerInv, ContainerTypeOK
<1>2. ASSUME NEW t \in Threads, NEW gs, Descends(rank, gs), frames' = [frames EXCEPT ![t] = gs]
      PROVE  \A u \in Threads : Descends(rank, frames'[u])
  <2>1. frames'[t] = gs /\ \A u \in Threads \ {t} : frames'[u] = frames[u]
    BY <1>1, <1>2
  <2> QED BY <1>2, <2>1
<1>3. ASSUME UNCHANGED frames
      PROVE  \A t \in Threads : Descends(rank, frames'[t])
  BY <1>3
<1>4. ASSUME NEW t \in Threads, frames[t] # <<>>, Container!Return(t)
      PROVE  \A u \in Threads : Descends(rank, frames'[u])
  <2>1. frames' = [frames EXCEPT ![t] = Front(frames[t])]
    BY <1>4 DEF Container!Return, Container!Front, Front
  <2>2. Descends(rank, Front(frames[t]))
    BY <1>1, <1>4, FrontDescends
  <2> QED BY <1>2, <2>1, <2>2
<1>5. ASSUME NEW t \in Threads, frames[t] # <<>>, NEW s \in {"locking", "making"}, Container!GoTo(t, s)
      PROVE  \A u \in Threads : Descends(rank, frames'[u])
  <2> DEFINE f == [Last(frames[t]) EXCEPT !.at = s]
  <2>1. frames' = [frames EXCEPT ![t] = Append(Front(frames[t]), f)]
    BY <1>5 DEF Container!GoTo, Container!Front, Front, Container!Last, Last
  <2>2. Last(frames[t]) \in Frames
    BY <1>1, <1>5, FrontElements
  <2>3. f \in Frames /\ f.binding = Last(frames[t]).binding /\ f.todo = Last(frames[t]).todo
    BY <2>2 DEF Frames
  <2> HIDE DEF f
  <2>4. Descends(rank, Append(Front(frames[t]), f))
    BY <1>1, <1>5, <2>3, ChangeDescends
  <2> QED BY <1>2, <2>1, <2>4
<1>6. ASSUME NEW b \in Bindings, Container!Bind(b) \/ Container!Seed(b)
      PROVE  \A t \in Threads : Descends(rank, frames'[t])
  BY <1>3, <1>6 DEF Container!Bind, Container!Seed
<1>7. ASSUME NEW t \in Threads, NEW p \in Requests, Container!Resolve(t, p)
      PROVE  \A u \in Threads : Descends(rank, frames'[u])
  <2>1. Container!Enter(t, p, <<>>) /\ p \in Places
    BY <1>7, ContainerAssumption DEF Container!Resolve
  <2>2. <<>> \in Seq(Frames) /\ Descends(rank, <<>>)
    BY DEF Descends
  <2> QED BY <1>2, <2>1, <2>2, EnterDescends
<1>8. ASSUME NEW t \in Threads, Container!Need(t)
      PROVE  \A u \in Threads : Descends(rank, frames'[u])
  <2> DEFINE a  == Last(frames[t])
             f  == [a EXCEPT !.todo = Tail(@)]
             fs == Append(Front(frames[t]), f)
  <2>1. frames[t] # <<>> /\ a.todo # <<>> /\ Container!Enter(t, Head(a.todo), fs)
    BY <1>8 DEF Container!Need, Calls, Container!Calls, Container!Top, Top, Container!Last, Last,
                Container!Front, Front
  <2>2. a \in Frames /\ Front(frames[t]) \in Seq(Frames)
    BY <1>1, <2>1, FrontElements
  <2>3. a.todo \in Seq(Places)
    BY <2>2 DEF Frames
  <2>4. /\ Head(a.todo) \in Places /\ Tail(a.todo) \in Seq(Places)
        /\ Head(a.todo) \in ToSet(a.todo) /\ ToSet(Tail(a.todo)) \subseteq ToSet(a.todo)
    BY <2>1, <2>3, TailElements
  <2>5. f \in Frames /\ f.binding = a.binding /\ f.todo = Tail(a.todo)
    BY <2>2, <2>4 DEF Frames
  <2>6. ToSet(a.todo) \subseteq ToSet(Needs[a.binding])
    BY <1>1, <2>1, FrontDescends
  <2> HIDE DEF a, f
  <2>7. Descends(rank, fs)
    BY <1>1, <2>1, <2>4, <2>5, ChangeDescends DEF a
  <2>8. fs \in Seq(Frames) /\ Last(fs) = f
    <3>1. /\ fs \in Seq(Frames) /\ Len(fs) = Len(Front(frames[t])) + 1
          /\ fs[Len(Front(frames[t])) + 1] = f
      BY <2>2, <2>5, AppendElements
    <3> QED BY <3>1 DEF Last
  <2> HIDE DEF fs
  <2>9. PICK gs : Descends(rank, gs) /\ frames' = [frames EXCEPT ![t] = gs]
    BY <2>1, <2>4, <2>5, <2>6, <2>7, <2>8, EnterDescends
  <2> QED BY <1>2, <2>9
<1>9. ASSUME NEW t \in Threads,
             \/ Container!Check(t) \/ Container!Make(t) \/ Container!Unwind(t)
             \/ Container!Acquire(t) \/ Container!FactoryRaises(t) \/ Container!Catch(t)
      PROVE  \A u \in Threads : Descends(rank, frames'[u])
  <2>1. \/ UNCHANGED frames
        \/ frames[t] # <<>> /\ Container!Return(t)
        \/ frames[t] # <<>> /\ \E s \in {"locking", "making"} : Container!GoTo(t, s)
    BY <1>9 DEF Container!Check, Container!Make, Container!Unwind, Container!Acquire,
                Container!FactoryRaises, Container!Catch, Container!Calls
  <2> QED BY <1>3, <1>4, <1>5, <2>1
<1>10. CASE UNCHANGED Container!containerVars
  BY <1>3, <1>10 DEF Container!containerVars
<1> QED
  BY <1>6, <1>7, <1>8, <1>9, <1>10 DEF Container!Next, Container!Continue, Container!FactoryEnds

\* A thread that waits for the lock of one that waits itself does so for a
\* binding that ranks higher.
LEMMA WaitsHigher ==
    ASSUME NEW rank \in [Bindings -> Nat], ContainerInv,
           \A t \in Threads : Descends(rank, frames[t]),
           NEW t \in Threads, NEW b \in Bindings, WaitsFor(t, b),
           NEW u \in Threads, NEW d \in Bindings, WaitsFor(u, d), lock[b] = u
    PROVE  rank[d] < rank[b]
<1>1. /\ frames[t] # <<>> /\ Top(t).at = "locking" /\ Top(t).binding = b
      /\ frames[u] # <<>> /\ Top(u).at = "locking" /\ Top(u).binding = d
  BY DEF WaitsFor, Calls
<1>2. b \in Singletons /\ d \in Singletons
  BY <1>1, InCall
<1>3. Makes(frames[u], b)
  BY <1>2 DEF ContainerInv, ThreadsStand
<1>4. frames[u] \in Seq(Frames) /\ Descends(rank, frames[u]) /\ Top(u) = Last(frames[u])
  BY <1>1, InCall
<1>5. /\ Len(frames[u]) \in Nat /\ DOMAIN frames[u] = 1..Len(frames[u])
      /\ Len(frames[u]) \in 1..Len(frames[u])
      /\ Top(u) = frames[u][Len(frames[u])]
  <2>1. Len(frames[u]) \in Nat \ {0} /\ Last(frames[u]) = frames[u][Len(frames[u])]
    BY <1>1, <1>4, FrontElements
  <2>2. DOMAIN frames[u] = 1..Len(frames[u])
    BY <1>4, LenProperties
  <2> QED BY <1>4, <2>1, <2>2
<1>6. PICK i \in 1..Len(frames[u]) : frames[u][i].binding = b /\ frames[u][i].at = "making"
  BY <1>3, <1>5 DEF Makes
<1>7. i # Len(frames[u])
  BY <1>1, <1>5, <1>6
<1>8. i < Len(frames[u])
  BY <1>5, <1>6, <1>7
<1> QED
  BY <1>1, <1>2, <1>4, <1>5, <1>6, <1>8 DEF Descends, Under

\* Where no singleton needs itself, however indirectly, no threads wait for one
\* another's locks in a circle, however many they are: of those in the circle,
\* one waits for a binding of the least rank, and its holder waits for none.
THEOREM NoCircularWaitHolds == Acyclic => (Container!Spec => []NoCircularWait)
<1> SUFFICES ASSUME Acyclic PROVE Container!Spec => []NoCircularWait
  OBVIOUS
<1>1. PICK rank \in [Bindings -> Nat] : Ranked(rank)
  BY DEF Acyclic
<1> DEFINE Descending == \A t \in Threads : Descends(rank, frames[t])
<1>2. Container!Init => Descending
  BY DEF Container!Init, Descends
<1>3. ContainerInv /\ Descending /\ [Container!Next]_(Container!containerVars) => Descending'
  BY <1>1, NextDescends DEF Descends, Under
<1>4. ContainerInv /\ Descending => NoCircularWait
  <2> SUFFICES ASSUME ContainerInv, Descending, NEW S \in SUBSET Threads, S # {},
                      \A t \in S : \E u \in S, b \in Bindings : WaitsFor(t, b) /\ lock[b] = u
               PROVE  FALSE
    BY DEF NoCircularWait
  <2> DEFINE Awaited == {b \in Bindings : \E t \in S : WaitsFor(t, b)}
             Heights == {rank[b] : b \in Awaited}
  <2>1. Heights \in SUBSET Nat /\ Heights # {}
    OBVIOUS
  <2>2. Min(Heights) \in Heights /\ \A h \in Heights : Min(Heights) <= h
    <3> HIDE DEF Heights
    <3> QED BY <2>1, MinElement
  <2>3. PICK b \in Awaited : rank[b] = Min(Heights)
    BY <2>2
  <2>4. PICK t \in S : WaitsFor(t, b)
    OBVIOUS
  <2>5. PICK u \in S : lock[b] = u
    BY <2>4 DEF WaitsFor
  <2>6. PICK d \in Bindings : WaitsFor(u, d)
    OBVIOUS
  <2>7. rank[d] < rank[b]
    BY <2>4, <2>5, <2>6, WaitsHigher
  <2>8. rank[b] <= rank[d]
    BY <2>2, <2>3, <2>6
  <2> QED BY <2>7, <2>8
<1> QED
  BY <1>2, <1>3, <1>4, ContainerInvariant, PTL DEF Container!Spec
=============================================================================
