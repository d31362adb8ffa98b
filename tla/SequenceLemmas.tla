----------------------------- MODULE SequenceLemmas -----------------------------
(***************************************************************************)
(* Facts about the operators of the community modules that the proofs use. *)
(***************************************************************************)
EXTENDS Naturals, SequencesExt, SequenceTheorems, FiniteSetTheorems,
        WellFoundedInduction, TLAPS

\* What Append puts into a sequence.
LEMMA AppendElements ==
    ASSUME NEW S, NEW s \in Seq(S), NEW e \in S
    PROVE  /\ Append(s, e) \in Seq(S)
           /\ Len(s) \in Nat
           /\ Len(Append(s, e)) = Len(s) + 1
           /\ DOMAIN Append(s, e) = 1..(Len(s) + 1)
           /\ \A i \in 1..Len(s) : Append(s, e)[i] = s[i]
           /\ Append(s, e)[Len(s) + 1] = e
           /\ ToSet(Append(s, e)) = ToSet(s) \cup {e}
<1>1. /\ Append(s, e) \in Seq(S) /\ Len(Append(s, e)) = Len(s) + 1
      /\ DOMAIN Append(s, e) = 1..(Len(s) + 1) /\ DOMAIN s = 1..Len(s) /\ Len(s) \in Nat
      /\ \A i \in 1..Len(s) : Append(s, e)[i] = s[i]
      /\ Append(s, e)[Len(s) + 1] = e
  OBVIOUS
<1>2. ToSet(Append(s, e)) = ToSet(s) \cup {e}
  BY <1>1, SMTT(30) DEF ToSet
<1> QED
  BY <1>1, <1>2

\* Front drops the last element.
LEMMA FrontElements ==
    ASSUME NEW S, NEW s \in Seq(S), s # <<>>
    PROVE  /\ Len(s) \in Nat \ {0}
           /\ Last(s) = s[Len(s)] /\ Last(s) \in S
           /\ Front(s) \in Seq(S)
           /\ Len(Front(s)) = Len(s) - 1
           /\ DOMAIN Front(s) = 1..(Len(s) - 1)
           /\ \A i \in 1..(Len(s) - 1) : Front(s)[i] = s[i]
<1>1. Len(s) \in Nat \ {0} /\ \A i \in 1..Len(s) : s[i] \in S
  BY EmptySeq, ElementOfSeq
<1>2. \A i \in 1..(Len(s) - 1) : s[i] \in S
  BY <1>1
<1>3. PICK n \in Nat : n = Len(s) - 1
  BY <1>1
<1>4. /\ SubSeq(s, 1, n) \in Seq(S)
      /\ Len(SubSeq(s, 1, n)) = IF 1 <= n THEN n - 1 + 1 ELSE 0
      /\ \A i \in 1..(n - 1 + 1) : SubSeq(s, 1, n)[i] = s[1 + i - 1]
  BY <1>2, <1>3, SubSeqProperties
<1>5. Len(SubSeq(s, 1, n)) = n /\ \A i \in 1..n : SubSeq(s, 1, n)[i] = s[i]
  BY <1>4
<1>6. Front(s) = SubSeq(s, 1, n)
  BY <1>3 DEF Front
<1>7. DOMAIN Front(s) = 1..n
  BY <1>4, <1>5, <1>6, LenProperties
<1> QED
  BY <1>1, <1>3, <1>4, <1>5, <1>6, <1>7 DEF Last

\* Appending something new keeps a sequence injective.
LEMMA AppendKeepsInjective ==
    ASSUME NEW S, NEW s \in Seq(S), NEW e \in S, IsInjective(s), e \notin ToSet(s)
    PROVE  IsInjective(Append(s, e))
<1>1. DOMAIN s = 1..Len(s) /\ Len(s) \in Nat
  BY LenProperties
<1> QED
  BY <1>1, AppendElements, SMTT(30) DEF IsInjective, ToSet

\* The least element of a set of naturals.
LEMMA MinElement ==
    ASSUME NEW H \in SUBSET Nat, H # {}
    PROVE  Min(H) \in H /\ \A h \in H : Min(H) <= h
<1> DEFINE B == {1..h : h \in H}
<1>1. \A h \in Nat : 1..h \in FiniteSubsetsOf(Nat)
  <2>1. \A h \in Nat : IsFiniteSet(1..h)
    BY FS_Interval
  <2>2. \A h \in Nat : 1..h \in SUBSET Nat
    OBVIOUS
  <2> QED
    BY <2>1, <2>2 DEF FiniteSubsetsOf
<1>2. B \subseteq FiniteSubsetsOf(Nat) /\ B # {}
  BY <1>1
<1>3. IsWellFoundedOn(StrictSubsetOrdering(Nat), FiniteSubsetsOf(Nat))
  BY FS_StrictSubsetOrderingWellFounded
<1>4. \E b \in B : \A c \in B : <<c, b>> \notin StrictSubsetOrdering(Nat)
  <2> HIDE DEF B
  <2> QED
    BY <1>2, <1>3, WFMin
<1>5. PICK m \in H : \A h \in H : <<1..h, 1..m>> \notin StrictSubsetOrdering(Nat)
  BY <1>4
<1>6. \A h \in H : m <= h
  <2>1. ASSUME NEW h \in H, h < m
        PROVE  FALSE
    <3>1. 1..h \subseteq 1..m /\ m \in 1..m /\ m \notin 1..h
      BY <2>1
    <3>2. 1..h \in SUBSET Nat /\ 1..m \in SUBSET Nat /\ 1..h # 1..m
      BY <3>1
    <3> QED
      BY <1>5, <3>1, <3>2 DEF StrictSubsetOrdering
  <2> QED
    BY <2>1
<1>7. \E x \in H : \A y \in H : x <= y
  BY <1>6
<1> QED
  BY <1>7 DEF Min
\* What is left of a sequence without its k-th element.
LEMMA RemoveAtElements ==
    ASSUME NEW S, NEW s \in Seq(S), NEW k \in 1..Len(s)
    PROVE  /\ RemoveAt(s, k) \in Seq(S)
           /\ Len(s) \in Nat
           /\ Len(RemoveAt(s, k)) = Len(s) - 1
           /\ DOMAIN RemoveAt(s, k) = 1..(Len(s) - 1)
           /\ \A i \in 1..(Len(s) - 1) : RemoveAt(s, k)[i] = IF i < k THEN s[i] ELSE s[i + 1]
<1>0. Len(s) \in Nat
  BY LenProperties
<1>1. PICK n \in Nat : n = Len(s)
  BY <1>0
<1>2. \A i \in 1..n : s[i] \in S
  BY <1>1, ElementOfSeq
<1>3. PICK a : a = SubSeq(s, 1, k - 1)
  OBVIOUS
<1>4. PICK b : b = SubSeq(s, k + 1, n)
  OBVIOUS
<1>5. a \in Seq(S) /\ Len(a) = k - 1 /\ \A i \in 1..(k - 1) : a[i] = s[i]
  <2>1. \A i \in 1..(k - 1) : s[i] \in S
    BY <1>1, <1>2
  <2>2. 1 \in Int /\ k - 1 \in Int
    BY <1>1
  <2>3. /\ SubSeq(s, 1, k - 1) \in Seq(S)
        /\ Len(SubSeq(s, 1, k - 1)) = IF 1 <= k - 1 THEN k - 1 - 1 + 1 ELSE 0
        /\ \A i \in 1..(k - 1 - 1 + 1) : SubSeq(s, 1, k - 1)[i] = s[1 + i - 1]
    BY <2>1, <2>2, SubSeqProperties
  <2> QED BY <1>1, <1>3, <2>3
<1>6. b \in Seq(S) /\ Len(b) = n - k /\ \A i \in 1..(n - k) : b[i] = s[k + i]
  <2>1. \A i \in (k + 1)..n : s[i] \in S
    BY <1>1, <1>2
  <2>2. k + 1 \in Int /\ n \in Int
    BY <1>1
  <2>3. /\ SubSeq(s, k + 1, n) \in Seq(S)
        /\ Len(SubSeq(s, k + 1, n)) = IF k + 1 <= n THEN n - (k + 1) + 1 ELSE 0
        /\ \A i \in 1..(n - (k + 1) + 1) : SubSeq(s, k + 1, n)[i] = s[k + 1 + i - 1]
    BY <2>1, <2>2, SubSeqProperties
  <2> QED BY <1>1, <1>4, <2>3
<1>7. RemoveAt(s, k) = a \o b
  BY <1>1, <1>3, <1>4, Zenon DEF RemoveAt
<1>8. /\ a \o b \in Seq(S)
      /\ Len(a \o b) = Len(a) + Len(b)
      /\ \A i \in 1..(Len(a) + Len(b)) : (a \o b)[i] = IF i <= Len(a) THEN a[i] ELSE b[i - Len(a)]
  BY <1>5, <1>6, ConcatProperties, Zenon
<1>9. Len(a \o b) = n - 1
  BY <1>1, <1>5, <1>6, <1>8
<1>10. ASSUME NEW i \in 1..(n - 1)
       PROVE  (a \o b)[i] = IF i < k THEN s[i] ELSE s[i + 1]
  <2>1. (a \o b)[i] = IF i <= k - 1 THEN a[i] ELSE b[i - (k - 1)]
    BY <1>1, <1>5, <1>6, <1>8
  <2>2. CASE i < k
    BY <1>1, <1>5, <2>1, <2>2
  <2>3. CASE ~(i < k)
    <3>1. i - (k - 1) \in 1..(n - k) /\ k + (i - (k - 1)) = i + 1
      BY <1>1, <2>3
    <3> QED BY <1>1, <1>6, <2>1, <2>3, <3>1
  <2> QED BY <2>2, <2>3
<1>11. DOMAIN (a \o b) = 1..(n - 1)
  BY <1>8, <1>9, LenProperties
<1> QED
  BY <1>0, <1>1, <1>7, <1>8, <1>9, <1>10, <1>11

\* Of a sequence without repetitions the element goes for good.
LEMMA RemoveAtTakesOut ==
    ASSUME NEW S, NEW s \in Seq(S), NEW k \in 1..Len(s), IsInjective(s)
    PROVE  /\ RemoveAt(s, k) \in Seq(S)
           /\ IsInjective(RemoveAt(s, k))
           /\ ToSet(RemoveAt(s, k)) = ToSet(s) \ {s[k]}
<1>1. PICK r : r = RemoveAt(s, k)
  OBVIOUS
<1>2. /\ r \in Seq(S) /\ Len(s) \in Nat /\ DOMAIN r = 1..(Len(s) - 1)
      /\ \A i \in 1..(Len(s) - 1) : r[i] = IF i < k THEN s[i] ELSE s[i + 1]
  BY <1>1, RemoveAtElements, Zenon
<1>3. DOMAIN s = 1..Len(s)
  BY LenProperties
<1>4. \A i, j \in 1..Len(s) : s[i] = s[j] => i = j
  BY <1>3 DEF IsInjective
<1>5. ASSUME NEW i \in 1..(Len(s) - 1)
      PROVE  LET m == IF i < k THEN i ELSE i + 1 IN m \in 1..Len(s) /\ m # k /\ r[i] = s[m]
  <2>1. CASE i < k
    BY <1>2, <2>1
  <2>2. CASE ~(i < k)
    BY <1>2, <2>2
  <2> QED BY <2>1, <2>2
<1>6. IsInjective(r)
  <2>1. ASSUME NEW i \in 1..(Len(s) - 1), NEW j \in 1..(Len(s) - 1), r[i] = r[j]
        PROVE  i = j
    <3>1. PICK m \in 1..Len(s) : m = (IF i < k THEN i ELSE i + 1) /\ r[i] = s[m]
      BY <1>5
    <3>2. PICK n \in 1..Len(s) : n = (IF j < k THEN j ELSE j + 1) /\ r[j] = s[n]
      BY <1>5
    <3>3. m = n
      BY <1>4, <2>1, <3>1, <3>2
    <3> QED BY <1>2, <3>1, <3>2, <3>3
  <2> QED BY <1>2, <2>1 DEF IsInjective
<1>8. ToSet(r) \subseteq ToSet(s) \ {s[k]}
  <2>1. ASSUME NEW i \in 1..(Len(s) - 1)
        PROVE  r[i] \in ToSet(s) \ {s[k]}
    <3>1. PICK j \in 1..Len(s) : r[i] = s[j] /\ j # k
      BY <1>5
    <3> QED BY <1>3, <1>4, <3>1 DEF ToSet
  <2> QED BY <1>2, <2>1 DEF ToSet
<1>7. ToSet(s) \ {s[k]} \subseteq ToSet(r)
  <2>1. ASSUME NEW j \in 1..Len(s), s[j] # s[k]
        PROVE  \E i \in 1..(Len(s) - 1) : r[i] = s[j]
    <3>1. CASE j < k
      BY <1>2, <3>1
    <3>2. CASE j > k
      <4>1. j - 1 \in 1..(Len(s) - 1) /\ ~(j - 1 < k) /\ (j - 1) + 1 = j
        BY <1>2, <3>2
      <4> QED BY <1>2, <4>1
    <3> QED BY <1>2, <2>1, <3>1, <3>2
  <2>2. ASSUME NEW e \in ToSet(s) \ {s[k]}
        PROVE  e \in ToSet(r)
    <3>1. PICK j \in 1..Len(s) : e = s[j]
      BY <1>3 DEF ToSet
    <3>2. PICK i \in 1..(Len(s) - 1) : r[i] = s[j]
      BY <2>1, <2>2, <3>1
    <3> QED BY <1>2, <3>1, <3>2 DEF ToSet
  <2> QED BY <2>2
<1> QED
  BY <1>1, <1>2, <1>6, <1>7, <1>8

\* As many positions of a sequence without repetitions, as many elements.
LEMMA ElementsAt ==
    ASSUME NEW S, IsFiniteSet(S), NEW s \in Seq(S), IsInjective(s),
           NEW D \in SUBSET DOMAIN s
    PROVE  IsFiniteSet(D) /\ Cardinality(D) = Cardinality({s[i] : i \in D})
<1> DEFINE E == {s[i] : i \in D}
           f == [i \in D |-> s[i]]
<1>1. DOMAIN s = 1..Len(s) /\ Len(s) \in Nat
  BY LenProperties
<1>2. IsFiniteSet(DOMAIN s)
  <2>1. 1 \in Int /\ Len(s) \in Int
    BY <1>1
  <2>2. IsFiniteSet(1..Len(s))
    BY <2>1, FS_Interval
  <2> QED BY <1>1, <2>2
<1>3. IsFiniteSet(D)
  BY <1>2, FS_Subset
<1>4. f \in Surjection(D, E)
  BY DEF Surjection
<1>5. f \in Injection(D, E)
  BY DEF Injection, IsInjective
<1>6. IsFiniteSet(E) /\ (Cardinality(E) = Cardinality(D) <=> f \in Injection(D, E))
  <2> HIDE DEF E, f
  <2> QED BY <1>3, <1>4, FS_Surjection
<1> QED
  BY <1>3, <1>5, <1>6
\* The greatest element of a set of naturals that has a bound.
LEMMA MaxElement ==
    ASSUME NEW H \in SUBSET Nat, H # {}, NEW n \in Nat, \A h \in H : h <= n
    PROVE  Max(H) \in H /\ \A h \in H : h <= Max(H)
<1> DEFINE D == {n - h : h \in H}
<1>1. D \in SUBSET Nat /\ D # {}
  <2>1. ASSUME NEW h \in H PROVE n - h \in Nat
    <3>1. h \in Nat /\ h <= n
      OBVIOUS
    <3> QED BY <3>1
  <2> QED BY <2>1
<1>2. Min(D) \in D /\ \A d \in D : Min(D) <= d
  <2> HIDE DEF D
  <2> QED BY <1>1, MinElement
<1>3. PICK m \in H : Min(D) = n - m
  BY <1>2
<1>4. ASSUME NEW h \in H PROVE m >= h
  <2>1. n - m <= n - h
    BY <1>2, <1>3
  <2> QED BY <2>1
<1> QED
  BY <1>3, <1>4 DEF Max

\* A sequence from its m-th element on.
LEMMA SuffixElements ==
    ASSUME NEW S, NEW s \in Seq(S), NEW m \in 1..(Len(s) + 1)
    PROVE  /\ SubSeq(s, m, Len(s)) \in Seq(S)
           /\ Len(SubSeq(s, m, Len(s))) = Len(s) - m + 1
           /\ \A i \in 1..(Len(s) - m + 1) : SubSeq(s, m, Len(s))[i] = s[m + i - 1]
           /\ ToSet(SubSeq(s, m, Len(s))) = {s[i] : i \in m..Len(s)}
           /\ IsInjective(s) => IsInjective(SubSeq(s, m, Len(s)))
<1>1. Len(s) \in Nat /\ DOMAIN s = 1..Len(s) /\ m \in Int /\ Len(s) \in Int
  BY LenProperties
<1>2. \A i \in m..Len(s) : s[i] \in S
  BY <1>1, ElementOfSeq
<1>3. PICK r : r = SubSeq(s, m, Len(s))
  OBVIOUS
<1>4. r \in Seq(S) /\ Len(r) = Len(s) - m + 1 /\ \A i \in 1..(Len(s) - m + 1) : r[i] = s[m + i - 1]
  BY <1>1, <1>2, <1>3, SubSeqProperties
<1>5. DOMAIN r = 1..(Len(s) - m + 1)
  BY <1>4, LenProperties
<1>6. ToSet(r) = {s[i] : i \in m..Len(s)}
  <2>1. ASSUME NEW i \in 1..(Len(s) - m + 1) PROVE r[i] \in {s[k] : k \in m..Len(s)}
    <3>1. m + i - 1 \in m..Len(s) /\ r[i] = s[m + i - 1]
      BY <1>1, <1>4
    <3> QED BY <3>1
  <2>2. ASSUME NEW k \in m..Len(s) PROVE s[k] \in ToSet(r)
    <3>1. k - m + 1 \in 1..(Len(s) - m + 1) /\ m + (k - m + 1) - 1 = k
      BY <1>1
    <3> QED BY <1>4, <1>5, <3>1 DEF ToSet
  <2> QED BY <1>5, <2>1, <2>2 DEF ToSet
<1>7. IsInjective(s) => IsInjective(r)
  <2>1. SUFFICES ASSUME IsInjective(s) PROVE IsInjective(r)
    OBVIOUS
  <2>2. ASSUME NEW i \in 1..(Len(s) - m + 1), NEW k \in 1..(Len(s) - m + 1), r[i] = r[k]
        PROVE  i = k
    <3>1. s[m + i - 1] = s[m + k - 1] /\ m + i - 1 \in DOMAIN s /\ m + k - 1 \in DOMAIN s
      BY <1>1, <1>4, <2>2
    <3>2. m + i - 1 = m + k - 1
      BY <2>1, <3>1 DEF IsInjective
    <3> QED BY <1>1, <3>2
  <2> QED BY <1>5, <2>2 DEF IsInjective
<1> QED
  BY <1>3, <1>4, <1>6, <1>7

\* The tail is all but the first element.
LEMMA TailElements ==
    ASSUME NEW S, NEW s \in Seq(S), s # <<>>
    PROVE  /\ Len(s) \in Nat \ {0} /\ Head(s) = s[1] /\ s[1] \in S
           /\ Tail(s) \in Seq(S) /\ Len(Tail(s)) = Len(s) - 1
           /\ \A i \in 1..(Len(s) - 1) : Tail(s)[i] = s[i + 1]
           /\ ToSet(s) = ToSet(Tail(s)) \cup {s[1]}
           /\ IsInjective(s) => IsInjective(Tail(s)) /\ s[1] \notin ToSet(Tail(s))
<1>1. Len(s) \in Nat \ {0} /\ DOMAIN s = 1..Len(s) /\ s[1] \in S
  BY EmptySeq, ElementOfSeq, LenProperties
<1>2. Head(s) = s[1]
  OBVIOUS
<1>3. Tail(s) = SubSeq(s, 2, Len(s)) /\ 2 \in 1..(Len(s) + 1)
  BY <1>1, TailIsSubSeq
<1>4. /\ Tail(s) \in Seq(S) /\ Len(Tail(s)) = Len(s) - 2 + 1
      /\ \A i \in 1..(Len(s) - 2 + 1) : Tail(s)[i] = s[2 + i - 1]
      /\ ToSet(Tail(s)) = {s[i] : i \in 2..Len(s)}
      /\ IsInjective(s) => IsInjective(Tail(s))
  <2>1. \A m \in 1..(Len(s) + 1) :
          /\ SubSeq(s, m, Len(s)) \in Seq(S) /\ Len(SubSeq(s, m, Len(s))) = Len(s) - m + 1
          /\ \A i \in 1..(Len(s) - m + 1) : SubSeq(s, m, Len(s))[i] = s[m + i - 1]
          /\ ToSet(SubSeq(s, m, Len(s))) = {s[i] : i \in m..Len(s)}
          /\ IsInjective(s) => IsInjective(SubSeq(s, m, Len(s)))
    BY SuffixElements, Zenon
  <2> QED BY <1>3, <2>1, Zenon
<1>5. Len(Tail(s)) = Len(s) - 1 /\ \A i \in 1..(Len(s) - 1) : Tail(s)[i] = s[i + 1]
  BY <1>1, <1>4
<1>6. ToSet(s) = ToSet(Tail(s)) \cup {s[1]}
  <2>1. ToSet(s) = {s[i] : i \in 1..Len(s)}
    BY <1>1 DEF ToSet
  <2>2. 1..Len(s) = (2..Len(s)) \cup {1}
    BY <1>1
  <2>3. {s[i] : i \in 1..Len(s)} = {s[i] : i \in 2..Len(s)} \cup {s[1]}
    BY <2>2
  <2> QED BY <1>4, <2>1, <2>3
<1>7. IsInjective(s) => s[1] \notin ToSet(Tail(s))
  BY <1>1, <1>4 DEF IsInjective
<1> QED
  BY <1>1, <1>2, <1>4, <1>5, <1>6, <1>7

\* What InsertAt puts into a sequence, at its k-th place.
LEMMA InsertAtElements ==
    ASSUME NEW S, NEW s \in Seq(S), NEW e \in S, NEW k \in 1..(Len(s) + 1)
    PROVE  /\ InsertAt(s, k, e) \in Seq(S)
           /\ Len(InsertAt(s, k, e)) = Len(s) + 1
           /\ \A i \in 1..(Len(s) + 1) :
                InsertAt(s, k, e)[i] = IF i < k THEN s[i] ELSE IF i = k THEN e ELSE s[i - 1]
<1>1. PICK n \in Nat : n = Len(s)
  BY LenProperties
<1>2. \A i \in 1..n : s[i] \in S
  BY <1>1, ElementOfSeq
<1>3. PICK a : a = SubSeq(s, 1, k - 1)
  OBVIOUS
<1>4. PICK b : b = SubSeq(s, k, n)
  OBVIOUS
<1>5. a \in Seq(S) /\ Len(a) = k - 1 /\ \A i \in 1..(k - 1) : a[i] = s[i]
  <2>1. \A i \in 1..(k - 1) : s[i] \in S
    BY <1>1, <1>2
  <2>2. 1 \in Int /\ k - 1 \in Int
    BY <1>1
  <2>3. /\ SubSeq(s, 1, k - 1) \in Seq(S)
        /\ Len(SubSeq(s, 1, k - 1)) = IF 1 <= k - 1 THEN k - 1 - 1 + 1 ELSE 0
        /\ \A i \in 1..(k - 1 - 1 + 1) : SubSeq(s, 1, k - 1)[i] = s[1 + i - 1]
    BY <2>1, <2>2, SubSeqProperties
  <2> QED BY <1>1, <1>3, <2>3
<1>6. b \in Seq(S) /\ Len(b) = n - k + 1 /\ \A i \in 1..(n - k + 1) : b[i] = s[k + i - 1]
  BY <1>1, <1>4, SuffixElements
<1>7. PICK c : c = a \o <<e>>
  OBVIOUS
<1>8. c \in Seq(S) /\ Len(c) = k /\ c[k] = e /\ \A i \in 1..(k - 1) : c[i] = s[i]
  <2>1. c = Append(a, e)
    BY <1>5, <1>7, AppendIsConcat
  <2>2. /\ c \in Seq(S) /\ Len(c) = Len(a) + 1 /\ c[Len(a) + 1] = e
        /\ \A i \in 1..Len(a) : c[i] = a[i]
    BY <1>5, <2>1, AppendElements
  <2>3. Len(a) + 1 = k
    BY <1>1, <1>5
  <2> QED BY <1>5, <2>2, <2>3
<1>9. InsertAt(s, k, e) = c \o b
  BY <1>1, <1>3, <1>4, <1>7, Zenon DEF InsertAt
<1>10. /\ c \o b \in Seq(S) /\ Len(c \o b) = Len(c) + Len(b)
       /\ \A i \in 1..(Len(c) + Len(b)) : (c \o b)[i] = IF i <= Len(c) THEN c[i] ELSE b[i - Len(c)]
  BY <1>6, <1>8, ConcatProperties, Zenon
<1>11. Len(c \o b) = n + 1
  BY <1>1, <1>6, <1>8, <1>10
<1>12. ASSUME NEW i \in 1..(n + 1)
       PROVE  (c \o b)[i] = IF i < k THEN s[i] ELSE IF i = k THEN e ELSE s[i - 1]
  <2>1. (c \o b)[i] = IF i <= k THEN c[i] ELSE b[i - k]
    BY <1>1, <1>6, <1>8, <1>10
  <2>2. CASE i < k
    <3>1. i \in 1..(k - 1) /\ i <= k
      BY <1>1, <2>2
    <3> QED BY <1>8, <2>1, <2>2, <3>1
  <2>3. CASE i = k
    BY <1>1, <1>8, <2>1, <2>3
  <2>4. CASE i > k
    <3>1. i - k \in 1..(n - k + 1) /\ k + (i - k) - 1 = i - 1 /\ ~(i <= k) /\ ~(i < k) /\ i # k
      BY <1>1, <2>4
    <3> QED BY <1>6, <2>1, <3>1
  <2>5. i \in Int /\ k \in Int
    BY <1>1
  <2>6. i < k \/ i = k \/ i > k
    BY <2>5
  <2> QED BY <2>2, <2>3, <2>4, <2>6
<1> QED
  BY <1>1, <1>9, <1>10, <1>11, <1>12

\* Something new keeps a sequence injective wherever it is inserted.
LEMMA InsertAtAdds ==
    ASSUME NEW S, NEW s \in Seq(S), NEW e \in S, NEW k \in 1..(Len(s) + 1)
    PROVE  /\ InsertAt(s, k, e) \in Seq(S)
           /\ ToSet(InsertAt(s, k, e)) = ToSet(s) \cup {e}
           /\ IsInjective(s) /\ e \notin ToSet(s) => IsInjective(InsertAt(s, k, e))
<1>1. PICK n \in Nat : n = Len(s)
  BY LenProperties
<1>2. PICK r : r = InsertAt(s, k, e)
  OBVIOUS
<1>3. /\ r \in Seq(S) /\ Len(r) = n + 1
      /\ \A i \in 1..(n + 1) : r[i] = IF i < k THEN s[i] ELSE IF i = k THEN e ELSE s[i - 1]
  BY <1>1, <1>2, InsertAtElements
<1>4. DOMAIN r = 1..(n + 1) /\ DOMAIN s = 1..n
  BY <1>1, <1>3, LenProperties
<1>5. ToSet(r) \subseteq ToSet(s) \cup {e}
  <2>1. ASSUME NEW i \in 1..(n + 1) PROVE r[i] = e \/ \E l \in 1..n : r[i] = s[l]
    <3>1. CASE i < k
      <4>1. i \in 1..n
        BY <1>1, <3>1
      <4> QED BY <1>3, <3>1, <4>1
    <3>2. CASE i = k
      BY <1>3, <3>2
    <3>3. CASE i > k
      <4>1. i - 1 \in 1..n
        BY <1>1, <3>3
      <4> QED BY <1>1, <1>3, <3>3, <4>1
    <3> QED BY <1>1, <3>1, <3>2, <3>3
  <2> QED BY <1>4, <2>1 DEF ToSet
<1>6. ToSet(s) \cup {e} \subseteq ToSet(r)
  <2>1. ASSUME NEW l \in 1..n PROVE \E i \in 1..(n + 1) : r[i] = s[l]
    <3>1. CASE l < k
      BY <1>1, <1>3, <3>1
    <3>2. CASE ~(l < k)
      <4>1. l + 1 \in 1..(n + 1) /\ ~(l + 1 < k) /\ l + 1 # k /\ (l + 1) - 1 = l
        BY <1>1, <3>2
      <4> QED BY <1>3, <4>1
    <3> QED BY <3>1, <3>2
  <2>2. k \in 1..(n + 1) /\ r[k] = e
    BY <1>1, <1>3
  <2> QED BY <1>4, <2>1, <2>2 DEF ToSet
<1>7. IsInjective(s) /\ e \notin ToSet(s) => IsInjective(r)
  <2>1. SUFFICES ASSUME IsInjective(s), e \notin ToSet(s),
                        NEW i \in 1..(n + 1), NEW l \in 1..(n + 1), r[i] = r[l], i < l
                 PROVE  FALSE
    <3>1. (\A i, l \in 1..(n + 1) : ~(r[i] = r[l] /\ i < l)) => IsInjective(r)
      BY <1>4 DEF IsInjective
    <3> QED BY <3>1
  <2>2. \A x \in 1..n : s[x] # e
    BY <1>4, <2>1 DEF ToSet
  <2>3. \A x, y \in 1..n : s[x] = s[y] => x = y
    BY <1>4, <2>1 DEF IsInjective
  <2>4. CASE l < k
    <3>1. r[i] = s[i] /\ r[l] = s[l] /\ i \in 1..n /\ l \in 1..n
      BY <1>1, <1>3, <2>1, <2>4
    <3>2. i = l
      BY <2>1, <2>3, <3>1
    <3> QED BY <1>1, <2>1, <3>2
  <2>5. CASE l = k
    <3>1. r[i] = s[i] /\ r[l] = e /\ i \in 1..n
      BY <1>1, <1>3, <2>1, <2>5
    <3> QED BY <2>1, <2>2, <3>1
  <2>6. CASE l > k
    <3>1. r[l] = s[l - 1] /\ l - 1 \in 1..n
      BY <1>1, <1>3, <2>1, <2>6
    <3>2. CASE i < k
      <4>1. r[i] = s[i] /\ i \in 1..n /\ i # l - 1
        BY <1>1, <1>3, <2>1, <2>6, <3>2
      <4> QED BY <2>1, <2>3, <3>1, <4>1
    <3>3. CASE i = k
      <4>1. r[i] = e
        BY <1>1, <1>3, <3>3
      <4> QED BY <2>1, <2>2, <3>1, <4>1
    <3>4. CASE i > k
      <4>1. r[i] = s[i - 1] /\ i - 1 \in 1..n /\ i - 1 # l - 1
        BY <1>1, <1>3, <2>1, <2>6, <3>4
      <4> QED BY <2>1, <2>3, <3>1, <4>1
    <3> QED BY <1>1, <3>2, <3>3, <3>4
  <2> QED BY <1>1, <2>4, <2>5, <2>6
<1> QED
  BY <1>2, <1>3, <1>5, <1>6, <1>7
=============================================================================
