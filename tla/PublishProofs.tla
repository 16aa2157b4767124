---------------------------- MODULE PublishProofs ----------------------------
(***************************************************************************)
(* Theorems about Publish, for any settings, rules and patterns, and       *)
(* directories of any size.                                                *)
(***************************************************************************)
EXTENDS Publish, FiniteSetTheorems, SequenceTheorems, WellFoundedInduction, TLAPS

-----------------------------------------------------------------------------
(***************************************************************************)
(* Counting up                                                             *)
(***************************************************************************)
\* What holds of zero, and of every number whose predecessor it holds of: the intervals up to the
\* numbers left out would have a smallest.
LEMMA CountingUp ==
  ASSUME NEW n \in Nat, NEW T, 0 \in T, \A i \in 1..n : i - 1 \in T => i \in T
  PROVE  0..n \subseteq T
<1> DEFINE missing == {i \in 1..n : i \notin T}
           upto == {1..i : i \in missing}
<1>1. IsWellFoundedOn(StrictSubsetOrdering(1..n), SUBSET (1..n))
  <2>1. IsFiniteSet(1..n)
    BY FS_Interval
  <2> QED BY <2>1, FS_StrictSubsetOrderingWellFounded, FS_FiniteSubsetsOfFinite
<1>2. upto \subseteq SUBSET (1..n)
  <2> SUFFICES ASSUME NEW i \in missing PROVE 1..i \subseteq 1..n
    OBVIOUS
  <2> QED OBVIOUS
<1>3. ASSUME NEW i \in missing PROVE FALSE
  <2>1. upto # {}
    OBVIOUS
  <2>2. PICK x \in upto : \A y \in upto : <<y, x>> \notin StrictSubsetOrdering(1..n)
    <3> HIDE DEF upto
    <3> QED BY <1>1, <1>2, <2>1, WFMin
  <2>3. PICK m \in missing : x = 1..m
    OBVIOUS
  <2>4. m - 1 \in missing
    OBVIOUS
  <2>5. 1..(m - 1) \in upto /\ 1..(m - 1) \subseteq 1..m /\ 1..(m - 1) # 1..m
    <3>1. m \in 1..m /\ m \notin 1..(m - 1)
      OBVIOUS
    <3> QED BY <2>4, <3>1
  <2> QED BY <1>2, <2>2, <2>3, <2>5 DEF StrictSubsetOrdering
<1> QED BY <1>3

\* A function is given by its value at zero and what follows from the value before.
Recursive(f, n, base, next) == f[0] = base /\ \A i \in 1..n : f[i] = next[i][f[i - 1]]

LEMMA RecursionUp ==
  ASSUME NEW n \in Nat, NEW S, NEW base \in S, NEW next \in [1..n -> [S -> S]]
  PROVE  \E f \in [0..n -> S] : Recursive(f, n, base, next)
<1> DEFINE Upto(m) == \E f \in [0..m -> S] : f[0] = base /\ \A i \in 1..m : f[i] = next[i][f[i - 1]]
           T == {m \in 0..n : Upto(m)}
<1>1. 0 \in T
  <2> DEFINE f == [i \in 0..0 |-> base]
  <2>1. f \in [0..0 -> S] /\ f[0] = base /\ 1..0 = {} /\ 0 \in 0..n
    OBVIOUS
  <2> HIDE DEF f
  <2>2. Upto(0)
    BY <2>1
  <2> QED BY <2>1, <2>2
<1>2. ASSUME NEW m \in 1..n, m - 1 \in T PROVE m \in T
  <2>1. PICK f \in [0..(m - 1) -> S] : f[0] = base /\ \A i \in 1..(m - 1) : f[i] = next[i][f[i - 1]]
    BY <1>2
  <2> DEFINE g == [i \in 0..m |-> IF i = m THEN next[m][f[m - 1]] ELSE f[i]]
  <2>2. f[m - 1] \in S /\ next[m][f[m - 1]] \in S
    OBVIOUS
  <2>3. g \in [0..m -> S]
    BY <2>2
  <2>4. g[0] = base
    BY <2>1
  <2>5. ASSUME NEW i \in 1..m PROVE g[i] = next[i][g[i - 1]]
    BY <2>1
  <2> HIDE DEF g
  <2>6. Upto(m)
    BY <2>3, <2>4, <2>5
  <2> HIDE DEF Upto
  <2> QED BY <2>6
<1> HIDE DEF Upto
<1>3. 0..n \subseteq T
  BY <1>1, <1>2, CountingUp
<1> QED BY <1>3 DEF Upto, Recursive

\* Whatever is computed like that, is what it is to be.
LEMMA RecursionStays ==
  ASSUME NEW n \in Nat, NEW S, NEW g, g[0] \in S, \A i \in 1..n : g[i - 1] \in S => g[i] \in S
  PROVE  \A i \in 0..n : g[i] \in S
<1> DEFINE T == {i \in 0..n : g[i] \in S}
<1>1. 0 \in T
  OBVIOUS
<1>2. \A i \in 1..n : i - 1 \in T => i \in T
  OBVIOUS
<1> HIDE DEF T
<1>3. 0..n \subseteq T
  BY <1>1, <1>2, CountingUp
<1> QED BY <1>3 DEF T

-----------------------------------------------------------------------------
(***************************************************************************)
(* Lists of keys                                                           *)
(***************************************************************************)
LEMMA AppendedList ==
  ASSUME NEW S, NEW s \in Seq(S), NEW x \in S
  PROVE  /\ Append(s, x) \in Seq(S) /\ ToSet(Append(s, x)) = ToSet(s) \cup {x}
         /\ IsInjective(s) /\ x \notin ToSet(s) => IsInjective(Append(s, x))
<1>1. /\ Append(s, x) \in Seq(S) /\ Len(Append(s, x)) = Len(s) + 1
      /\ \A i \in 1..Len(s) : Append(s, x)[i] = s[i]
      /\ Append(s, x)[Len(s) + 1] = x
  BY AppendProperties
<1>2. /\ DOMAIN s = 1..Len(s) /\ DOMAIN Append(s, x) = 1..(Len(s) + 1) /\ Len(s) \in Nat
  BY <1>1, LenProperties
<1>3. ToSet(Append(s, x)) = ToSet(s) \cup {x}
  BY <1>1, <1>2 DEF ToSet
<1>4. ASSUME IsInjective(s), x \notin ToSet(s) PROVE IsInjective(Append(s, x))
  <2> SUFFICES ASSUME NEW i \in 1..(Len(s) + 1), NEW j \in 1..(Len(s) + 1), Append(s, x)[i] = Append(s, x)[j]
               PROVE i = j
    BY <1>2 DEF IsInjective
  <2> QED BY <1>1, <1>2, <1>4 DEF IsInjective, ToSet
<1> QED BY <1>1, <1>3, <1>4

LEMMA ConcatenatedList ==
  ASSUME NEW S, NEW s \in Seq(S), NEW t \in Seq(S)
  PROVE  /\ s \o t \in Seq(S) /\ ToSet(s \o t) = ToSet(s) \cup ToSet(t)
         /\ IsInjective(s) /\ IsInjective(t) /\ ToSet(s) \cap ToSet(t) = {} => IsInjective(s \o t)
<1>1. /\ s \o t \in Seq(S) /\ Len(s \o t) = Len(s) + Len(t)
      /\ \A i \in 1..(Len(s) + Len(t)) : (s \o t)[i] = IF i <= Len(s) THEN s[i] ELSE t[i - Len(s)]
  BY ConcatProperties
<1>2. /\ DOMAIN s = 1..Len(s) /\ DOMAIN t = 1..Len(t) /\ DOMAIN (s \o t) = 1..(Len(s) + Len(t))
      /\ Len(s) \in Nat /\ Len(t) \in Nat
  BY <1>1, LenProperties
<1>3. ASSUME NEW i \in 1..(Len(s) + Len(t))
      PROVE  \/ i \in 1..Len(s) /\ (s \o t)[i] = s[i]
             \/ i - Len(s) \in 1..Len(t) /\ (s \o t)[i] = t[i - Len(s)]
  BY <1>1, <1>2
<1>4. /\ \A i \in 1..Len(s) : i \in 1..(Len(s) + Len(t)) /\ (s \o t)[i] = s[i]
      /\ \A i \in 1..Len(t) : Len(s) + i \in 1..(Len(s) + Len(t)) /\ (s \o t)[Len(s) + i] = t[i]
  BY <1>1, <1>2
<1>5. ToSet(s \o t) = ToSet(s) \cup ToSet(t)
  <2>1. ToSet(s \o t) \subseteq ToSet(s) \cup ToSet(t)
    BY <1>2, <1>3 DEF ToSet
  <2>2. ToSet(s) \subseteq ToSet(s \o t) /\ ToSet(t) \subseteq ToSet(s \o t)
    BY <1>2, <1>4 DEF ToSet
  <2> QED BY <2>1, <2>2
<1>6. ASSUME IsInjective(s), IsInjective(t), ToSet(s) \cap ToSet(t) = {} PROVE IsInjective(s \o t)
  <2> SUFFICES ASSUME NEW i \in 1..(Len(s) + Len(t)), NEW j \in 1..(Len(s) + Len(t)), (s \o t)[i] = (s \o t)[j]
               PROVE i = j
    BY <1>2 DEF IsInjective
  <2>1. \A k \in 1..Len(s), m \in 1..Len(t) : s[k] # t[m]
    BY <1>2, <1>6 DEF ToSet
  <2>2. \/ i \in 1..Len(s) /\ (s \o t)[i] = s[i]
        \/ i - Len(s) \in 1..Len(t) /\ (s \o t)[i] = t[i - Len(s)]
    BY <1>3
  <2>3. \/ j \in 1..Len(s) /\ (s \o t)[j] = s[j]
        \/ j - Len(s) \in 1..Len(t) /\ (s \o t)[j] = t[j - Len(s)]
    BY <1>3
  <2>4. /\ \A k, m \in 1..Len(s) : s[k] = s[m] => k = m
        /\ \A k, m \in 1..Len(t) : t[k] = t[m] => k = m
    BY <1>2, <1>6 DEF IsInjective
  <2>5. i - Len(s) = j - Len(s) => i = j
    BY <1>2
  <2> QED BY <2>1, <2>2, <2>3, <2>4, <2>5
<1> QED BY <1>1, <1>5, <1>6

\* A list of lists, as one.
LEMMA FlattenedList ==
  ASSUME NEW S, NEW lists \in Seq(Seq(S))
  PROVE  /\ FlattenSeq(lists) \in Seq(S)
         /\ ToSet(FlattenSeq(lists)) = UNION {ToSet(lists[i]) : i \in DOMAIN lists}
         /\ (\A i, j \in DOMAIN lists :
               IsInjective(lists[i]) /\ (i # j => ToSet(lists[i]) \cap ToSet(lists[j]) = {}))
              => IsInjective(FlattenSeq(lists))
<1> DEFINE n == Len(lists)
           flat == CHOOSE flat : flat = [i \in 1..n |-> IF i = 1 THEN lists[i] ELSE flat[i - 1] \o lists[i]]
<1>1. n \in Nat /\ DOMAIN lists = 1..n /\ \A i \in 1..n : lists[i] \in Seq(S)
  BY LenProperties, ElementOfSeq
<1>2. FlattenSeq(lists) = IF n = 0 THEN lists ELSE flat[n]
  BY DEF FlattenSeq
<1> HIDE DEF n
<1>3. CASE n = 0
  <2>1. lists = <<>>
    BY <1>3, EmptySeq DEF n
  <2>2. FlattenSeq(lists) = <<>> /\ DOMAIN lists = {}
    BY <1>1, <1>2, <1>3, <2>1
  <2>3. <<>> \in Seq(S) /\ ToSet(<<>>) = {} /\ IsInjective(<<>>)
    BY EmptySeq DEF ToSet, IsInjective
  <2> QED BY <2>2, <2>3
<1>4. CASE n # 0
  <2> DEFINE next == [i \in 1..n |-> [sofar \in Seq(S) |-> sofar \o lists[i]]]
  <2>1. next \in [1..n -> [Seq(S) -> Seq(S)]] /\ <<>> \in Seq(S)
    BY <1>1, ConcatProperties, EmptySeq
  <2>2. PICK f \in [0..n -> Seq(S)] : f[0] = <<>> /\ \A i \in 1..n : f[i] = next[i][f[i - 1]]
    <3> HIDE DEF next
    <3>1. \E f \in [0..n -> Seq(S)] : Recursive(f, n, <<>>, next)
      BY <1>1, <2>1, RecursionUp
    <3> QED BY <3>1 DEF Recursive
  <2>3. \A i \in 1..n : f[i - 1] \in Seq(S) /\ f[i] = f[i - 1] \o lists[i]
    <3> TAKE i \in 1..n
    <3>1. f[i - 1] \in Seq(S)
      BY <1>1
    <3> QED BY <2>2, <3>1
  <2> DEFINE g == [i \in 1..n |-> f[i]]
  <2>4. g = [i \in 1..n |-> IF i = 1 THEN lists[i] ELSE g[i - 1] \o lists[i]]
    <3>1. 1 \in 1..n /\ f[1] = lists[1]
      <4>1. 1 \in 1..n
        BY <1>1, <1>4
      <4>2. f[1] = <<>> \o lists[1]
        <5>1. 1 - 1 = 0
          OBVIOUS
        <5> QED BY <2>2, <2>3, <4>1, <5>1
      <4> QED BY <1>1, <4>1, <4>2, ConcatEmptySeq
    <3>2. \A i \in 1..n : i # 1 => i - 1 \in 1..n
      BY <1>1
    <3> QED BY <2>3, <3>1, <3>2
  <2>5. flat = [i \in 1..n |-> IF i = 1 THEN lists[i] ELSE flat[i - 1] \o lists[i]]
    <3> HIDE DEF g
    <3> QED BY <2>4
  <2> HIDE DEF flat
  <2> DEFINE Sofar(i) == /\ f[i] \in Seq(S) /\ (i # 0 => flat[i] = f[i])
                         /\ ToSet(f[i]) = UNION {ToSet(lists[j]) : j \in 1..i}
                         /\ (\A j, k \in 1..n :
                               IsInjective(lists[j]) /\ (j # k => ToSet(lists[j]) \cap ToSet(lists[k]) = {}))
                              => IsInjective(f[i])
             T == {i \in 0..n : Sofar(i)}
  <2>6. 0 \in T
    <3>1. ToSet(<<>>) = {} /\ IsInjective(<<>>)
      BY EmptySeq DEF ToSet, IsInjective
    <3>2. 1..0 = {}
      OBVIOUS
    <3>3. 0 \in 0..n
      BY <1>1
    <3> QED BY <2>1, <2>2, <3>1, <3>2, <3>3
  <2>7. ASSUME NEW i \in 1..n, i - 1 \in T PROVE i \in T
    <3>1. Sofar(i - 1)
      BY <2>7
    <3>2. f[i] = f[i - 1] \o lists[i] /\ f[i - 1] \in Seq(S)
      BY <2>3
    <3>3. flat[i] = f[i]
      <4>1. CASE i = 1
        <5>1. f[1] = <<>> \o lists[1]
          <6>1. 1 - 1 = 0
            OBVIOUS
          <6> QED BY <2>2, <3>2, <4>1, <6>1
        <5>2. f[1] = lists[1]
          BY <1>1, <4>1, <5>1, ConcatEmptySeq
        <5> QED BY <2>5, <4>1, <5>2
      <4>2. CASE i # 1
        <5>1. i - 1 \in 1..n /\ i - 1 # 0
          BY <1>1, <4>2
        <5> QED BY <2>5, <3>1, <3>2, <4>2, <5>1
      <4> QED BY <4>1, <4>2
    <3>4. 1..i = 1..(i - 1) \cup {i} /\ 1..(i - 1) \subseteq 1..n /\ i \notin 1..(i - 1)
      BY <1>1
    <3>5. ToSet(f[i]) = ToSet(f[i - 1]) \cup ToSet(lists[i]) /\ f[i] \in Seq(S)
      BY <1>1, <3>2, ConcatenatedList
    <3>6. ToSet(f[i]) = UNION {ToSet(lists[j]) : j \in 1..i}
      BY <3>1, <3>4, <3>5
    <3>7. ASSUME \A j, k \in 1..n :
                   IsInjective(lists[j]) /\ (j # k => ToSet(lists[j]) \cap ToSet(lists[k]) = {})
          PROVE  IsInjective(f[i])
      <4>1. \A j \in 1..(i - 1) : ToSet(lists[j]) \cap ToSet(lists[i]) = {}
        BY <3>4, <3>7
      <4>2. ToSet(f[i - 1]) \cap ToSet(lists[i]) = {}
        BY <3>1, <4>1
      <4>3. IsInjective(f[i - 1]) /\ IsInjective(lists[i])
        BY <3>1, <3>7
      <4> QED BY <1>1, <3>2, <4>2, <4>3, ConcatenatedList
    <3>8. i \in 0..n
      BY <1>1
    <3> QED BY <3>3, <3>5, <3>6, <3>7, <3>8
  <2>8. Sofar(n)
    <3> HIDE DEF Sofar
    <3>1. 0..n \subseteq T
      BY <1>1, <2>6, <2>7, CountingUp
    <3> QED BY <1>1, <3>1
  <2> QED BY <1>1, <1>2, <1>4, <2>8
<1> QED BY <1>3, <1>4

\* The keys of one type.
LEMMA OfOneType ==
  ASSUME NEW S, NEW group \in Seq(S), NEW type
  PROVE  /\ Of(group, type) \in Seq(S)
         /\ ToSet(Of(group, type)) = {k \in ToSet(group) : k.type = type}
         /\ IsInjective(group) => IsInjective(Of(group, type))
<1> DEFINE n == Len(group)
           of == CHOOSE of : of = [i \in 0..n |->
                   IF i = 0 THEN <<>>
                   ELSE IF group[i].type = type THEN Append(of[i - 1], group[i]) ELSE of[i - 1]]
           next == [i \in 1..n |-> [sofar \in Seq(S) |->
                     IF group[i].type = type THEN Append(sofar, group[i]) ELSE sofar]]
<1>1. n \in Nat /\ DOMAIN group = 1..n /\ \A i \in 1..n : group[i] \in S
  BY LenProperties, ElementOfSeq
<1>2. Of(group, type) = of[n]
  BY DEF Of
<1> HIDE DEF n
<1>3. next \in [1..n -> [Seq(S) -> Seq(S)]] /\ <<>> \in Seq(S)
  BY <1>1, AppendProperties, EmptySeq
<1>4. PICK f \in [0..n -> Seq(S)] : Recursive(f, n, <<>>, next)
  <2> HIDE DEF next
  <2> QED BY <1>1, <1>3, RecursionUp
<1>5. f[0] = <<>> /\ \A i \in 1..n : /\ f[i - 1] \in Seq(S)
                                     /\ f[i] = IF group[i].type = type THEN Append(f[i - 1], group[i]) ELSE f[i - 1]
  <2>1. ASSUME NEW i \in 1..n PROVE f[i - 1] \in Seq(S)
    BY <1>1
  <2> QED BY <1>4, <2>1 DEF Recursive
<1>6. of = [i \in 0..n |-> IF i = 0 THEN <<>> ELSE IF group[i].type = type THEN Append(of[i - 1], group[i]) ELSE of[i - 1]]
  <2>1. \A i \in 0..n : f[i] = IF i = 0 THEN <<>> ELSE IF group[i].type = type THEN Append(f[i - 1], group[i]) ELSE f[i - 1]
    <3>1. \A i \in 0..n : i = 0 \/ i \in 1..n
      BY <1>1
    <3>2. 0 \notin 1..n
      BY <1>1
    <3> QED BY <1>5, <3>1, <3>2
  <2>2. f = [i \in 0..n |-> IF i = 0 THEN <<>> ELSE IF group[i].type = type THEN Append(f[i - 1], group[i]) ELSE f[i - 1]]
    BY <2>1
  <2> QED BY <2>2
<1> HIDE DEF of
<1>10. of[0] = <<>> /\ \A i \in 1..n : of[i] = IF group[i].type = type THEN Append(of[i - 1], group[i]) ELSE of[i - 1]
  <2>1. 0 \in 0..n /\ \A i \in 1..n : i # 0 /\ i \in 0..n
    BY <1>1
  <2> QED BY <1>6, <2>1
<1>11. \A i \in 0..n : of[i] \in Seq(S)
  <2>1. \A i \in 1..n : of[i - 1] \in Seq(S) => of[i] \in Seq(S)
    BY <1>1, <1>10, AppendProperties
  <2> QED BY <1>1, <1>3, <1>10, <2>1, RecursionStays
<1> DEFINE Sofar(i) == /\ of[i] \in Seq(S)
                       /\ ToSet(of[i]) = {k \in {group[j] : j \in 1..i} : k.type = type}
                       /\ IsInjective(group) => IsInjective(of[i])
           T == {i \in 0..n : Sofar(i)}
<1>7. 0 \in T
  <2>1. ToSet(<<>>) = {} /\ IsInjective(<<>>)
    BY EmptySeq DEF ToSet, IsInjective
  <2>2. 1..0 = {} /\ 0 \in 0..n
    BY <1>1
  <2> QED BY <1>3, <1>10, <2>1, <2>2
<1>8. ASSUME NEW i \in 1..n, i - 1 \in T PROVE i \in T
  <2>1. Sofar(i - 1) /\ i \in 0..n
    <3>1. i \in 0..n
      BY <1>1
    <3> QED BY <1>8, <3>1
  <2>2. 1..i = 1..(i - 1) \cup {i} /\ 1..(i - 1) \subseteq 1..n /\ i \notin 1..(i - 1)
    BY <1>1
  <2>3. {group[j] : j \in 1..i} = {group[j] : j \in 1..(i - 1)} \cup {group[i]}
    BY <2>2
  <2>4. CASE group[i].type # type
    <3>1. of[i] = of[i - 1]
      BY <1>10, <2>4
    <3> QED BY <2>1, <2>3, <2>4, <3>1
  <2>5. CASE group[i].type = type
    <3>1. of[i] = Append(of[i - 1], group[i])
      BY <1>10, <2>5
    <3>2. /\ of[i] \in Seq(S) /\ ToSet(of[i]) = ToSet(of[i - 1]) \cup {group[i]}
          /\ IsInjective(of[i - 1]) /\ group[i] \notin ToSet(of[i - 1]) => IsInjective(of[i])
      <4>1. of[i - 1] \in Seq(S) /\ group[i] \in S
        BY <1>1, <2>1
      <4> QED BY <3>1, <4>1, AppendedList
    <3>3. IsInjective(group) => group[i] \notin ToSet(of[i - 1])
      <4>1. IsInjective(group) => \A j \in 1..(i - 1) : group[j] # group[i]
        BY <1>1, <2>2 DEF IsInjective
      <4> QED BY <2>1, <4>1
    <3>4. ToSet(of[i]) = {k \in {group[j] : j \in 1..i} : k.type = type}
      BY <2>1, <2>3, <2>5, <3>2
    <3> QED BY <2>1, <3>2, <3>3, <3>4
  <2> QED BY <2>4, <2>5
<1>9. Sofar(n)
  <2> HIDE DEF Sofar
  <2>1. 0..n \subseteq T
    BY <1>1, <1>7, <1>8, CountingUp
  <2> QED BY <1>1, <2>1
<1> QED BY <1>1, <1>2, <1>9 DEF ToSet

\* No key is lost in an order of all types, and none is in it twice that was not.
LEMMA OrderedByType ==
  ASSUME NEW group \in Seq(MasterKeys), NEW types \in {CliOrder, RuleOrder, StoredOrder}
  PROVE  /\ InOrder(group, types) \in Seq(MasterKeys)
         /\ ToSet(InOrder(group, types)) = ToSet(group)
         /\ IsInjective(group) => IsInjective(InOrder(group, types))
<1> DEFINE lists == [i \in DOMAIN types |-> Of(group, types[i])]
<1>1. DOMAIN types = 1..7 /\ \A type \in KeyTypes : \E i \in 1..7 : types[i] = type
  <2>1. CASE types = CliOrder
    BY <2>1 DEF CliOrder, KeyTypes
  <2>2. CASE types = RuleOrder
    BY <2>2 DEF RuleOrder, KeyTypes
  <2>3. CASE types = StoredOrder
    BY <2>3 DEF StoredOrder, KeyTypes
  <2> QED BY <2>1, <2>2, <2>3
<1>2. \A i, j \in 1..7 : types[i] = types[j] => i = j
  <2>1. CASE types = CliOrder
    BY <2>1 DEF CliOrder, KeyTypes
  <2>2. CASE types = RuleOrder
    BY <2>2 DEF RuleOrder, KeyTypes
  <2>3. CASE types = StoredOrder
    BY <2>3 DEF StoredOrder, KeyTypes
  <2> QED BY <2>1, <2>2, <2>3
<1>3. InOrder(group, types) = FlattenSeq(lists)
  BY DEF InOrder
<1>4. \A i \in 1..7 : /\ lists[i] \in Seq(MasterKeys)
                      /\ ToSet(lists[i]) = {k \in ToSet(group) : k.type = types[i]}
                      /\ IsInjective(group) => IsInjective(lists[i])
  BY <1>1, OfOneType
<1>5. DOMAIN lists = 1..7 /\ lists \in Seq(Seq(MasterKeys))
  <2>1. DOMAIN lists = 1..7 /\ lists \in [1..7 -> Seq(MasterKeys)]
    BY <1>1, <1>4
  <2> HIDE DEF lists
  <2> DEFINE seven == 7
  <2>2. seven \in Nat /\ lists \in [1..seven -> Seq(MasterKeys)]
    BY <2>1
  <2> HIDE DEF seven
  <2>3. lists \in Seq(Seq(MasterKeys))
    BY <2>2, SeqDef
  <2> QED BY <2>1, <2>3
<1> HIDE DEF lists
<1>6. \A k \in ToSet(group) : k.type \in KeyTypes
  <2>1. \A i \in DOMAIN group : group[i] \in MasterKeys
    BY LenProperties, ElementOfSeq
  <2> QED BY <2>1, SettingsAssumption DEF ToSet
<1>7. UNION {ToSet(lists[i]) : i \in DOMAIN lists} = ToSet(group)
  <2>1. \A k \in ToSet(group) : \E i \in 1..7 : k \in ToSet(lists[i])
    BY <1>1, <1>4, <1>6
  <2>2. \A i \in 1..7 : ToSet(lists[i]) \subseteq ToSet(group)
    BY <1>4
  <2> QED BY <1>5, <2>1, <2>2
<1>8. IsInjective(group) =>
        \A i, j \in DOMAIN lists :
          IsInjective(lists[i]) /\ (i # j => ToSet(lists[i]) \cap ToSet(lists[j]) = {})
  BY <1>2, <1>4, <1>5
<1>9. /\ FlattenSeq(lists) \in Seq(MasterKeys)
      /\ ToSet(FlattenSeq(lists)) = UNION {ToSet(lists[i]) : i \in DOMAIN lists}
  BY <1>5, FlattenedList
<1>10. IsInjective(group) => IsInjective(FlattenSeq(lists))
  BY <1>5, <1>8, FlattenedList
<1> QED BY <1>3, <1>7, <1>9, <1>10

\* The removal of repeated keys.
LEMMA Deduplicated ==
  ASSUME NEW S, NEW group \in Seq(S)
  PROVE  /\ deduplicateKeygroup(group) \in Seq(S)
         /\ ToSet(deduplicateKeygroup(group)) = ToSet(group)
         /\ IsInjective(deduplicateKeygroup(group))
<1> DEFINE n == Len(group)
           kept == CHOOSE kept : kept = [i \in 0..n |->
                     IF i = 0 THEN <<>>
                     ELSE IF group[i] \in ToSet(kept[i - 1]) THEN kept[i - 1] ELSE Append(kept[i - 1], group[i])]
           next == [i \in 1..n |-> [sofar \in Seq(S) |->
                     IF group[i] \in ToSet(sofar) THEN sofar ELSE Append(sofar, group[i])]]
<1>1. n \in Nat /\ DOMAIN group = 1..n /\ \A i \in 1..n : group[i] \in S
  BY LenProperties, ElementOfSeq
<1>2. deduplicateKeygroup(group) = kept[n]
  BY DEF deduplicateKeygroup
<1> HIDE DEF n
<1>3. next \in [1..n -> [Seq(S) -> Seq(S)]] /\ <<>> \in Seq(S)
  BY <1>1, AppendProperties, EmptySeq
<1>4. PICK f \in [0..n -> Seq(S)] : Recursive(f, n, <<>>, next)
  <2> HIDE DEF next
  <2> QED BY <1>1, <1>3, RecursionUp
<1>5. f[0] = <<>> /\ \A i \in 1..n : /\ f[i - 1] \in Seq(S)
                                     /\ f[i] = IF group[i] \in ToSet(f[i - 1]) THEN f[i - 1] ELSE Append(f[i - 1], group[i])
  <2>1. ASSUME NEW i \in 1..n PROVE f[i - 1] \in Seq(S)
    BY <1>1
  <2> QED BY <1>4, <2>1 DEF Recursive
<1>6. kept = [i \in 0..n |-> IF i = 0 THEN <<>> ELSE IF group[i] \in ToSet(kept[i - 1]) THEN kept[i - 1] ELSE Append(kept[i - 1], group[i])]
  <2>1. \A i \in 0..n : f[i] = IF i = 0 THEN <<>> ELSE IF group[i] \in ToSet(f[i - 1]) THEN f[i - 1] ELSE Append(f[i - 1], group[i])
    <3>1. \A i \in 0..n : i = 0 \/ i \in 1..n
      BY <1>1
    <3>2. 0 \notin 1..n
      BY <1>1
    <3> QED BY <1>5, <3>1, <3>2
  <2>2. f = [i \in 0..n |-> IF i = 0 THEN <<>> ELSE IF group[i] \in ToSet(f[i - 1]) THEN f[i - 1] ELSE Append(f[i - 1], group[i])]
    BY <2>1
  <2> QED BY <2>2
<1> HIDE DEF kept
<1>10. kept[0] = <<>> /\ \A i \in 1..n : kept[i] = IF group[i] \in ToSet(kept[i - 1]) THEN kept[i - 1] ELSE Append(kept[i - 1], group[i])
  <2>1. 0 \in 0..n /\ \A i \in 1..n : i # 0 /\ i \in 0..n
    BY <1>1
  <2> QED BY <1>6, <2>1
<1>11. \A i \in 0..n : kept[i] \in Seq(S)
  <2>1. \A i \in 1..n : kept[i - 1] \in Seq(S) => kept[i] \in Seq(S)
    <3> SUFFICES ASSUME NEW i \in 1..n, kept[i - 1] \in Seq(S) PROVE kept[i] \in Seq(S)
      OBVIOUS
    <3>1. Append(kept[i - 1], group[i]) \in Seq(S)
      BY <1>1, AppendProperties
    <3> QED BY <1>10, <3>1
  <2> QED BY <1>1, <1>3, <1>10, <2>1, RecursionStays
<1> DEFINE Sofar(i) == /\ kept[i] \in Seq(S) /\ ToSet(kept[i]) = {group[j] : j \in 1..i} /\ IsInjective(kept[i])
           T == {i \in 0..n : Sofar(i)}
<1>7. 0 \in T
  <2>1. ToSet(<<>>) = {} /\ IsInjective(<<>>)
    BY EmptySeq DEF ToSet, IsInjective
  <2>2. 1..0 = {} /\ 0 \in 0..n
    BY <1>1
  <2> QED BY <1>3, <1>10, <2>1, <2>2
<1>8. ASSUME NEW i \in 1..n, i - 1 \in T PROVE i \in T
  <2>1. Sofar(i - 1) /\ i \in 0..n
    <3>1. i \in 0..n
      BY <1>1
    <3> QED BY <1>8, <3>1
  <2>2. 1..i = 1..(i - 1) \cup {i}
    BY <1>1
  <2>3. {group[j] : j \in 1..i} = ToSet(kept[i - 1]) \cup {group[i]}
    BY <2>1, <2>2
  <2>4. CASE group[i] \in ToSet(kept[i - 1])
    <3>1. kept[i] = kept[i - 1]
      BY <1>10, <2>4
    <3> QED BY <2>1, <2>3, <2>4, <3>1
  <2>5. CASE group[i] \notin ToSet(kept[i - 1])
    <3>1. kept[i] = Append(kept[i - 1], group[i])
      BY <1>10, <2>5
    <3>2. kept[i - 1] \in Seq(S) /\ group[i] \in S /\ IsInjective(kept[i - 1])
      BY <1>1, <2>1
    <3>3. /\ kept[i] \in Seq(S) /\ ToSet(kept[i]) = ToSet(kept[i - 1]) \cup {group[i]} /\ IsInjective(kept[i])
      BY <2>5, <3>1, <3>2, AppendedList
    <3> QED BY <2>1, <2>3, <3>3
  <2> QED BY <2>4, <2>5
<1>9. Sofar(n)
  <2> HIDE DEF Sofar
  <2>1. 0..n \subseteq T
    BY <1>1, <1>7, <1>8, CountingUp
  <2> QED BY <1>1, <2>1
<1> QED BY <1>1, <1>2, <1>9 DEF ToSet

-----------------------------------------------------------------------------
(***************************************************************************)
(* Groups that merge groups                                                *)
(***************************************************************************)
LEMMA MergedGroups ==
  ASSUME NEW g \in KeyGroups
  PROVE  /\ DOMAIN g.merge = 1..Len(g.merge) /\ Len(g.merge) \in Nat
         /\ \A i \in DOMAIN g.merge : g.merge[i] \in KeyGroups /\ g.merge[i] \in ToSet(g.merge)
<1>1. g.merge \in Seq(KeyGroups)
  BY SettingsAssumption
<1>2. DOMAIN g.merge = 1..Len(g.merge) /\ Len(g.merge) \in Nat
  BY <1>1, LenProperties
<1>3. \A i \in DOMAIN g.merge : g.merge[i] \in KeyGroups
  BY <1>1, <1>2, ElementOfSeq
<1> QED BY <1>2, <1>3 DEF ToSet

\* What holds of a group when it holds of all that it merges.
LEMMA FromMergedGroups ==
  ASSUME NEW T, \A g \in KeyGroups : (\A i \in DOMAIN g.merge : g.merge[i] \in T) => g \in T
  PROVE  KeyGroups \subseteq T
<1> DEFINE missing == KeyGroups \ T
<1>1. ASSUME missing # {} PROVE FALSE
  <2>1. PICK g \in missing : ToSet(g.merge) \cap missing = {}
    BY <1>1, SettingsAssumption
  <2>2. \A i \in DOMAIN g.merge : g.merge[i] \in T
    BY <2>1, MergedGroups
  <2> QED BY <2>1, <2>2
<1> QED BY <1>1

\* A function on the groups is given by what it makes of the values for the groups merged: of the
\* sets of groups that it is defined on none is the largest but that of all.
FromMerged(f, g) == [i \in DOMAIN g.merge |-> f[g.merge[i]]]

LEMMA GroupRecursion ==
  ASSUME NEW V, NEW build \in [KeyGroups -> [Seq(V) -> V]]
  PROVE  \E f \in [KeyGroups -> V] : \A g \in KeyGroups : f[g] = build[g][FromMerged(f, g)]
<1> DEFINE Solves(f, D) == /\ f \in [D -> V]
                           /\ \A g \in D : ToSet(g.merge) \subseteq D /\ f[g] = build[g][FromMerged(f, g)]
           done == {D \in SUBSET KeyGroups : \E f : Solves(f, D)}
           rest == {KeyGroups \ D : D \in done}
<1>1. rest # {} /\ rest \subseteq SUBSET KeyGroups
  <2>1. Solves([g \in {} |-> g], {})
    OBVIOUS
  <2>2. {} \in done
    <3> HIDE DEF Solves
    <3> QED BY <2>1
  <2> HIDE DEF Solves
  <2> QED BY <2>2
<1>2. PICK x \in rest : \A y \in rest : <<y, x>> \notin StrictSubsetOrdering(KeyGroups)
  <2>1. IsWellFoundedOn(StrictSubsetOrdering(KeyGroups), SUBSET KeyGroups)
    <3>1. IsFiniteSet(KeyGroups)
      BY SettingsAssumption
    <3> QED BY <3>1, FS_StrictSubsetOrderingWellFounded, FS_FiniteSubsetsOfFinite
  <2> HIDE DEF rest
  <2> QED BY <1>1, <2>1, WFMin
<1>3. PICK D \in done : x = KeyGroups \ D
  OBVIOUS
<1>4. PICK f : Solves(f, D)
  OBVIOUS
<1>5. D \subseteq KeyGroups
  OBVIOUS
<1>6. ASSUME NEW g \in KeyGroups \ D, ToSet(g.merge) \cap (KeyGroups \ D) = {} PROVE FALSE
  <2> DEFINE E == D \cup {g}
             h == [e \in E |-> IF e = g THEN build[g][FromMerged(f, g)] ELSE f[e]]
  <2>1. /\ DOMAIN g.merge = 1..Len(g.merge) /\ Len(g.merge) \in Nat
        /\ \A i \in DOMAIN g.merge : g.merge[i] \in D
    BY <1>6, MergedGroups
  <2>2. FromMerged(f, g) \in Seq(V)
    <3>1. f \in [D -> V]
      BY <1>4
    <3> HIDE DEF Solves, done
    <3>2. FromMerged(f, g) \in [1..Len(g.merge) -> V]
      BY <2>1, <3>1 DEF FromMerged
    <3> DEFINE merged == FromMerged(f, g)
               m == Len(g.merge)
    <3>3. m \in Nat /\ merged \in [1..m -> V]
      BY <2>1, <3>2
    <3> HIDE DEF merged, m
    <3>4. merged \in Seq(V)
      BY <3>3, SeqDef
    <3> QED BY <3>4 DEF merged
  <2>3. build[g][FromMerged(f, g)] \in V
    BY <2>2
  <2>4. h \in [E -> V]
    BY <1>4, <2>3
  <2>5. \A d \in D : ToSet(d.merge) \subseteq D /\ \A i \in DOMAIN d.merge : d.merge[i] \in D
    BY <1>4 DEF ToSet
  <2>6. h[g] = build[g][FromMerged(f, g)] /\ \A d \in D : h[d] = f[d]
    BY <1>6
  <2>7. FromMerged(h, g) = FromMerged(f, g) /\ \A d \in D : FromMerged(h, d) = FromMerged(f, d)
    <3> HIDE DEF h
    <3> QED BY <2>1, <2>5, <2>6 DEF FromMerged
  <2>8. ToSet(g.merge) \subseteq D
    BY <2>1 DEF ToSet
  <2>9. Solves(h, E)
    <3> HIDE DEF h
    <3> QED BY <1>4, <2>4, <2>5, <2>6, <2>7, <2>8
  <2> HIDE DEF Solves, h
  <2>10. KeyGroups \ E \in rest
    BY <1>5, <1>6, <2>9
  <2>11. KeyGroups \ E \subseteq x /\ KeyGroups \ E # x
    BY <1>3, <1>6
  <2> QED BY <1>2, <2>10, <2>11, <1>1 DEF StrictSubsetOrdering
<1>7. D = KeyGroups
  <2> HIDE DEF Solves, done
  <2> QED BY <1>5, <1>6, SettingsAssumption
<1> QED BY <1>4, <1>7

\* The recursive definitions define.
LEMMA KeysOfGroups ==
  ASSUME NEW g \in KeyGroups
  PROVE  KeysOf[g] = ToSet(g.keys) \cup UNION {KeysOf[g.merge[i]] : i \in DOMAIN g.merge}
<1> DEFINE V == SUBSET MasterKeys
           build == [h \in KeyGroups |-> [sets \in Seq(V) |->
                       ToSet(h.keys) \cup UNION {sets[i] : i \in DOMAIN sets}]]
<1>1. build \in [KeyGroups -> [Seq(V) -> V]]
  <2> SUFFICES ASSUME NEW h \in KeyGroups, NEW sets \in Seq(V)
               PROVE  ToSet(h.keys) \cup UNION {sets[i] : i \in DOMAIN sets} \subseteq MasterKeys
    OBVIOUS
  <2>1. h.keys \in Seq(MasterKeys)
    BY SettingsAssumption
  <2>2. ToSet(h.keys) \subseteq MasterKeys
    BY <2>1, LenProperties, ElementOfSeq DEF ToSet
  <2>3. \A i \in DOMAIN sets : sets[i] \in V
    BY LenProperties, ElementOfSeq
  <2> QED BY <2>2, <2>3
<1>2. PICK f \in [KeyGroups -> V] : \A h \in KeyGroups : f[h] = build[h][FromMerged(f, h)]
  <2> HIDE DEF build, V
  <2> QED BY <1>1, GroupRecursion
<1>3. ASSUME NEW h \in KeyGroups
      PROVE  f[h] = ToSet(h.keys) \cup UNION {f[h.merge[i]] : i \in DOMAIN h.merge}
  <2>1. DOMAIN h.merge = 1..Len(h.merge) /\ Len(h.merge) \in Nat /\ \A i \in DOMAIN h.merge : h.merge[i] \in KeyGroups
    BY MergedGroups
  <2>2. FromMerged(f, h) \in [1..Len(h.merge) -> V]
    <3> HIDE DEF V
    <3> QED BY <2>1 DEF FromMerged
  <2>3. FromMerged(f, h) \in Seq(V)
    <3> HIDE DEF V
    <3> QED BY <2>1, <2>2, SeqDef
  <2>4. f[h] = ToSet(h.keys) \cup UNION {FromMerged(f, h)[i] : i \in DOMAIN FromMerged(f, h)}
    <3> HIDE DEF V
    <3> QED BY <1>2, <2>3
  <2> QED BY <2>4 DEF FromMerged
<1>4. f = [h \in KeyGroups |-> ToSet(h.keys) \cup UNION {f[h.merge[i]] : i \in DOMAIN h.merge}]
  BY <1>3
<1>5. KeysOf = [h \in KeyGroups |-> ToSet(h.keys) \cup UNION {KeysOf[h.merge[i]] : i \in DOMAIN h.merge}]
  <2> HIDE DEF build, V
  <2> QED BY <1>4 DEF KeysOf
<1> QED BY <1>5

LEMMA ExtractedGroups ==
  /\ extractMasterKeys \in [KeyGroups -> Seq(MasterKeys)]
  /\ \A g \in KeyGroups :
       extractMasterKeys[g] = deduplicateKeygroup(FlattenSeq(FromMerged(extractMasterKeys, g))
                                                  \o InOrder(g.keys, RuleOrder))
<1> DEFINE V == Seq(MasterKeys)
           build == [h \in KeyGroups |-> [lists \in Seq(V) |->
                       deduplicateKeygroup(FlattenSeq(lists) \o InOrder(h.keys, RuleOrder))]]
<1>1. build \in [KeyGroups -> [Seq(V) -> V]]
  <2> SUFFICES ASSUME NEW h \in KeyGroups, NEW lists \in Seq(V)
               PROVE  deduplicateKeygroup(FlattenSeq(lists) \o InOrder(h.keys, RuleOrder)) \in V
    OBVIOUS
  <2>1. h.keys \in Seq(MasterKeys)
    BY SettingsAssumption
  <2>2. InOrder(h.keys, RuleOrder) \in Seq(MasterKeys) /\ FlattenSeq(lists) \in Seq(MasterKeys)
    BY <2>1, OrderedByType, FlattenedList
  <2>3. FlattenSeq(lists) \o InOrder(h.keys, RuleOrder) \in Seq(MasterKeys)
    BY <2>2, ConcatenatedList
  <2> QED BY <2>3, Deduplicated
<1>2. PICK f \in [KeyGroups -> V] : \A h \in KeyGroups : f[h] = build[h][FromMerged(f, h)]
  <2> HIDE DEF build, V
  <2> QED BY <1>1, GroupRecursion
<1>3. ASSUME NEW h \in KeyGroups
      PROVE  f[h] = deduplicateKeygroup(FlattenSeq(FromMerged(f, h)) \o InOrder(h.keys, RuleOrder))
  <2>1. DOMAIN h.merge = 1..Len(h.merge) /\ Len(h.merge) \in Nat /\ \A i \in DOMAIN h.merge : h.merge[i] \in KeyGroups
    BY MergedGroups
  <2>2. FromMerged(f, h) \in [1..Len(h.merge) -> V]
    <3> HIDE DEF V
    <3> QED BY <2>1 DEF FromMerged
  <2>3. FromMerged(f, h) \in Seq(V)
    <3> HIDE DEF V
    <3> QED BY <2>1, <2>2, SeqDef
  <2> HIDE DEF V
  <2> QED BY <1>2, <2>3
<1>4. f = [h \in KeyGroups |-> deduplicateKeygroup(FlattenSeq([i \in DOMAIN h.merge |-> f[h.merge[i]]])
                                                    \o InOrder(h.keys, RuleOrder))]
  BY <1>3 DEF FromMerged
<1>5. extractMasterKeys
        = [h \in KeyGroups |-> deduplicateKeygroup(FlattenSeq([i \in DOMAIN h.merge |-> extractMasterKeys[h.merge[i]]])
                                                    \o InOrder(h.keys, RuleOrder))]
  <2> HIDE DEF build, V
  <2> QED BY <1>4 DEF extractMasterKeys
<1>6. \A g \in KeyGroups :
       extractMasterKeys[g] = deduplicateKeygroup(FlattenSeq(FromMerged(extractMasterKeys, g))
                                                  \o InOrder(g.keys, RuleOrder))
  BY <1>5 DEF FromMerged
<1> DEFINE T == {g \in KeyGroups : extractMasterKeys[g] \in V}
<1>7. ASSUME NEW g \in KeyGroups, \A i \in DOMAIN g.merge : g.merge[i] \in T PROVE g \in T
  <2>1. DOMAIN g.merge = 1..Len(g.merge) /\ Len(g.merge) \in Nat
    BY MergedGroups
  <2>2. FromMerged(extractMasterKeys, g) \in [1..Len(g.merge) -> V]
    <3> HIDE DEF V
    <3> QED BY <1>7, <2>1 DEF FromMerged
  <2>3. FromMerged(extractMasterKeys, g) \in Seq(V)
    <3> HIDE DEF V
    <3> QED BY <2>1, <2>2, SeqDef
  <2>4. build[g][FromMerged(extractMasterKeys, g)] \in V
    <3> HIDE DEF V, build
    <3> QED BY <1>1, <2>3
  <2> HIDE DEF V
  <2> QED BY <1>6, <2>3, <2>4
<1>8. KeyGroups \subseteq T
  <2> HIDE DEF T
  <2> QED BY <1>7, FromMergedGroups
<1>9. DOMAIN extractMasterKeys = KeyGroups
  <2> DEFINE e == extractMasterKeys
  <2>1. e = [h \in KeyGroups |-> deduplicateKeygroup(FlattenSeq([i \in DOMAIN h.merge |-> e[h.merge[i]]])
                                                    \o InOrder(h.keys, RuleOrder))]
    BY <1>5
  <2> HIDE DEF e
  <2>2. DOMAIN e = KeyGroups
    BY <2>1
  <2> QED BY <2>2 DEF e
<1> HIDE DEF V
<1>10. extractMasterKeys \in [KeyGroups -> V]
  BY <1>5, <1>8
<1> QED BY <1>6, <1>10 DEF V

\* So a group has the keys that are meant, each of them once.
LEMMA GroupsHaveTheirKeys ==
  ASSUME NEW g \in KeyGroups
  PROVE  ToSet(extractMasterKeys[g]) = KeysOf[g] /\ IsInjective(extractMasterKeys[g])
<1> DEFINE T == {h \in KeyGroups : ToSet(extractMasterKeys[h]) = KeysOf[h]}
           all(h) == FlattenSeq(FromMerged(extractMasterKeys, h)) \o InOrder(h.keys, RuleOrder)
<1>1. ASSUME NEW h \in KeyGroups
      PROVE  /\ all(h) \in Seq(MasterKeys) /\ extractMasterKeys[h] = deduplicateKeygroup(all(h))
             /\ ToSet(all(h)) = ToSet(h.keys) \cup UNION {ToSet(extractMasterKeys[h.merge[i]]) : i \in DOMAIN h.merge}
  <2> DEFINE lists == FromMerged(extractMasterKeys, h)
             V == Seq(MasterKeys)
  <2>1. DOMAIN h.merge = 1..Len(h.merge) /\ Len(h.merge) \in Nat /\ \A i \in DOMAIN h.merge : h.merge[i] \in KeyGroups
    BY MergedGroups
  <2>2. lists \in [1..Len(h.merge) -> V]
    <3>1. extractMasterKeys \in [KeyGroups -> V]
      BY ExtractedGroups
    <3> HIDE DEF V
    <3> QED BY <2>1, <3>1 DEF FromMerged
  <2>3. lists \in Seq(V)
    <3> HIDE DEF V, lists
    <3> QED BY <2>1, <2>2, SeqDef
  <2>4. h.keys \in Seq(MasterKeys)
    BY SettingsAssumption
  <2>5. InOrder(h.keys, RuleOrder) \in Seq(MasterKeys) /\ ToSet(InOrder(h.keys, RuleOrder)) = ToSet(h.keys)
    BY <2>4, OrderedByType
  <2>6. /\ FlattenSeq(lists) \in Seq(MasterKeys)
        /\ ToSet(FlattenSeq(lists)) = UNION {ToSet(lists[i]) : i \in DOMAIN lists}
    <3> HIDE DEF lists
    <3> QED BY <2>3, FlattenedList
  <2>7. UNION {ToSet(lists[i]) : i \in DOMAIN lists}
          = UNION {ToSet(extractMasterKeys[h.merge[i]]) : i \in DOMAIN h.merge}
    BY DEF FromMerged
  <2>8. /\ all(h) \in Seq(MasterKeys)
        /\ ToSet(all(h)) = ToSet(FlattenSeq(lists)) \cup ToSet(InOrder(h.keys, RuleOrder))
    <3> HIDE DEF lists
    <3> QED BY <2>5, <2>6, ConcatenatedList DEF lists
  <2> QED BY <2>5, <2>6, <2>7, <2>8, ExtractedGroups
<1>2. ASSUME NEW h \in KeyGroups
      PROVE  /\ ToSet(extractMasterKeys[h])
                  = ToSet(h.keys) \cup UNION {ToSet(extractMasterKeys[h.merge[i]]) : i \in DOMAIN h.merge}
             /\ IsInjective(extractMasterKeys[h])
  <2> HIDE DEF all
  <2> QED BY <1>1, Deduplicated
<1>3. ASSUME NEW h \in KeyGroups, \A i \in DOMAIN h.merge : h.merge[i] \in T PROVE h \in T
  <2>1. {ToSet(extractMasterKeys[h.merge[i]]) : i \in DOMAIN h.merge} = {KeysOf[h.merge[i]] : i \in DOMAIN h.merge}
    BY <1>3
  <2> QED BY <1>2, <2>1, KeysOfGroups
<1>4. KeyGroups \subseteq T
  <2> HIDE DEF T
  <2> QED BY <1>3, FromMergedGroups
<1> QED BY <1>2, <1>4

-----------------------------------------------------------------------------
(***************************************************************************)
(* Removing keys                                                           *)
(***************************************************************************)
\* Lists are functions.
LEMMA ListOfValues ==
  ASSUME NEW S, NEW n \in Nat, NEW s \in [1..n -> S]
  PROVE  s \in Seq(S) /\ Len(s) = n /\ DOMAIN s = 1..n
<1>1. s \in Seq(S)
  BY SeqDef
<1> QED BY <1>1, LenProperties

\* The first keys of a list.
LEMMA FirstOfList ==
  ASSUME NEW S, NEW n \in Nat, NEW s \in [1..n -> S], NEW m \in 0..n
  PROVE  /\ SubSeq(s, 1, m) \in Seq(S)
         /\ \A x : x \in ToSet(SubSeq(s, 1, m)) <=> \E i \in 1..m : s[i] = x
         /\ (\A i, j \in 1..m : s[i] = s[j] => i = j) => IsInjective(SubSeq(s, 1, m))
<1>1. s \in Seq(S) /\ Len(s) = n /\ DOMAIN s = 1..n
  BY ListOfValues
<1>2. /\ SubSeq(s, 1, m) \in Seq(S) /\ Len(SubSeq(s, 1, m)) = m
      /\ \A i \in 1..m : SubSeq(s, 1, m)[i] = s[i]
  BY <1>1, SubSeqProperties
<1>3. DOMAIN SubSeq(s, 1, m) = 1..m
  BY <1>2, LenProperties
<1> QED BY <1>2, <1>3 DEF ToSet, IsInjective

\* What stands where while the array is scanned.  Without repeated keys, the one that is
\* removed is left out, and the last one stands twice.
LEMMA RemovedKey ==
  ASSUME NEW group \in Seq(MasterKeys), NEW key
  PROVE  LET r == RemoveMasterKey(group, key) IN
           /\ r.ok \in BOOLEAN /\ r.keys \in Seq(MasterKeys)
           /\ r.ok => ToSet(group) \ {key} \subseteq ToSet(r.keys) /\ ToSet(r.keys) \subseteq ToSet(group)
           /\ IsInjective(group) =>
                r.ok /\ ToSet(r.keys) = ToSet(group) \ {key} /\ IsInjective(r.keys)
<1> DEFINE n == Len(group)
           start == [array |-> group, size |-> Len(group), ok |-> TRUE]
           scan == CHOOSE scan : scan = [j \in 0..n |->
                     IF j = 0 THEN start
                     ELSE IF scan[j - 1].ok /\ scan[j - 1].array[j] = key THEN Cut(scan[j - 1], j) ELSE scan[j - 1]]
           W == [array : [1..n -> MasterKeys], size : Int, ok : BOOLEAN]
           States == {w \in W : w.ok => w.size \in 0..n}
           next == [j \in 1..n |-> [w \in States |->
                     IF w.ok /\ w.array[j] = key THEN Cut(w, j) ELSE w]]
<1>1. n \in Nat /\ DOMAIN group = 1..n /\ group \in [1..n -> MasterKeys]
  BY LenProperties
<1>2. RemoveMasterKey(group, key)
        = [ok |-> scan[n].ok,
           keys |-> IF scan[n].ok THEN SubSeq(scan[n].array, 1, scan[n].size) ELSE <<>>]
  BY DEF RemoveMasterKey
<1>3. start \in States
  BY <1>1
<1> HIDE DEF n
<1>4. ASSUME NEW j \in 1..n, NEW w \in States, w.ok
      PROVE  /\ Cut(w, j) \in States
             /\ Cut(w, j).size = w.size - 1 /\ (Cut(w, j).ok <=> j <= w.size)
             /\ \A i \in 1..n : Cut(w, j).array[i] = IF i \in j..(w.size - 1) THEN w.array[i + 1] ELSE w.array[i]
  <2>1. w.size \in 0..n /\ w.array \in [1..n -> MasterKeys]
    BY <1>4
  <2>2. \A i \in j..(w.size - 1) : i + 1 \in 1..n
    BY <1>1, <2>1
  <2> DEFINE array == [i \in DOMAIN w.array |-> IF i \in j..(w.size - 1) THEN w.array[i + 1] ELSE w.array[i]]
  <2>3. array \in [1..n -> MasterKeys]
    BY <2>1, <2>2
  <2>4. Cut(w, j) = [array |-> array, size |-> w.size - 1, ok |-> j <= w.size]
    BY DEF Cut
  <2>5. \A i \in 1..n : array[i] = IF i \in j..(w.size - 1) THEN w.array[i + 1] ELSE w.array[i]
    BY <2>1
  <2> HIDE DEF array
  <2>6. /\ Cut(w, j).array = array /\ Cut(w, j).size = w.size - 1 /\ Cut(w, j).ok = (j <= w.size)
        /\ Cut(w, j) \in W
    BY <2>1, <2>3, <2>4
  <2>7. j <= w.size => w.size - 1 \in 0..n
    BY <1>1, <2>1
  <2> QED BY <2>5, <2>6, <2>7
<1>5. next \in [1..n -> [States -> States]]
  <2> HIDE DEF States
  <2> QED BY <1>4
<1>6. PICK f \in [0..n -> States] : Recursive(f, n, start, next)
  <2> HIDE DEF next, States, start
  <2> QED BY <1>1, <1>3, <1>5, RecursionUp
<1>7. scan = [j \in 0..n |->
                IF j = 0 THEN start
                ELSE IF scan[j - 1].ok /\ scan[j - 1].array[j] = key THEN Cut(scan[j - 1], j) ELSE scan[j - 1]]
  <2> HIDE DEF start, States
  <2>1. \A j \in 0..n : f[j] = IF j = 0 THEN start
                ELSE IF f[j - 1].ok /\ f[j - 1].array[j] = key THEN Cut(f[j - 1], j) ELSE f[j - 1]
    <3>1. f[0] = start
      BY <1>6 DEF Recursive
    <3>2. ASSUME NEW j \in 1..n
          PROVE  f[j] = IF f[j - 1].ok /\ f[j - 1].array[j] = key THEN Cut(f[j - 1], j) ELSE f[j - 1]
      <4>1. f[j - 1] \in States
        BY <1>1
      <4> QED BY <1>6, <4>1 DEF Recursive
    <3>3. 0 \notin 1..n /\ \A j \in 0..n : j = 0 \/ j \in 1..n
      BY <1>1
    <3> QED BY <3>1, <3>2, <3>3
  <2>2. f = [j \in 0..n |->
                IF j = 0 THEN start
                ELSE IF f[j - 1].ok /\ f[j - 1].array[j] = key THEN Cut(f[j - 1], j) ELSE f[j - 1]]
    BY <2>1
  <2> QED BY <2>2
<1> HIDE DEF scan
<1>8. scan[0] = start /\ \A j \in 1..n :
        scan[j] = IF scan[j - 1].ok /\ scan[j - 1].array[j] = key THEN Cut(scan[j - 1], j) ELSE scan[j - 1]
  <2> HIDE DEF start
  <2>1. 0 \in 0..n /\ \A j \in 1..n : j # 0 /\ j \in 0..n
    BY <1>1
  <2> QED BY <1>7, <2>1
<1>9. \A j \in 0..n : scan[j] \in States
  <2> HIDE DEF States, start
  <2>1. \A j \in 1..n : scan[j - 1] \in States => scan[j] \in States
    BY <1>4, <1>8
  <2> QED BY <1>1, <1>3, <1>8, <2>1, RecursionStays
<1> DEFINE Some(w) == w.ok =>
             /\ \A i \in 1..w.size : w.array[i] \in ToSet(group)
             /\ \A x \in ToSet(group) \ {key} : \E i \in 1..w.size : w.array[i] = x
           Without(w, p) == /\ group[p] = key /\ w.size = n - 1 /\ w.array[n] = group[n]
                            /\ \A i \in 1..(n - 1) : w.array[i] = group[IF i < p THEN i ELSE i + 1]
           All(w, j) == w.ok /\ \/ w = start /\ \A i \in 1..j : group[i] # key
                                \/ \E p \in 1..j : Without(w, p)
<1>10. Some(scan[n])
  <2> DEFINE T == {j \in 0..n : Some(scan[j])}
  <2>1. 0 \in T
    BY <1>1, <1>8 DEF ToSet, n
  <2>2. ASSUME NEW j \in 1..n, j - 1 \in T PROVE j \in T
    <3> DEFINE w == scan[j - 1]
    <3>1. w \in States /\ j \in 0..n /\ Some(w)
      BY <1>1, <1>9, <2>2
    <3>2. CASE ~(w.ok /\ w.array[j] = key)
      BY <1>8, <3>1, <3>2
    <3>3. CASE w.ok /\ w.array[j] = key
      <4>1. scan[j] = Cut(w, j)
        BY <1>8, <3>3
      <4> HIDE DEF w, States
      <4>2. /\ Cut(w, j).size = w.size - 1 /\ (Cut(w, j).ok <=> j <= w.size)
            /\ \A i \in 1..n : Cut(w, j).array[i] = IF i \in j..(w.size - 1) THEN w.array[i + 1] ELSE w.array[i]
        BY <1>4, <3>1, <3>3
      <4>3. w.size \in 0..n
        BY <3>1, <3>3 DEF States
      <4>4. ASSUME j <= w.size PROVE Some(Cut(w, j))
        <5>1. \A i \in 1..(w.size - 1) : Cut(w, j).array[i] \in ToSet(group)
          BY <1>1, <3>1, <3>3, <4>2, <4>3
        <5>2. ASSUME NEW x \in ToSet(group) \ {key} PROVE \E i \in 1..(w.size - 1) : Cut(w, j).array[i] = x
          <6>1. PICK i \in 1..w.size : w.array[i] = x
            BY <3>1, <3>3
          <6>2. i # j
            BY <3>3, <6>1
          <6>3. CASE i < j
            BY <1>1, <4>2, <4>3, <4>4, <6>1, <6>3
          <6>4. CASE i > j
            <7>1. i - 1 \in j..(w.size - 1) /\ i - 1 \in 1..n /\ i - 1 \in 1..(w.size - 1) /\ (i - 1) + 1 = i
              BY <1>1, <4>3, <6>4
            <7> QED BY <4>2, <6>1, <7>1
          <6> QED BY <1>1, <6>2, <6>3, <6>4
        <5> QED BY <4>2, <5>1, <5>2
      <4>5. Some(scan[j])
        BY <4>1, <4>2, <4>4
      <4> HIDE DEF Some
      <4> QED BY <3>1, <4>5
    <3> QED BY <3>2, <3>3
  <2> HIDE DEF Some
  <2>3. 0..n \subseteq T
    <3> HIDE DEF T
    <3> QED BY <1>1, <2>1, <2>2, CountingUp
  <2> QED BY <1>1, <2>3
<1>11. ASSUME IsInjective(group) PROVE All(scan[n], n)
  <2> DEFINE T == {j \in 0..n : All(scan[j], j)}
  <2>0. \A i, k \in 1..n : group[i] = group[k] => i = k
    BY <1>1, <1>11 DEF IsInjective
  <2>1. 0 \in T
    <3>1. start.ok /\ 1..0 = {} /\ 0 \in 0..n
      BY <1>1
    <3> HIDE DEF start
    <3> QED BY <1>8, <3>1
  <2>2. ASSUME NEW j \in 1..n, j - 1 \in T PROVE j \in T
    <3> DEFINE w == scan[j - 1]
    <3>1. w \in States /\ j \in 0..n /\ All(w, j - 1)
      BY <1>1, <1>9, <2>2
    <3>2. CASE w = start /\ \A i \in 1..(j - 1) : group[i] # key
      <4>1. w.ok /\ w.size = n /\ w.array = group
        BY <3>2 DEF n
      <4>2. CASE group[j] # key
        <5>1. scan[j] = w
          BY <1>8, <4>1, <4>2
        <5>2. \A i \in 1..j : group[i] # key
          <6>1. \A i \in 1..j : i = j \/ i \in 1..(j - 1)
            BY <1>1
          <6> QED BY <3>2, <4>2, <6>1
        <5> HIDE DEF start
        <5> QED BY <3>1, <3>2, <5>1, <5>2
      <4>3. CASE group[j] = key
        <5>1. scan[j] = Cut(w, j)
          BY <1>8, <4>1, <4>3
        <5> HIDE DEF w, start, States
        <5>2. /\ Cut(w, j).size = n - 1 /\ Cut(w, j).ok
              /\ \A i \in 1..n : Cut(w, j).array[i] = IF i \in j..(n - 1) THEN group[i + 1] ELSE group[i]
          BY <1>1, <1>4, <3>1, <4>1
        <5>3. \A i \in 1..(n - 1) : i \in 1..n /\ (i \in j..(n - 1) <=> ~(i < j))
          BY <1>1
        <5>4. \A i \in 1..(n - 1) : Cut(w, j).array[i] = group[IF i < j THEN i ELSE i + 1]
          BY <5>2, <5>3
        <5>5. n \in 1..n /\ n \notin j..(n - 1)
          BY <1>1
        <5>6. Cut(w, j).array[n] = group[n]
          BY <5>2, <5>5
        <5>7. Without(Cut(w, j), j) /\ j \in 1..j
          BY <1>1, <4>3, <5>2, <5>4, <5>6
        <5> HIDE DEF Without
        <5> QED BY <3>1, <5>1, <5>2, <5>7
      <4> QED BY <4>2, <4>3
    <3>3. CASE \E p \in 1..(j - 1) : Without(w, p)
      <4>1. PICK p \in 1..(j - 1) : Without(w, p)
        BY <3>3
      <4>2. w.array[j] # key
        <5>1. CASE j = n
          <6>1. n # p /\ n \in 1..n /\ p \in 1..n
            BY <1>1, <5>1
          <6> QED BY <2>0, <4>1, <5>1, <6>1
        <5>2. CASE j # n
          <6>1. j \in 1..(n - 1) /\ ~(j < p) /\ j + 1 # p /\ j + 1 \in 1..n /\ p \in 1..n
            BY <1>1, <5>2
          <6> QED BY <2>0, <4>1, <6>1
        <5> QED BY <5>1, <5>2
      <4>3. scan[j] = w
        BY <1>8, <4>2
      <4>4. p \in 1..j
        BY <1>1
      <4> HIDE DEF Without, w
      <4> QED BY <3>1, <4>1, <4>3, <4>4 DEF w
    <3> HIDE DEF Without, start, w
    <3> QED BY <3>1, <3>2, <3>3
  <2> HIDE DEF All
  <2>3. 0..n \subseteq T
    <3> HIDE DEF T
    <3> QED BY <1>1, <2>1, <2>2, CountingUp
  <2> QED BY <1>1, <2>3
<1> DEFINE end == scan[n]
           keys == SubSeq(end.array, 1, end.size)
<1>12. end.ok \in BOOLEAN /\ end.array \in [1..n -> MasterKeys] /\ (end.ok => end.size \in 0..n)
  BY <1>1, <1>9
<1>13. ASSUME NEW array \in [1..n -> MasterKeys], NEW size \in 0..n
       PROVE  /\ SubSeq(array, 1, size) \in Seq(MasterKeys)
              /\ \A x : x \in ToSet(SubSeq(array, 1, size)) <=> \E i \in 1..size : array[i] = x
              /\ (\A i, k \in 1..size : array[i] = array[k] => i = k) => IsInjective(SubSeq(array, 1, size))
  <2> HIDE DEF n
  <2> QED BY <1>1, FirstOfList
<1>14. end.ok => /\ keys \in Seq(MasterKeys)
                  /\ \A x : x \in ToSet(keys) <=> \E i \in 1..end.size : end.array[i] = x
  <2> HIDE DEF end, n
  <2> QED BY <1>12, <1>13
<1>15. end.ok => ToSet(group) \ {key} \subseteq ToSet(keys) /\ ToSet(keys) \subseteq ToSet(group)
  BY <1>10, <1>14
<1>16. ASSUME IsInjective(group)
       PROVE  end.ok /\ ToSet(keys) = ToSet(group) \ {key} /\ IsInjective(keys)
  <2>0. \A i, k \in 1..n : group[i] = group[k] => i = k
    BY <1>1, <1>16 DEF IsInjective
  <2>1. All(end, n)
    BY <1>11, <1>16
  <2>2. CASE end = start /\ \A i \in 1..n : group[i] # key
    <3>1. end.size = n /\ end.array = group /\ end.ok
      BY <2>2 DEF n
    <3>2. ToSet(group) = {group[i] : i \in 1..n}
      BY <1>1 DEF ToSet
    <3>3. IsInjective(keys)
      BY <1>12, <1>13, <2>0, <3>1
    <3> QED BY <1>14, <2>2, <3>1, <3>2, <3>3
  <2>3. CASE \E p \in 1..n : Without(end, p)
    <3>1. PICK p \in 1..n : Without(end, p)
      BY <2>3
    <3>2. end.ok /\ end.size = n - 1
      BY <2>1, <3>1
    <3> HIDE DEF end
    <3>3. \A i, k \in 1..(n - 1) : end.array[i] = end.array[k] => i = k
      <4> SUFFICES ASSUME NEW i \in 1..(n - 1), NEW k \in 1..(n - 1), end.array[i] = end.array[k] PROVE i = k
        OBVIOUS
      <4>1. /\ (IF i < p THEN i ELSE i + 1) \in 1..n /\ (IF k < p THEN k ELSE k + 1) \in 1..n
            /\ ((IF i < p THEN i ELSE i + 1) = (IF k < p THEN k ELSE k + 1) => i = k)
        BY <1>1
      <4> QED BY <2>0, <3>1, <4>1
    <3>4. IsInjective(keys)
      BY <1>12, <1>13, <3>2, <3>3
    <3>5. ToSet(group) = {group[i] : i \in 1..n}
      BY <1>1 DEF ToSet
    <3>6. \A i \in 1..(n - 1) : end.array[i] # key
      <4> SUFFICES ASSUME NEW i \in 1..(n - 1) PROVE end.array[i] # key
        OBVIOUS
      <4>1. (IF i < p THEN i ELSE i + 1) \in 1..n /\ (IF i < p THEN i ELSE i + 1) # p
        BY <1>1
      <4> QED BY <2>0, <3>1, <4>1
    <3> QED BY <1>14, <1>15, <3>2, <3>4, <3>6
  <2> HIDE DEF Without, end, keys, start
  <2> QED BY <2>1, <2>2, <2>3 DEF end
<1> HIDE DEF States, start
<1>17. <<>> \in Seq(MasterKeys)
  BY EmptySeq
<1> QED BY <1>2, <1>12, <1>14, <1>15, <1>16, <1>17

\* What one removal leaves of the groups.
LEMMA RemovedFromGroups ==
  ASSUME NEW groups \in Seq(Seq(MasterKeys)), NEW key
  PROVE  LET r == RemovedFromAll(groups, key) IN
           /\ r = [ok |-> r.ok, groups |-> r.groups] /\ r.ok \in BOOLEAN
           /\ r.groups \in Seq(Seq(MasterKeys)) /\ Len(r.groups) = Len(groups)
           /\ r.ok => \A i \in DOMAIN groups :
                        /\ ToSet(groups[i]) \ {key} \subseteq ToSet(r.groups[i])
                        /\ ToSet(r.groups[i]) \subseteq ToSet(groups[i])
           /\ (\A i \in DOMAIN groups : IsInjective(groups[i])) =>
                r.ok /\ \A i \in DOMAIN groups :
                          IsInjective(r.groups[i]) /\ ToSet(r.groups[i]) = ToSet(groups[i]) \ {key}
<1> DEFINE r == RemovedFromAll(groups, key)
           one(i) == RemoveMasterKey(groups[i], key)
<1>1. Len(groups) \in Nat /\ DOMAIN groups = 1..Len(groups) /\ \A i \in DOMAIN groups : groups[i] \in Seq(MasterKeys)
  BY LenProperties, ElementOfSeq
<1>2. \A i \in DOMAIN groups :
        /\ one(i).ok \in BOOLEAN /\ one(i).keys \in Seq(MasterKeys)
        /\ one(i).ok => ToSet(groups[i]) \ {key} \subseteq ToSet(one(i).keys) /\ ToSet(one(i).keys) \subseteq ToSet(groups[i])
        /\ IsInjective(groups[i]) =>
             one(i).ok /\ ToSet(one(i).keys) = ToSet(groups[i]) \ {key} /\ IsInjective(one(i).keys)
  BY <1>1, RemovedKey
<1> HIDE DEF one
<1>3. r = [ok |-> \A i \in DOMAIN groups : one(i).ok, groups |-> [i \in DOMAIN groups |-> one(i).keys]]
  BY DEF RemovedFromAll, one
<1> HIDE DEF r
<1>4. r.groups = [i \in 1..Len(groups) |-> one(i).keys] /\ (r.ok <=> \A i \in DOMAIN groups : one(i).ok) /\ r.ok \in BOOLEAN
  BY <1>1, <1>3
<1>5. r.groups \in Seq(Seq(MasterKeys)) /\ Len(r.groups) = Len(groups)
  <2>1. r.groups \in [1..Len(groups) -> Seq(MasterKeys)]
    BY <1>1, <1>2, <1>4
  <2>2. r.groups \in Seq(Seq(MasterKeys))
    BY <1>1, <2>1, ListOfValues
  <2> QED BY <1>1, <2>1, ListOfValues
<1> QED BY <1>1, <1>2, <1>3, <1>4, <1>5 DEF r

WithAdded(settings, add) == [settings.groups EXCEPT ![1] = @ \o add]

\* What `sops rotate' makes of the groups of a file: it panics only where a key is listed twice,
\* and takes out what it was asked to, but where a key is listed twice.
RotatesWell(settings, add, remove) ==
  LET r == rotate(settings, add, remove)
      given == WithAdded(settings, add)
      once == \A i \in DOMAIN given : IsInjective(given[i])
  IN /\ given \in Seq(Seq(MasterKeys)) /\ Len(given) = Len(settings.groups)
     /\ once => r.ok
     /\ r.ok => /\ r = [settings EXCEPT !.groups = r.groups]
                /\ r.groups \in Seq(Seq(MasterKeys)) /\ Len(r.groups) = Len(given)
                /\ \A i \in DOMAIN given :
                     /\ ToSet(given[i]) \ ToSet(remove) \subseteq ToSet(r.groups[i])
                     /\ ToSet(r.groups[i]) \subseteq ToSet(given[i])
                     /\ once => ToSet(r.groups[i]) = ToSet(given[i]) \ ToSet(remove)

LEMMA RotatedKeys ==
  ASSUME NEW settings, settings.groups \in Seq(Seq(MasterKeys)), settings.groups # <<>>,
         IsSettings(settings), NEW add \in Seq(MasterKeys), NEW remove \in Seq(MasterKeys)
  PROVE  RotatesWell(settings, add, remove)
<1> DEFINE n == Len(remove)
           given == WithAdded(settings, add)
           start == [ok |-> TRUE, groups |-> given]
           once == \A i \in DOMAIN given : IsInjective(given[i])
           removed == CHOOSE removed : removed = [i \in 0..n |->
                        IF i = 0 THEN start
                        ELSE IF removed[i - 1].ok THEN RemovedFromAll(removed[i - 1].groups, remove[i]) ELSE removed[i - 1]]
           States == {w \in [ok : BOOLEAN, groups : Seq(Seq(MasterKeys))] : Len(w.groups) = Len(given)}
           next == [i \in 1..n |-> [w \in States |->
                     IF w.ok THEN RemovedFromAll(w.groups, remove[i]) ELSE w]]
<1>0. DOMAIN remove = 1..n /\ ToSet(remove) = {remove[i] : i \in 1..n}
  BY LenProperties DEF ToSet
<1>1. n \in Nat
  BY LenProperties
<1>2. given \in Seq(Seq(MasterKeys)) /\ Len(given) = Len(settings.groups) /\ DOMAIN given = 1..Len(given)
  <2> DEFINE groups == settings.groups
  <2>1. groups \in Seq(Seq(MasterKeys)) /\ groups # <<>>
    OBVIOUS
  <2> HIDE DEF groups
  <2>2. Len(groups) \in Nat \ {0} /\ DOMAIN groups = 1..Len(groups) /\ groups \in [1..Len(groups) -> Seq(MasterKeys)]
    BY <2>1, LenProperties, EmptySeq
  <2>3. groups[1] \o add \in Seq(MasterKeys)
    <3>1. groups[1] \in Seq(MasterKeys)
      BY <2>2
    <3> QED BY <3>1, ConcatProperties
  <2>4. given = [groups EXCEPT ![1] = groups[1] \o add]
    BY DEF WithAdded, groups
  <2>5. given \in [1..Len(groups) -> Seq(MasterKeys)]
    BY <2>2, <2>3, <2>4
  <2>6. given \in Seq(Seq(MasterKeys))
    BY <2>2, <2>5, ListOfValues
  <2> QED BY <2>2, <2>5, <2>6, ListOfValues DEF groups
<1>3. rotate(settings, add, remove)
        = IF removed[n].ok THEN [settings EXCEPT !.groups = removed[n].groups] ELSE Refused
  BY DEF rotate, WithAdded
<1> HIDE DEF n, given
<1>4. start \in States
  BY <1>2
<1>5. ASSUME NEW i \in 1..n, NEW w \in States PROVE RemovedFromAll(w.groups, remove[i]) \in States
  BY RemovedFromGroups
<1>6. next \in [1..n -> [States -> States]]
  <2> HIDE DEF States
  <2> QED BY <1>5
<1>7. PICK f \in [0..n -> States] : Recursive(f, n, start, next)
  <2> HIDE DEF next, States, start
  <2> QED BY <1>1, <1>4, <1>6, RecursionUp
<1>8. removed = [i \in 0..n |->
                  IF i = 0 THEN start
                  ELSE IF removed[i - 1].ok THEN RemovedFromAll(removed[i - 1].groups, remove[i]) ELSE removed[i - 1]]
  <2> HIDE DEF start, States
  <2>1. \A i \in 0..n : f[i] = IF i = 0 THEN start
                  ELSE IF f[i - 1].ok THEN RemovedFromAll(f[i - 1].groups, remove[i]) ELSE f[i - 1]
    <3>1. f[0] = start
      BY <1>7 DEF Recursive
    <3>2. ASSUME NEW i \in 1..n
          PROVE  f[i] = IF f[i - 1].ok THEN RemovedFromAll(f[i - 1].groups, remove[i]) ELSE f[i - 1]
      <4>1. i - 1 \in 0..n
        BY <1>1
      <4>2. f[i - 1] \in States
        BY <4>1
      <4> QED BY <1>7, <4>2 DEF Recursive
    <3>3. 0 \notin 1..n /\ \A i \in 0..n : i = 0 \/ i \in 1..n
      BY <1>1
    <3> QED BY <3>1, <3>2, <3>3
  <2>2. f = [i \in 0..n |->
                  IF i = 0 THEN start
                  ELSE IF f[i - 1].ok THEN RemovedFromAll(f[i - 1].groups, remove[i]) ELSE f[i - 1]]
    BY <2>1
  <2> QED BY <2>2
<1> HIDE DEF removed
<1>9. removed[0] = start /\ \A i \in 1..n :
        removed[i] = IF removed[i - 1].ok THEN RemovedFromAll(removed[i - 1].groups, remove[i]) ELSE removed[i - 1]
  <2> HIDE DEF start
  <2>1. 0 \in 0..n /\ \A i \in 1..n : i # 0 /\ i \in 0..n
    BY <1>1
  <2> QED BY <1>8, <2>1
<1>10. \A i \in 0..n : removed[i] \in States
  <2> HIDE DEF States, start
  <2>1. ASSUME NEW i \in 1..n, removed[i - 1] \in States PROVE removed[i] \in States
    <3>1. RemovedFromAll(removed[i - 1].groups, remove[i]) \in States
      BY <1>5, <2>1
    <3> QED BY <1>9, <2>1, <3>1
  <2> QED BY <1>1, <1>4, <1>9, <2>1, RecursionStays
<1> DEFINE Out(m) == {remove[k] : k \in 1..m}
           Left(w, m) ==
             /\ w.ok => \A i \in DOMAIN given :
                          /\ ToSet(given[i]) \ Out(m) \subseteq ToSet(w.groups[i])
                          /\ ToSet(w.groups[i]) \subseteq ToSet(given[i])
             /\ once => w.ok /\ \A i \in DOMAIN given :
                                  IsInjective(w.groups[i]) /\ ToSet(w.groups[i]) = ToSet(given[i]) \ Out(m)
           T == {m \in 0..n : Left(removed[m], m)}
<1>11. 0 \in T
  <2>1. Out(0) = {} /\ 0 \in 0..n
    BY <1>1
  <2> HIDE DEF Out
  <2>2. removed[0].ok /\ removed[0].groups = given
    BY <1>9
  <2> HIDE DEF start
  <2> QED BY <2>1, <2>2
<1>12. ASSUME NEW m \in 1..n, m - 1 \in T PROVE m \in T
  <2> DEFINE w == removed[m - 1]
             v == RemovedFromAll(w.groups, remove[m])
  <2>1. m \in 0..n /\ m - 1 \in 0..n /\ Left(w, m - 1) /\ w.groups \in Seq(Seq(MasterKeys)) /\ DOMAIN w.groups = DOMAIN given
    <3>1. m \in 0..n /\ m - 1 \in 0..n /\ Left(w, m - 1) /\ w \in States
      <4> HIDE DEF Left, States
      <4> QED BY <1>1, <1>10, <1>12
    <3>2. w.groups \in Seq(Seq(MasterKeys)) /\ Len(w.groups) = Len(given)
      BY <3>1
    <3> HIDE DEF w, Left, States
    <3> QED BY <1>2, <3>1, <3>2, LenProperties
  <2>2. Out(m) = Out(m - 1) \cup {remove[m]}
    <3>1. 1..m = 1..(m - 1) \cup {m}
      BY <1>1
    <3> QED BY <3>1
  <2> HIDE DEF Out
  <2>3. CASE ~w.ok
    <3>1. removed[m] = w
      BY <1>9, <2>3
    <3> QED BY <2>1, <2>3, <3>1
  <2>4. CASE w.ok
    <3>1. removed[m] = v
      BY <1>9, <2>4
    <3>2. /\ v.ok => \A i \in DOMAIN given :
                        /\ ToSet(w.groups[i]) \ {remove[m]} \subseteq ToSet(v.groups[i])
                        /\ ToSet(v.groups[i]) \subseteq ToSet(w.groups[i])
          /\ (\A i \in DOMAIN given : IsInjective(w.groups[i])) =>
                v.ok /\ \A i \in DOMAIN given :
                          IsInjective(v.groups[i]) /\ ToSet(v.groups[i]) = ToSet(w.groups[i]) \ {remove[m]}
      <4> HIDE DEF w
      <4> QED BY <2>1, RemovedFromGroups
    <3> HIDE DEF w, v, once
    <3>3. Left(v, m)
      BY <2>1, <2>2, <2>4, <3>2
    <3> HIDE DEF Left
    <3> QED BY <2>1, <3>1, <3>3
  <2> QED BY <2>3, <2>4
<1> HIDE DEF Left
<1>13. 0..n \subseteq T
  <2> HIDE DEF T
  <2> QED BY <1>1, <1>11, <1>12, CountingUp
<1>14. Left(removed[n], n) /\ removed[n] \in States
  BY <1>1, <1>10, <1>13
<1>15. ~Refused.ok
  BY DEF Refused
<1>16. DOMAIN settings = {"ok", "selector", "macOnly", "groups", "threshold"} /\ settings.ok
  BY DEF IsSettings, Settled
<1> DEFINE r == rotate(settings, add, remove)
<1>17. CASE ~removed[n].ok
  <2>1. ~r.ok /\ ~once
    BY <1>3, <1>14, <1>15, <1>17 DEF Left
  <2> HIDE DEF r
  <2> QED BY <1>2, <2>1 DEF r, given, RotatesWell
<1>18. CASE removed[n].ok
  <2>1. r = [settings EXCEPT !.groups = removed[n].groups]
    BY <1>3, <1>18
  <2> HIDE DEF r
  <2>2. r.ok /\ r.groups = removed[n].groups
    BY <1>16, <2>1
  <2>3. r = [settings EXCEPT !.groups = r.groups]
    BY <2>1, <2>2
  <2>4. r.groups \in Seq(Seq(MasterKeys)) /\ Len(r.groups) = Len(given)
    BY <1>14, <2>2
  <2>5. Out(n) = ToSet(remove)
    BY <1>0
  <2> HIDE DEF Out, once
  <2>6. \A i \in DOMAIN given :
                            /\ ToSet(given[i]) \ ToSet(remove) \subseteq ToSet(r.groups[i])
                            /\ ToSet(r.groups[i]) \subseteq ToSet(given[i])
                            /\ once => ToSet(r.groups[i]) = ToSet(given[i]) \ ToSet(remove)
    BY <1>14, <1>18, <2>2, <2>5 DEF Left
  <2> QED BY <1>2, <2>2, <2>3, <2>4, <2>6 DEF r, once, given, RotatesWell
<1> QED BY <1>17, <1>18

-----------------------------------------------------------------------------
(***************************************************************************)
(* The groups of a file                                                    *)
(***************************************************************************)
LEMMA SingleGroup ==
  ASSUME NEW S, NEW group \in Seq(S)
  PROVE  <<group>> \in Seq(Seq(S)) /\ DOMAIN <<group>> = 1..1
         /\ [i \in DOMAIN <<group>> |-> ToSet(<<group>>[i])] = <<ToSet(group)>>
<1>1. <<group>> \in Seq(Seq(S)) /\ DOMAIN <<group>> = 1..1 /\ <<group>>[1] = group
  OBVIOUS
<1>2. DOMAIN <<ToSet(group)>> = 1..1 /\ <<ToSet(group)>>[1] = ToSet(group)
      /\ <<ToSet(group)>> = [i \in 1..1 |-> <<ToSet(group)>>[i]]
  OBVIOUS
<1>3. \A i \in 1..1 : i = 1
  OBVIOUS
<1>4. [i \in DOMAIN <<group>> |-> ToSet(<<group>>[i])] = [i \in 1..1 |-> <<ToSet(group)>>[i]]
  BY <1>1, <1>2, <1>3
<1> QED BY <1>1, <1>2, <1>4

\* The reader of a file has the keys in the groups of its writer.
LEMMA ReadGroups ==
  ASSUME NEW c, c.settings.groups \in Seq(Seq(MasterKeys)), ToInternal(c).ok
  PROVE  LET groups == ToInternal(c).groups
         IN /\ ToInternal(c) = Settled(ToInternal(c).selector, c.settings.macOnly, groups, c.settings.threshold)
            /\ groups \in Seq(Seq(MasterKeys)) /\ Len(groups) = Len(c.settings.groups)
            /\ \A i \in DOMAIN groups :
                 /\ ToSet(groups[i]) = ToSet(c.settings.groups[i])
                 /\ IsInjective(c.settings.groups[i]) => IsInjective(groups[i])
<1> DEFINE s == c.settings
           sel == IF s.selector = NoSelector THEN Default ELSE s.selector
           groups == [i \in DOMAIN s.groups |-> internalGroupFrom(s.groups[i])]
<1>1. ToInternal(c) = Settled(sel, s.macOnly, groups, s.threshold)
  BY DEF ToInternal, Refused
<1>2. Len(s.groups) \in Nat /\ DOMAIN s.groups = 1..Len(s.groups)
      /\ \A i \in DOMAIN s.groups : s.groups[i] \in Seq(MasterKeys)
  <2> DEFINE t == s.groups
  <2>1. t \in Seq(Seq(MasterKeys))
    OBVIOUS
  <2> HIDE DEF t
  <2>2. Len(t) \in Nat /\ DOMAIN t = 1..Len(t) /\ \A i \in DOMAIN t : t[i] \in Seq(MasterKeys)
    BY <2>1, LenProperties, ElementOfSeq
  <2> QED BY <2>2 DEF t
<1>3. \A i \in DOMAIN s.groups :
        /\ groups[i] \in Seq(MasterKeys) /\ ToSet(groups[i]) = ToSet(s.groups[i])
        /\ IsInjective(s.groups[i]) => IsInjective(groups[i])
  BY <1>2, OrderedByType DEF internalGroupFrom
<1>4. groups \in [1..Len(s.groups) -> Seq(MasterKeys)]
  BY <1>2, <1>3
<1> HIDE DEF s, sel, groups
<1>5. groups \in Seq(Seq(MasterKeys)) /\ Len(groups) = Len(s.groups) /\ DOMAIN groups = DOMAIN s.groups
  BY <1>2, <1>4, ListOfValues
<1>6. ToInternal(c).groups = groups /\ ToInternal(c).selector = sel
  BY <1>1 DEF Settled
<1> QED BY <1>1, <1>3, <1>5, <1>6 DEF s

\* A rule gives the keys that it lists, and with key_groups each of them once.
LEMMA ConfiguredGroups ==
  ASSUME NEW rule, rule.flat \in Seq(MasterKeys), rule.key_groups \in Seq(KeyGroups)
  PROVE  LET groups == getKeyGroupsFromCreationRule(rule)
         IN /\ groups \in Seq(Seq(MasterKeys))
            /\ [i \in DOMAIN groups |-> ToSet(groups[i])] = MeantGroups(rule)
            /\ rule.key_groups # <<>> => \A i \in DOMAIN groups : IsInjective(groups[i])
<1> DEFINE written == rule.key_groups
           flat == rule.flat
           groups == getKeyGroupsFromCreationRule(rule)
<1>1. CASE written # <<>>
  <2>1. groups = [i \in DOMAIN written |-> extractMasterKeys[written[i]]]
    BY <1>1 DEF getKeyGroupsFromCreationRule
  <2>2. MeantGroups(rule) = [i \in DOMAIN written |-> KeysOf[written[i]]]
    BY <1>1 DEF MeantGroups
  <2>3. written \in Seq(KeyGroups) /\ (rule.key_groups # <<>> <=> written # <<>>)
    OBVIOUS
  <2> HIDE DEF written, groups
  <2>4. Len(written) \in Nat /\ DOMAIN written = 1..Len(written) /\ \A i \in DOMAIN written : written[i] \in KeyGroups
    BY <2>3, LenProperties, ElementOfSeq
  <2>5. \A i \in DOMAIN written : /\ groups[i] \in Seq(MasterKeys)
                                  /\ ToSet(groups[i]) = KeysOf[written[i]] /\ IsInjective(groups[i])
    BY <2>1, <2>4, ExtractedGroups, GroupsHaveTheirKeys
  <2>6. groups \in [1..Len(written) -> Seq(MasterKeys)]
    BY <2>1, <2>4, <2>5
  <2>7. groups \in Seq(Seq(MasterKeys)) /\ DOMAIN groups = DOMAIN written
    BY <2>4, <2>6, ListOfValues
  <2>8. [i \in DOMAIN groups |-> ToSet(groups[i])] = MeantGroups(rule)
    BY <2>2, <2>5, <2>7
  <2> QED BY <2>5, <2>7, <2>8 DEF groups
<1>2. CASE written = <<>>
  <2>1. groups = <<InOrder(flat, RuleOrder)>>
    BY <1>2 DEF getKeyGroupsFromCreationRule
  <2>2. MeantGroups(rule) = <<ToSet(flat)>>
    BY <1>2 DEF MeantGroups
  <2>3. flat \in Seq(MasterKeys)
    OBVIOUS
  <2>4. rule.key_groups = <<>>
    BY <1>2
  <2> HIDE DEF flat, groups, written
  <2>5. InOrder(flat, RuleOrder) \in Seq(MasterKeys) /\ ToSet(InOrder(flat, RuleOrder)) = ToSet(flat)
    BY <2>3, OrderedByType
  <2> DEFINE one == InOrder(flat, RuleOrder)
  <2> HIDE DEF one
  <2>6. <<one>> \in Seq(Seq(MasterKeys)) /\ [i \in DOMAIN <<one>> |-> ToSet(<<one>>[i])] = <<ToSet(one)>>
    BY <2>5, SingleGroup DEF one
  <2>7. groups = <<one>> /\ ToSet(one) = ToSet(flat)
    BY <2>1, <2>5 DEF one
  <2>8. groups \in Seq(Seq(MasterKeys)) /\ [i \in DOMAIN groups |-> ToSet(groups[i])] = <<ToSet(flat)>>
    BY <2>6, <2>7
  <2> QED BY <2>2, <2>4, <2>8 DEF groups
<1> QED BY <1>1, <1>2

-----------------------------------------------------------------------------
(***************************************************************************)
(* The rule for a file                                                     *)
(***************************************************************************)
LEMMA SmallestOfSome ==
  ASSUME NEW n \in Nat, NEW some \in SUBSET (1..n), some # {}
  PROVE  \E i \in some : \A j \in some : i <= j
<1> SUFFICES ASSUME \A i \in some : \E j \in some : ~(i <= j) PROVE FALSE
  OBVIOUS
<1> DEFINE T == {m \in 0..n : \A i \in some : i > m}
<1>1. 0 \in T
  OBVIOUS
<1>2. ASSUME NEW m \in 1..n, m - 1 \in T PROVE m \in T
  <2>1. \A i \in some : i >= m
    BY <1>2
  <2>2. \A i \in some : i # m
    BY <2>1
  <2> QED BY <2>1, <2>2
<1> HIDE DEF T
<1>3. 0..n \subseteq T
  BY <1>1, <1>2, CountingUp
<1>4. n \in T
  BY <1>3
<1>5. PICK i \in some : TRUE
  OBVIOUS
<1>6. i > n /\ i \in 1..n
  BY <1>4 DEF T
<1> QED BY <1>6

\* The first rule that matches is the one that applies.
LEMMA FirstThatMatches ==
  ASSUME NEW rules, rules \in Seq(ToSet(rules)), NEW f, NEW stops \in SUBSET DOMAIN rules,
         \A i \in DOMAIN rules : Matches(rules[i], f) => i \in stops,
         LET first == CHOOSE i \in stops : \A j \in stops : i <= j
         IN stops # {} /\ Matches(rules[first], f)
  PROVE  /\ Applies(rules, f) \in DOMAIN rules
         /\ Applies(rules, f) = CHOOSE i \in stops : \A j \in stops : i <= j
<1> DEFINE n == Len(rules)
           first == CHOOSE i \in stops : \A j \in stops : i <= j
           Fits(i) == Matches(rules[i], f) /\ \A j \in 1..(i - 1) : ~Matches(rules[j], f)
<1>1. n \in Nat /\ DOMAIN rules = 1..n
  BY LenProperties
<1>2. first \in stops /\ \A j \in stops : first <= j
  BY <1>1, SmallestOfSome
<1>3. Matches(rules[first], f) /\ first \in 1..n
  BY <1>1, <1>2
<1> HIDE DEF n, first
<1>4. Fits(first)
  <2> SUFFICES ASSUME NEW j \in 1..(first - 1) PROVE ~Matches(rules[j], f)
    BY <1>3
  <2>1. j \in 1..n /\ ~(first <= j)
    BY <1>1, <1>3
  <2> QED BY <1>1, <1>2, <2>1
<1>5. ASSUME NEW i \in 1..n, Fits(i) PROVE i = first
  <2>1. first <= i
    BY <1>1, <1>2, <1>5
  <2>2. ~(first \in 1..(i - 1))
    BY <1>3, <1>5
  <2> QED BY <1>1, <1>3, <2>1, <2>2
<1>6. Applies(rules, f) = CHOOSE i \in 1..n : Fits(i)
  BY <1>1 DEF Applies
<1> HIDE DEF Fits
<1>7. Applies(rules, f) = first
  BY <1>3, <1>4, <1>5, <1>6
<1> QED BY <1>1, <1>3, <1>7 DEF first

LEMMA RuleOfCreation ==
  ASSUME NEW rules, rules \in Seq(ToSet(rules)), NEW f,
         parseCreationRuleForFile(rules, f).ok, parseCreationRuleForFile(rules, f).rules
  PROVE  /\ Applies(rules, f) \in DOMAIN rules
         /\ parseCreationRuleForFile(rules, f).groups = getKeyGroupsFromCreationRule(rules[Applies(rules, f)])
<1> DEFINE conf == parseCreationRuleForFile(rules, f)
           stops == {i \in DOMAIN rules : rules[i].regex = "invalid" \/ Matches(rules[i], f)}
           first == CHOOSE i \in stops : \A j \in stops : i <= j
<1>1. conf = CASE rules = <<>> -> NoConfig
               [] rules # <<>> /\ stops = {} -> Refused
               [] stops # {} /\ rules[first].regex = "invalid" -> Refused
               [] OTHER -> configFromRule(rules[first])
  BY DEF parseCreationRuleForFile
<1>2. ~Refused.ok /\ ~NoConfig.rules
  BY DEF Refused, NoConfig
<1>3. rules = <<>> => stops = {}
  OBVIOUS
<1> HIDE DEF stops, first, conf
<1>4. stops # {} /\ rules[first].regex # "invalid" /\ conf = configFromRule(rules[first])
  BY <1>1, <1>2, <1>3 DEF conf
<1>5. first \in stops
  <2>1. Len(rules) \in Nat /\ DOMAIN rules = 1..Len(rules)
    BY LenProperties
  <2>2. stops \subseteq 1..Len(rules)
    BY <2>1 DEF stops
  <2> QED BY <1>4, <2>1, <2>2, SmallestOfSome DEF first
<1>6. Matches(rules[first], f)
  BY <1>4, <1>5 DEF stops
<1>7. Applies(rules, f) \in DOMAIN rules /\ Applies(rules, f) = first
  BY <1>4, <1>6, FirstThatMatches DEF first, stops
<1>8. conf.groups = getKeyGroupsFromCreationRule(rules[first])
  <2>1. conf.ok
    BY DEF conf
  <2> QED BY <1>2, <1>4, <2>1 DEF configFromRule
<1> QED BY <1>7, <1>8 DEF conf

LEMMA RuleOfDestination ==
  ASSUME NEW rules, rules \in Seq(ToSet(rules)), NEW f, parseDestinationRuleForFile(rules, f).ok
  PROVE  /\ Applies(rules, f) \in DOMAIN rules
         /\ parseDestinationRuleForFile(rules, f).conf.groups
              = getKeyGroupsFromCreationRule(rules[Applies(rules, f)])
<1> DEFINE found == {i \in DOMAIN rules : Matches(rules[i], f)}
           first == CHOOSE i \in found : \A j \in found : i <= j
           conf == configFromRule(rules[first])
           answer == parseDestinationRuleForFile(rules, f)
<1>1. answer = IF found = {} \/ Cardinality(rules[first].destinations) > 1 \/ ~conf.ok THEN Refused
               ELSE [conf |-> conf, omit |-> rules[first].omit, destinations |-> rules[first].destinations,
                     ok |-> TRUE]
  BY DEF parseDestinationRuleForFile
<1>2. ~Refused.ok
  BY DEF Refused
<1> HIDE DEF found, first, conf, answer
<1>3. found # {} /\ conf.ok /\ answer.conf = conf
  BY <1>1, <1>2 DEF answer
<1>4. first \in found
  <2>1. Len(rules) \in Nat /\ DOMAIN rules = 1..Len(rules)
    BY LenProperties
  <2>2. found \subseteq 1..Len(rules)
    BY <2>1 DEF found
  <2> QED BY <1>3, <2>1, <2>2, SmallestOfSome DEF first
<1>5. Matches(rules[first], f)
  BY <1>4 DEF found
<1>6. Applies(rules, f) \in DOMAIN rules /\ Applies(rules, f) = first
  BY <1>3, <1>5, FirstThatMatches DEF first, found
<1>7. conf.groups = getKeyGroupsFromCreationRule(rules[first])
  BY <1>2, <1>3 DEF configFromRule, conf
<1> QED BY <1>3, <1>6, <1>7 DEF answer

-----------------------------------------------------------------------------
(***************************************************************************)
(* A file and its reader                                                   *)
(***************************************************************************)
\* One kind of selector is not many, and none is not either.
LEMMA FewKinds == ~Many(NoSelector) /\ ~Many(Default)
<1>1. DOMAIN NoSelector = {} /\ DOMAIN Default = {"unencrypted_suffix"}
  BY DEF NoSelector, Default
<1>2. Cardinality({}) = 0 /\ Cardinality({"unencrypted_suffix"}) = 1
  BY FS_EmptySet, FS_Singleton
<1> QED BY <1>1, <1>2 DEF Many

LEMMA DefaultIsOne == Default # NoSelector
<1>1. "unencrypted_suffix" \in DOMAIN Default /\ DOMAIN NoSelector = {}
  BY DEF Default, NoSelector
<1> QED BY <1>1

\* Without a selector everything is sealed, and with the default all but what ends like it.
LEMMA SealedWithNone ==
  ASSUME NEW names
  PROVE  /\ SealedBy(NoSelector, names) = names
         /\ names \cap Matching[DefaultSuffix] = {} => SealedBy(Default, names) = names
<1>1. DOMAIN NoSelector = {} /\ DOMAIN Default = {"unencrypted_suffix"}
      /\ Default["unencrypted_suffix"] = DefaultSuffix
  BY DEF NoSelector, Default
<1>2. "unencrypted_suffix" \notin Sealing
  BY DEF Sealing
<1>3. SealedBy(NoSelector, names) = names
  BY <1>1 DEF SealedBy
<1>4. ASSUME names \cap Matching[DefaultSuffix] = {} PROVE SealedBy(Default, names) = names
  BY <1>1, <1>2, <1>4 DEF SealedBy
<1> QED BY <1>3, <1>4

\* What the reader of a file takes its settings for.
LEMMA ReaderOf ==
  ASSUME NEW c, IsSettings(c.settings), ~Many(c.settings.selector)
  PROVE  /\ IsSettings(ToInternal(c)) /\ ToInternal(c).ok /\ ~Many(ToInternal(c).selector)
         /\ ToInternal(c).selector
              = IF c.settings.selector = NoSelector THEN Default ELSE c.settings.selector
<1> DEFINE s == c.settings
           sel == IF s.selector = NoSelector THEN Default ELSE s.selector
           groups == [i \in DOMAIN s.groups |-> internalGroupFrom(s.groups[i])]
<1>1. ToInternal(c) = Settled(sel, s.macOnly, groups, s.threshold)
  BY DEF ToInternal
<1> HIDE DEF s, sel, groups
<1>2. IsSettings(ToInternal(c)) /\ ToInternal(c).ok /\ ToInternal(c).selector = sel
  BY <1>1 DEF IsSettings, Settled
<1>3. ~Many(sel)
  BY FewKinds DEF sel, s
<1> QED BY <1>2, <1>3 DEF sel, s

Sound(c) == c.form = "sealed" => IsSettings(c.settings) /\ Opens(c) /\ SealsBinary(c)

\* What is written with these settings opens: where one selector is written down, where nothing
\* of a binary file ends like the default, and by the writers whose files may not.
LEMMA WrittenIsKept ==
  ASSUME NEW s, IsSettings(s), NEW names, NEW by,
         \/ by \in {"publish", "package"}
         \/ ~Many(s.selector) /\ s.selector # NoSelector /\ by # "encrypt"
         \/ ~Many(s.selector) /\ s.selector # NoSelector /\ names # {Data}
         \/ s.selector = NoSelector /\ names = {Data}
  PROVE  Encrypted(s, names, by).form = "sealed" /\ Sound(Encrypted(s, names, by))
<1> DEFINE c == Encrypted(s, names, by)
<1>1. /\ c.form = "sealed" /\ c.names = names /\ c.by = by /\ c.settings = s
      /\ c.sealed = SealedBy(s.selector, names)
  BY DEF Encrypted
<1> HIDE DEF c
<1>2. IsSettings(c.settings)
  BY <1>1
<1>3. CASE Many(s.selector)
  <2>1. by \in {"publish", "package"}
    BY <1>3, FewKinds
  <2> QED BY <1>1, <1>2, <1>3, <2>1 DEF Opens, Unsettled, SealsBinary, Sound, c
<1>4. CASE ~Many(s.selector) /\ s.selector # NoSelector
  <2>1. ToInternal(c).ok /\ ToInternal(c).selector = s.selector
    BY <1>1, <1>2, <1>4, ReaderOf
  <2>2. Readable(c)
    BY <1>1, <2>1 DEF Readable
  <2>3. SealsBinary(c)
    BY <1>1, <1>4 DEF SealsBinary
  <2> QED BY <1>1, <1>2, <2>2, <2>3 DEF Opens, Sound, c
<1>5. CASE s.selector = NoSelector
  <2>1. ToInternal(c).ok /\ ToInternal(c).selector = Default
    BY <1>1, <1>2, <1>5, ReaderOf, FewKinds
  <2>2. c.sealed = names
    BY <1>1, <1>5, SealedWithNone
  <2>3. names = {Data} => names \cap Matching[DefaultSuffix] = {}
    BY SettingsAssumption
  <2>4. CASE names \cap Matching[DefaultSuffix] = {}
    <3>1. Readable(c)
      BY <1>1, <2>1, <2>2, <2>4, SealedWithNone DEF Readable
    <3> QED BY <1>1, <1>2, <2>2, <3>1 DEF Opens, SealsBinary, Sound, c
  <2>5. CASE names \cap Matching[DefaultSuffix] # {}
    <3>1. by \in {"publish", "package"}
      BY <1>5, <2>3, <2>5
    <3>2. Unsettled(c)
      BY <1>1, <1>5, <2>5 DEF Unsettled
    <3> QED BY <1>1, <1>2, <2>2, <3>1, <3>2 DEF Opens, SealsBinary, Sound, c
  <2> QED BY <2>4, <2>5
<1> QED BY <1>3, <1>4, <1>5

\* The settings of a file made by the command encrypt: a binary file gets no selector, any
\* other one that is written down.
LEMMA ConfiguredSettings ==
  ASSUME NEW cli, NEW conf, NEW single \in BOOLEAN, getEncryptConfig(cli, conf, single).ok
  PROVE  /\ IsSettings(getEncryptConfig(cli, conf, single))
         /\ ~Many(getEncryptConfig(cli, conf, single).selector)
         /\ single <=> getEncryptConfig(cli, conf, single).selector = NoSelector
<1> DEFINE given == IF conf.rules THEN cli.selector @@ conf.selector ELSE cli.selector
           selector == CASE single -> NoSelector
                         [] ~single /\ given = NoSelector -> Default
                         [] OTHER -> given
           macOnly == ~single /\ (cli.macOnly \/ (conf.rules /\ conf.macOnly))
           groups == keyGroups(cli, conf)
           threshold == shamirThreshold(cli, conf)
<1>1. getEncryptConfig(cli, conf, single)
        = IF Many(selector) THEN Refused ELSE Settled(selector, macOnly, groups, threshold)
  BY DEF getEncryptConfig
<1>2. single <=> selector = NoSelector
  <2> HIDE DEF given
  <2> QED BY DefaultIsOne
<1> HIDE DEF selector, macOnly, groups, threshold
<1>3. ~Many(selector)
  <2>1. ~Refused.ok
    BY DEF Refused
  <2> QED BY <1>1, <2>1
<1>4. getEncryptConfig(cli, conf, single) = Settled(selector, macOnly, groups, threshold)
  BY <1>1, <1>3
<1> QED BY <1>2, <1>3, <1>4 DEF IsSettings, Settled

\* `sops rotate' changes nothing but the keys.
LEMMA RotatedSettings ==
  ASSUME NEW s, IsSettings(s), NEW add, NEW remove, rotate(s, add, remove).ok
  PROVE  IsSettings(rotate(s, add, remove)) /\ rotate(s, add, remove).selector = s.selector
<1> DEFINE given == [s.groups EXCEPT ![1] = @ \o add]
           upto == CHOOSE upto : upto = [n \in 0..Len(remove) |->
                     IF n = 0 THEN [ok |-> TRUE, groups |-> given]
                     ELSE IF upto[n - 1].ok THEN RemovedFromAll(upto[n - 1].groups, remove[n]) ELSE upto[n - 1]]
           removed == upto[Len(remove)]
<1>1. rotate(s, add, remove) = IF removed.ok THEN [s EXCEPT !.groups = removed.groups] ELSE Refused
  BY DEF rotate
<1> HIDE DEF removed
<1>2. rotate(s, add, remove) = [s EXCEPT !.groups = removed.groups]
  <2>1. ~Refused.ok
    BY DEF Refused
  <2> QED BY <1>1, <2>1
<1>3. rotate(s, add, remove) = Settled(s.selector, s.macOnly, removed.groups, s.threshold)
  BY <1>2 DEF IsSettings, Settled
<1> QED BY <1>3 DEF IsSettings, Settled

-----------------------------------------------------------------------------
(***************************************************************************)
(* The invariant                                                           *)
(***************************************************************************)
Steps == {"encrypt", "load", "prepare", "ask", "upload", "over", "failed"}
WalkSteps == {"load", "prepare", "ask", "upload"}
OnFile == {"prepare", "ask", "upload"}

\* The walk is at the last files of the directory, and at a file from its loading to its upload.
PublishTypes ==
  /\ job \in Jobs /\ rewritten \in BOOLEAN /\ error \in BOOLEAN
  /\ DOMAIN disk = DOMAIN job.files /\ step \in Steps /\ (error <=> step = "failed")
  /\ step \in WalkSteps => job.op = "publish"
  /\ step = "encrypt" => job.op # "publish"
  /\ walk \in Seq(DOMAIN job.files) /\ (step \in OnFile => walk # <<>>)
  /\ \A i \in DOMAIN walk : walk[i] = Len(job.files) - Len(walk) + i
  /\ agreed \subseteq DOMAIN disk
  /\ \A n \in DOMAIN shelf : shelf[n].of \in DOMAIN disk

\* Every content that is somewhere opens.
ContentsInv ==
  /\ \A f \in DOMAIN disk : Sound(disk[f])
  /\ \A n \in DOMAIN shelf : Sound(shelf[n].body)
  /\ Sound(loaded) /\ Sound(body)

\* What was loaded is encrypted, and is what the disk holds unless it has been rewritten; so
\* what is read again for a bucket is encrypted too.
SealedInv ==
  /\ \A n \in DOMAIN shelf :
       ToBucket(shelf[n].of) => shelf[n].body.form = "sealed" \/ shelf[n].stale
  /\ step = "prepare" => loaded.form = "sealed" /\ (rewritten \/ disk[This] = loaded)
  /\ step \in {"ask", "upload"} /\ ToBucket(This) => body.form = "sealed" \/ rewritten

\* A file that was agreed to is uploaded next, is at the destination, shares its path, or was
\* lost by gcs.
AgreedInv ==
  /\ \A n \in DOMAIN shelf : shelf[n].of \in agreed /\ n = DestinationName(shelf[n].of)
  /\ step = "upload" => This \in agreed
  /\ step # "failed" => \A f \in agreed :
       \/ ToGCS(f)
       \/ step = "upload" /\ f = This
       \/ \E g \in agreed \ {f} : PathOf(g) = PathOf(f)
       \/ \E n \in DOMAIN shelf : shelf[n].of = f

PublishInv == PublishTypes /\ ContentsInv /\ SealedInv /\ AgreedInv

-----------------------------------------------------------------------------
(***************************************************************************)
(* Facts about a job and a walk                                            *)
(***************************************************************************)
LEMMA FilesOfJob ==
  ASSUME NEW j \in Jobs
  PROVE  Len(j.files) \in Nat \ {0} /\ DOMAIN j.files = 1..Len(j.files) /\ 1 \in DOMAIN j.files
<1>1. j.files \in Seq(ToSet(j.files)) /\ j.files # <<>>
  BY JobsAssumption
<1>2. Len(j.files) \in Nat /\ DOMAIN j.files = 1..Len(j.files)
  BY <1>1, LenProperties
<1>3. Len(j.files) # 0
  BY <1>1, EmptySeq
<1> QED BY <1>2, <1>3

\* What follows from the job alone stays as it is.
LEMMA SameJob ==
  ASSUME job' = job
  PROVE  \A f : /\ ToBucket(f)' <=> ToBucket(f)
                /\ ToGCS(f)' = ToGCS(f) /\ ToGCS(f) \in BOOLEAN
                /\ DestinationName(f)' = DestinationName(f) /\ PathOf(f)' = PathOf(f)
BY DEF ToBucket, ToGCS, DestinationName, PathOf, Rule

\* To go on to the next file leaves the last files of the directory.
LEMMA GoingOn ==
  ASSUME PublishTypes, walk # <<>>, walk' = Tail(walk), job' = job
  PROVE  /\ walk' \in Seq(DOMAIN job.files)
         /\ \A i \in DOMAIN walk' : walk'[i] = Len(job.files) - Len(walk') + i
<1>1. walk \in Seq(DOMAIN job.files) /\ job \in Jobs
      /\ \A i \in DOMAIN walk : walk[i] = Len(job.files) - Len(walk) + i
  BY DEF PublishTypes
<1>2. Len(walk) \in Nat /\ DOMAIN walk = 1..Len(walk) /\ Len(job.files) \in Nat
  BY <1>1, LenProperties, FilesOfJob
<1>3. Tail(walk) \in Seq(DOMAIN job.files) /\ Len(Tail(walk)) = Len(walk) - 1
      /\ \A i \in 1..(Len(walk) - 1) : Tail(walk)[i] = walk[i + 1]
  BY <1>1, HeadTailProperties
<1>4. DOMAIN Tail(walk) = 1..(Len(walk) - 1)
  BY <1>3, LenProperties
<1>5. ASSUME NEW i \in 1..(Len(walk) - 1)
      PROVE  Tail(walk)[i] = Len(job.files) - Len(Tail(walk)) + i
  <2>1. i + 1 \in 1..Len(walk)
    BY <1>2
  <2>2. Tail(walk)[i] = Len(job.files) - Len(walk) + (i + 1)
    BY <1>1, <1>2, <1>3, <2>1
  <2>3. \A l, n, k \in Int : l - n + (k + 1) = l - (n - 1) + k
    OBVIOUS
  <2>4. Len(job.files) \in Int /\ Len(walk) \in Int /\ i \in Int
    BY <1>2
  <2>5. Len(job.files) - Len(walk) + (i + 1) = Len(job.files) - (Len(walk) - 1) + i
    BY <2>3, <2>4
  <2> QED BY <1>3, <2>2, <2>5
<1> QED BY <1>3, <1>4, <1>5

\* The file of the walk is one of the directory.
LEMMA ThisIsThere ==
  ASSUME PublishTypes, walk # <<>>
  PROVE  This \in DOMAIN disk
<1>1. walk \in Seq(DOMAIN job.files)
  BY DEF PublishTypes
<1>2. 1 \in 1..Len(walk)
  <2>1. Len(walk) \in Nat /\ Len(walk) # 0
    BY <1>1, LenProperties, EmptySeq
  <2> QED BY <2>1
<1>3. walk[1] \in DOMAIN job.files
  BY <1>1, <1>2, ElementOfSeq
<1> QED BY <1>3 DEF This, PublishTypes

\* Files that are published under one name have one path: without --recursive, or when a file
\* is named itself, there is only one.
LEMMA SamePlace ==
  ASSUME PublishTypes, job.op = "publish", NEW f \in DOMAIN disk, NEW g \in DOMAIN disk,
         DestinationName(f) = DestinationName(g)
  PROVE  PathOf(f) = PathOf(g)
<1>1. /\ job \in Jobs /\ f \in 1..Len(job.files) /\ g \in 1..Len(job.files)
      /\ Len(job.files) \in Nat
  BY FilesOfJob DEF PublishTypes
<1>2. CASE job.named # 0 \/ ~job.recursive
  <2>1. Len(job.files) = 1
    BY <1>1, <1>2, JobsAssumption
  <2>2. f = 1 /\ g = 1
    BY <1>1, <2>1
  <2> QED BY <2>2
<1>3. CASE job.named = 0 /\ job.recursive
  <2>1. job.named # f /\ job.named # g
    BY <1>1, <1>3
  <2> QED BY <1>3, <2>1 DEF DestinationName, PathOf
<1> QED BY <1>2, <1>3

\* What the commands write opens.
LEMMA MadeIsKept ==
  ASSUME job \in Jobs, job.op # "publish", SettingsOf(job).ok
  PROVE  Sound(Encrypted(SettingsOf(job), job.files[1].names, job.op))
<1> DEFINE names == job.files[1].names
           conf == parseCreationRuleForFile(job.rules, 1)
           held == job.files[1].holds
<1>1. ~Refused.ok
  BY DEF Refused
<1>2. CASE job.op = "encrypt"
  <2>1. SettingsOf(job) = IF conf.ok THEN getEncryptConfig(job.cli, conf, Single(job)) ELSE Refused
    BY <1>2 DEF SettingsOf
  <2> HIDE DEF conf
  <2>2. SettingsOf(job) = getEncryptConfig(job.cli, conf, Single(job))
    BY <1>1, <2>1
  <2>3. Single(job) \in BOOLEAN /\ (Single(job) <=> names = {Data})
    BY DEF Single
  <2>4. /\ IsSettings(SettingsOf(job)) /\ ~Many(SettingsOf(job).selector)
        /\ Single(job) <=> SettingsOf(job).selector = NoSelector
    BY <2>2, <2>3, ConfiguredSettings
  <2> QED BY <2>3, <2>4, WrittenIsKept
<1>3. CASE job.op = "package"
  <2>1. SettingsOf(job) = job.options /\ IsSettings(job.options)
    BY <1>3, JobsAssumption DEF SettingsOf
  <2> QED BY <1>3, <2>1, WrittenIsKept
<1>4. CASE job.op = "same"
  <2>1. SettingsOf(job) = ToInternal(job.reference) /\ IsSettings(job.reference.settings)
    BY <1>4, JobsAssumption DEF SettingsOf
  <2>2. ~Many(job.reference.settings.selector)
    BY <1>1, <2>1 DEF ToInternal
  <2>3. /\ IsSettings(SettingsOf(job)) /\ ~Many(SettingsOf(job).selector)
        /\ SettingsOf(job).selector # NoSelector
    BY <2>1, <2>2, ReaderOf, DefaultIsOne
  <2> QED BY <1>4, <2>3, WrittenIsKept
<1>5. CASE job.op = "rotate"
  <2>1. SettingsOf(job) = rotate(ToInternal(held), job.add, job.remove)
    BY <1>5 DEF SettingsOf
  <2>2. 1 \in DOMAIN job.files
    BY FilesOfJob
  <2>3. IsSettings(held.settings)
    BY <1>5, <2>2, JobsAssumption
  <2> HIDE DEF held
  <2>4. ~Many(held.settings.selector)
    <3>1. CASE Many(held.settings.selector)
      <4>1. ToInternal(held) = Refused
        BY <3>1 DEF ToInternal
      <4>2. ~rotate(Refused, job.add, job.remove).ok
        BY DEF rotate, Refused
      <4> QED BY <2>1, <4>1, <4>2
    <3> QED BY <3>1
  <2>5. IsSettings(ToInternal(held)) /\ ~Many(ToInternal(held).selector)
        /\ ToInternal(held).selector # NoSelector
    BY <2>3, <2>4, ReaderOf, DefaultIsOne
  <2>6. IsSettings(SettingsOf(job)) /\ SettingsOf(job).selector = ToInternal(held).selector
    BY <2>1, <2>5, RotatedSettings
  <2> QED BY <1>5, <2>5, <2>6, WrittenIsKept
<1> QED BY <1>2, <1>3, <1>4, <1>5, JobsAssumption

-----------------------------------------------------------------------------
(***************************************************************************)
(* Steps                                                                   *)
(***************************************************************************)
\* An error is a failure.
LEMMA ErrorsFail ==
  ASSUME PublishTypes, step # "failed",
         \/ step' # "failed" /\ error' = error
         \/ step' = "failed" /\ error' = TRUE
  PROVE  error' \in BOOLEAN /\ (error' <=> step' = "failed")
<1>1. CASE step' # "failed" /\ error' = error
  <2>1. error \in BOOLEAN /\ ~error
    BY DEF PublishTypes
  <2> QED BY <1>1, <2>1
<1>2. CASE step' = "failed" /\ error' = TRUE
  BY <1>2
<1> QED BY <1>1, <1>2

LEMMA EncryptKeeps ==
  ASSUME PublishInv, Encrypt
  PROVE  PublishInv'
<1>1. PublishTypes /\ ContentsInv /\ SealedInv /\ AgreedInv
  BY DEF PublishInv
<1>2. step = "encrypt" /\ UNCHANGED <<job, shelf, walk, loaded, body, agreed, rewritten>>
  BY DEF Encrypt
<1>3. \/ /\ SettingsOf(job).ok /\ step' = "over" /\ error' = error
         /\ disk' = [disk EXCEPT ![1] = Encrypted(SettingsOf(job), job.files[1].names, job.op)]
      \/ step' = "failed" /\ error' = TRUE /\ disk' = disk
  BY DEF Encrypt, StepTo, Fail
<1>4. DOMAIN disk' = DOMAIN disk /\ step' \in {"over", "failed"}
  BY <1>3
<1>5. PublishTypes'
  <2>1. error' \in BOOLEAN /\ (error' <=> step' = "failed")
    BY <1>1, <1>2, <1>3, ErrorsFail
  <2> QED BY <1>1, <1>2, <1>4, <2>1 DEF PublishTypes, Steps, WalkSteps, OnFile
<1>6. ContentsInv'
  <2>1. ASSUME NEW f \in DOMAIN disk PROVE Sound(disk'[f])
    <3>1. CASE SettingsOf(job).ok
               /\ disk' = [disk EXCEPT ![1] = Encrypted(SettingsOf(job), job.files[1].names, job.op)]
      <4>1. Sound(Encrypted(SettingsOf(job), job.files[1].names, job.op))
        BY <1>1, <1>2, <3>1, MadeIsKept DEF PublishTypes
      <4> QED BY <1>1, <3>1, <4>1 DEF ContentsInv
    <3>2. CASE disk' = disk
      BY <1>1, <3>2 DEF ContentsInv
    <3> QED BY <1>3, <3>1, <3>2
  <2> QED BY <1>1, <1>2, <1>4, <2>1 DEF ContentsInv
<1>7. SealedInv'
  BY <1>1, <1>2, <1>4, SameJob DEF SealedInv
<1>8. AgreedInv'
  BY <1>1, <1>2, <1>4, SameJob DEF AgreedInv
<1> QED BY <1>5, <1>6, <1>7, <1>8 DEF PublishInv

LEMMA LoadKeeps ==
  ASSUME PublishInv, LoadEncryptedFile
  PROVE  PublishInv'
<1>1. PublishTypes /\ ContentsInv /\ SealedInv /\ AgreedInv
  BY DEF PublishInv
<1>2. step = "load" /\ walk # <<>> /\ UNCHANGED <<job, disk, shelf, walk, body, agreed>>
  BY DEF LoadEncryptedFile
<1>3. \/ /\ disk[This].form = "sealed" /\ step' = "prepare" /\ error' = error
         /\ loaded' = disk[This] /\ rewritten' = FALSE
      \/ step' = "failed" /\ error' = TRUE /\ loaded' = loaded /\ rewritten' = rewritten
  BY DEF LoadEncryptedFile, StepTo, Fail, Loads
<1>4. This \in DOMAIN disk /\ This' = This
  BY <1>1, <1>2, ThisIsThere DEF This
<1>5. PublishTypes'
  <2>1. error' \in BOOLEAN /\ (error' <=> step' = "failed")
    BY <1>1, <1>2, <1>3, ErrorsFail
  <2>2. rewritten' \in BOOLEAN /\ step' \in {"prepare", "failed"}
    BY <1>1, <1>3 DEF PublishTypes
  <2> QED BY <1>1, <1>2, <2>1, <2>2 DEF PublishTypes, Steps, WalkSteps, OnFile
<1>6. ContentsInv'
  BY <1>1, <1>2, <1>3, <1>4 DEF ContentsInv
<1>7. SealedInv'
  BY <1>1, <1>2, <1>3, <1>4, SameJob DEF SealedInv
<1>8. AgreedInv'
  BY <1>1, <1>2, <1>3, <1>4, SameJob DEF AgreedInv
<1> QED BY <1>5, <1>6, <1>7, <1>8 DEF PublishInv

\* The three ways to prepare what is uploaded: what goes to a bucket is encrypted.
LEMMA PreparingKeeps ==
  ASSUME PublishInv, Reencrypt \/ ReadAgain \/ EmitAsMap
  PROVE  PublishInv'
<1>1. PublishTypes /\ ContentsInv /\ SealedInv /\ AgreedInv
  BY DEF PublishInv
<1>2. step = "prepare" /\ UNCHANGED <<job, disk, shelf, walk, loaded, agreed, rewritten>>
  BY DEF Reencrypt, ReadAgain, EmitAsMap
<1>3. This \in DOMAIN disk /\ This' = This
  BY <1>1, <1>2, ThisIsThere DEF This, PublishTypes, OnFile
<1>4. \/ /\ step' = "ask" /\ error' = error /\ Sound(body')
         /\ ToBucket(This) => body'.form = "sealed" \/ rewritten
      \/ step' = "failed" /\ error' = TRUE /\ body' = body
  <2>1. CASE Reencrypt
    <3> DEFINE settings == Recreated(Rule(This).conf)
    <3>1. IsSettings(settings)
      BY DEF Recreated, IsSettings, Settled
    <3>2. \/ step' = "ask" /\ error' = error /\ body' = Encrypted(settings, loaded.names, "publish")
          \/ step' = "failed" /\ error' = TRUE /\ body' = body
      BY <2>1 DEF Reencrypt, StepTo, Fail, Prepares
    <3> HIDE DEF settings
    <3>3. Encrypted(settings, loaded.names, "publish").form = "sealed"
          /\ Sound(Encrypted(settings, loaded.names, "publish"))
      BY <3>1, WrittenIsKept
    <3> QED BY <3>2, <3>3
  <2>2. CASE ReadAgain
    <3>1. \/ step' = "ask" /\ error' = error /\ body' = disk[This]
          \/ step' = "failed" /\ error' = TRUE /\ body' = body
      BY <2>2 DEF ReadAgain, StepTo, Fail, Prepares
    <3>2. Sound(disk[This]) /\ loaded.form = "sealed" /\ (rewritten \/ disk[This] = loaded)
      BY <1>1, <1>2, <1>3 DEF ContentsInv, SealedInv
    <3> QED BY <3>1, <3>2
  <2>3. CASE EmitAsMap
    <3>1. /\ ~ToBucket(This)
          /\ \/ step' = "ask" /\ error' = error /\ body' = Plain
             \/ step' = "failed" /\ error' = TRUE /\ body' = body
      BY <2>3 DEF EmitAsMap, StepTo, Fail, Prepares
    <3>2. Sound(Plain)
      BY DEF Sound, Plain
    <3> QED BY <3>1, <3>2
  <2> QED BY <2>1, <2>2, <2>3
<1>5. PublishTypes'
  <2>1. error' \in BOOLEAN /\ (error' <=> step' = "failed") /\ step' \in {"ask", "failed"}
    BY <1>1, <1>2, <1>4, ErrorsFail
  <2> QED BY <1>1, <1>2, <2>1 DEF PublishTypes, Steps, WalkSteps, OnFile
<1>6. ContentsInv'
  BY <1>1, <1>2, <1>4 DEF ContentsInv
<1>7. SealedInv'
  BY <1>1, <1>2, <1>3, <1>4, SameJob DEF SealedInv
<1>8. AgreedInv'
  BY <1>1, <1>2, <1>3, <1>4, SameJob DEF AgreedInv
<1> QED BY <1>5, <1>6, <1>7, <1>8 DEF PublishInv

LEMMA AskKeeps ==
  ASSUME PublishInv, Ask
  PROVE  PublishInv'
<1>1. PublishTypes /\ ContentsInv /\ SealedInv /\ AgreedInv
  BY DEF PublishInv
<1>2. step = "ask" /\ UNCHANGED <<job, disk, shelf, loaded, body, rewritten>>
  BY DEF Ask
<1>3. walk # <<>> /\ This \in DOMAIN disk
  BY <1>1, <1>2, ThisIsThere DEF PublishTypes, OnFile
<1>4. CASE step' = "upload" /\ error' = error /\ agreed' = agreed \cup {This} /\ walk' = walk
  <2>1. This' = This
    BY <1>4 DEF This
  <2>2. PublishTypes'
    BY <1>1, <1>2, <1>3, <1>4 DEF PublishTypes, Steps, WalkSteps, OnFile
  <2>3. ContentsInv'
    BY <1>1, <1>2 DEF ContentsInv
  <2>4. SealedInv'
    BY <1>1, <1>2, <1>4, <2>1, SameJob DEF SealedInv
  <2>5. AgreedInv'
    <3>1. \A f \in agreed : \/ ToGCS(f)
                            \/ \E g \in agreed \ {f} : PathOf(g) = PathOf(f)
                            \/ \E n \in DOMAIN shelf : shelf[n].of = f
      BY <1>1, <1>2 DEF AgreedInv
    <3>2. \A f \in agreed' : \/ ToGCS(f)
                             \/ f = This
                             \/ \E g \in agreed' \ {f} : PathOf(g) = PathOf(f)
                             \/ \E n \in DOMAIN shelf : shelf[n].of = f
      BY <1>4, <3>1
    <3> QED BY <1>1, <1>2, <1>4, <2>1, <3>2, SameJob DEF AgreedInv
  <2> QED BY <2>2, <2>3, <2>4, <2>5 DEF PublishInv
<1>5. CASE step' = "load" /\ error' = error /\ agreed' = agreed /\ walk' = Tail(walk)
  <2>1. /\ walk' \in Seq(DOMAIN job.files)
        /\ \A i \in DOMAIN walk' : walk'[i] = Len(job.files) - Len(walk') + i
    BY <1>1, <1>2, <1>3, <1>5, GoingOn
  <2>2. PublishTypes'
    BY <1>1, <1>2, <1>5, <2>1 DEF PublishTypes, Steps, WalkSteps, OnFile
  <2>3. ContentsInv'
    BY <1>1, <1>2 DEF ContentsInv
  <2>4. SealedInv'
    BY <1>1, <1>2, <1>5, SameJob DEF SealedInv
  <2>5. AgreedInv'
    BY <1>1, <1>2, <1>5, SameJob DEF AgreedInv
  <2> QED BY <2>2, <2>3, <2>4, <2>5 DEF PublishInv
<1>6. CASE step' = "failed" /\ error' = TRUE /\ agreed' = agreed /\ walk' = walk
  <2>1. PublishTypes'
    BY <1>1, <1>2, <1>6 DEF PublishTypes, Steps, WalkSteps, OnFile
  <2>2. ContentsInv'
    BY <1>1, <1>2 DEF ContentsInv
  <2>3. SealedInv'
    BY <1>1, <1>2, <1>6, SameJob DEF SealedInv
  <2>4. AgreedInv'
    BY <1>1, <1>2, <1>6, SameJob DEF AgreedInv
  <2> QED BY <2>1, <2>2, <2>3, <2>4 DEF PublishInv
<1> QED BY <1>4, <1>5, <1>6 DEF Ask, StepTo, Fail

\* What is uploaded replaces only what has its name.
LEMMA UploadKeeps ==
  ASSUME PublishInv, Upload
  PROVE  PublishInv'
<1>1. PublishTypes /\ ContentsInv /\ SealedInv /\ AgreedInv
  BY DEF PublishInv
<1>2. step = "upload" /\ UNCHANGED <<job, disk, loaded, body, agreed, rewritten>>
  BY DEF Upload
<1>3. walk # <<>> /\ This \in DOMAIN disk
  BY <1>1, <1>2, ThisIsThere DEF PublishTypes, OnFile
<1> DEFINE place == DestinationName(This)
           item == [body |-> body, of |-> This, stale |-> rewritten]
<1>4. CASE /\ shelf' = [n \in DOMAIN shelf \cup {place} |-> IF n = place THEN item ELSE shelf[n]]
           /\ walk' = Tail(walk) /\ step' = "load" /\ error' = error
  <2>1. /\ walk' \in Seq(DOMAIN job.files)
        /\ \A i \in DOMAIN walk' : walk'[i] = Len(job.files) - Len(walk') + i
    BY <1>1, <1>2, <1>3, <1>4, GoingOn
  <2>2. item.body = body /\ item.of = This /\ item.stale = rewritten
    OBVIOUS
  <2> HIDE DEF item, place
  <2>3. /\ DOMAIN shelf' = DOMAIN shelf \cup {place} /\ shelf'[place] = item
        /\ \A n \in DOMAIN shelf : n # place => shelf'[n] = shelf[n]
    BY <1>4
  <2>4. PublishTypes'
    <3>1. \A n \in DOMAIN shelf' : shelf'[n].of \in DOMAIN disk
      BY <1>1, <1>3, <2>2, <2>3 DEF PublishTypes
    <3> QED BY <1>1, <1>2, <1>4, <2>1, <3>1 DEF PublishTypes, Steps, WalkSteps, OnFile
  <2>5. ContentsInv'
    BY <1>1, <1>2, <2>2, <2>3 DEF ContentsInv
  <2>6. SealedInv'
    <3>1. \A n \in DOMAIN shelf' :
            ToBucket(shelf'[n].of) => shelf'[n].body.form = "sealed" \/ shelf'[n].stale
      BY <1>1, <1>2, <2>2, <2>3 DEF SealedInv
    <3> QED BY <1>2, <1>4, <3>1, SameJob DEF SealedInv
  <2>7. AgreedInv'
    <3>1. \A n \in DOMAIN shelf' : shelf'[n].of \in agreed /\ n = DestinationName(shelf'[n].of)
      BY <1>1, <1>2, <2>2, <2>3 DEF AgreedInv, place
    <3>2. ASSUME NEW f \in agreed
          PROVE  \/ ToGCS(f)
                 \/ \E g \in agreed \ {f} : PathOf(g) = PathOf(f)
                 \/ \E n \in DOMAIN shelf' : shelf'[n].of = f
      <4>1. CASE f = This
        BY <2>2, <2>3, <4>1
      <4>2. CASE f # This /\ \E g \in agreed \ {f} : PathOf(g) = PathOf(f)
        BY <4>2
      <4>3. CASE f # This /\ \E n \in DOMAIN shelf : shelf[n].of = f
        <5>1. PICK n \in DOMAIN shelf : shelf[n].of = f
          BY <4>3
        <5>2. n = DestinationName(f)
          BY <1>1, <5>1 DEF AgreedInv
        <5>3. CASE n = place
          <6>1. job.op = "publish" /\ f \in DOMAIN disk
            BY <1>1, <1>2 DEF PublishTypes, WalkSteps
          <6>2. PathOf(This) = PathOf(f)
            BY <1>1, <1>3, <5>2, <5>3, <6>1, SamePlace DEF place
          <6>3. This \in agreed \ {f}
            BY <1>1, <1>2, <4>3 DEF AgreedInv
          <6> QED BY <6>2, <6>3
        <5>4. CASE n # place
          BY <2>3, <5>1, <5>4
        <5> QED BY <5>3, <5>4
      <4>4. \/ ToGCS(f)
            \/ f = This \/ \E g \in agreed \ {f} : PathOf(g) = PathOf(f)
            \/ \E n \in DOMAIN shelf : shelf[n].of = f
        BY <1>1, <1>2 DEF AgreedInv
      <4> QED BY <4>1, <4>2, <4>3, <4>4
    <3>3. /\ job' = job /\ agreed' = agreed /\ step' = "load"
      BY <1>2, <1>4
    <3>4. \A n \in DOMAIN shelf' : shelf'[n].of \in agreed' /\ n = DestinationName(shelf[n].of)'
      BY <3>1, <3>3, SameJob
    <3>5. \A f \in agreed' : \/ ToGCS(f)'
                             \/ \E g \in agreed' \ {f} : PathOf(g)' = PathOf(f)'
                             \/ \E n \in DOMAIN shelf' : shelf'[n].of = f
      BY <3>2, <3>3, SameJob
    <3> QED BY <3>3, <3>4, <3>5 DEF AgreedInv
  <2> QED BY <2>4, <2>5, <2>6, <2>7 DEF PublishInv
<1>5. CASE step' = "failed" /\ error' = TRUE /\ shelf' = shelf /\ walk' = walk
  <2>1. PublishTypes'
    BY <1>1, <1>2, <1>5 DEF PublishTypes, Steps, WalkSteps, OnFile
  <2>2. ContentsInv'
    BY <1>1, <1>2, <1>5 DEF ContentsInv
  <2>3. SealedInv'
    BY <1>1, <1>2, <1>5, SameJob DEF SealedInv
  <2>4. AgreedInv'
    BY <1>1, <1>2, <1>5, SameJob DEF AgreedInv
  <2> QED BY <2>1, <2>2, <2>3, <2>4 DEF PublishInv
<1>6. CASE ToGCS(This) /\ walk' = Tail(walk) /\ step' = "load" /\ error' = error /\ shelf' = shelf
  <2>1. /\ walk' \in Seq(DOMAIN job.files)
        /\ \A i \in DOMAIN walk' : walk'[i] = Len(job.files) - Len(walk') + i
    BY <1>1, <1>2, <1>3, <1>6, GoingOn
  <2>2. PublishTypes'
    BY <1>1, <1>2, <1>6, <2>1 DEF PublishTypes, Steps, WalkSteps, OnFile
  <2>3. ContentsInv'
    BY <1>1, <1>2, <1>6 DEF ContentsInv
  <2>4. SealedInv'
    BY <1>1, <1>2, <1>6, SameJob DEF SealedInv
  <2>5. AgreedInv'
    BY <1>1, <1>2, <1>6, SameJob DEF AgreedInv
  <2> QED BY <2>2, <2>3, <2>4, <2>5 DEF PublishInv
<1> QED BY <1>4, <1>5, <1>6 DEF Upload, LostOnClose, StepTo, Fail

LEMMA FinishKeeps ==
  ASSUME PublishInv, Finish
  PROVE  PublishInv'
<1>1. PublishTypes /\ ContentsInv /\ SealedInv /\ AgreedInv
  BY DEF PublishInv
<1>2. step = "load" /\ step' = "over" /\ error' = error
      /\ UNCHANGED <<job, disk, shelf, walk, loaded, body, agreed, rewritten>>
  BY DEF Finish, StepTo
<1>3. PublishTypes'
  BY <1>1, <1>2 DEF PublishTypes, Steps, WalkSteps, OnFile
<1>4. ContentsInv'
  BY <1>1, <1>2 DEF ContentsInv
<1>5. SealedInv'
  BY <1>1, <1>2, SameJob DEF SealedInv
<1>6. AgreedInv'
  BY <1>1, <1>2, SameJob DEF AgreedInv
<1> QED BY <1>3, <1>4, <1>5, <1>6 DEF PublishInv

\* Another process changes what the disk holds: for the file of the walk that is remembered.
LEMMA RewriteKeeps ==
  ASSUME PublishInv, NEW f \in DOMAIN disk, Rewrite(f)
  PROVE  PublishInv'
<1>1. PublishTypes /\ ContentsInv /\ SealedInv /\ AgreedInv
  BY DEF PublishInv
<1>2. /\ rewritten' = (rewritten \/ (walk # <<>> /\ f = This))
      /\ UNCHANGED <<job, shelf, step, walk, loaded, body, agreed, error>>
  BY DEF Rewrite
<1>3. PICK new \in {Plain, job.files[f].holds, Gone} : disk' = [disk EXCEPT ![f] = new]
  BY DEF Rewrite
<1>4. DOMAIN disk' = DOMAIN disk /\ disk'[f] = new /\ \A g \in DOMAIN disk : g # f => disk'[g] = disk[g]
  BY <1>3
<1>5. This' = This
  BY <1>2 DEF This
<1>6. Sound(new)
  <2>1. CASE new = job.files[f].holds
    BY <1>1, <2>1, JobsAssumption DEF PublishTypes, Sound
  <2>2. CASE new # job.files[f].holds
    BY <1>3, <2>2 DEF Sound, Plain, Gone
  <2> QED BY <2>1, <2>2
<1>7. PublishTypes'
  <2>1. rewritten' \in BOOLEAN
    BY <1>1, <1>2 DEF PublishTypes
  <2> QED BY <1>1, <1>2, <1>4, <2>1 DEF PublishTypes
<1>8. ContentsInv'
  <2>1. \A g \in DOMAIN disk : Sound(disk'[g])
    BY <1>1, <1>4, <1>6 DEF ContentsInv
  <2> QED BY <1>1, <1>2, <1>4, <2>1 DEF ContentsInv
<1>9. SealedInv'
  <2>1. step = "prepare" => rewritten' \/ disk'[This] = loaded
    <3>1. step = "prepare" => walk # <<>> /\ This \in DOMAIN disk
      BY <1>1, ThisIsThere DEF PublishTypes, OnFile
    <3>2. CASE f = This
      BY <1>2, <3>1, <3>2
    <3>3. CASE f # This
      BY <1>1, <1>2, <1>4, <3>1, <3>3 DEF SealedInv
    <3> QED BY <3>2, <3>3
  <2>2. rewritten => rewritten'
    BY <1>2
  <2> QED BY <1>1, <1>2, <1>5, <2>1, <2>2, SameJob DEF SealedInv
<1>10. AgreedInv'
  BY <1>1, <1>2, <1>5, SameJob DEF AgreedInv
<1> QED BY <1>7, <1>8, <1>9, <1>10 DEF PublishInv

LEMMA PublishStepsKeep == PublishInv /\ [PublishNext]_publishVars => PublishInv'
<1> SUFFICES ASSUME PublishInv, [PublishNext]_publishVars PROVE PublishInv'
  OBVIOUS
<1>1. CASE Encrypt
  BY <1>1, EncryptKeeps
<1>2. CASE LoadEncryptedFile
  BY <1>2, LoadKeeps
<1>3. CASE Reencrypt \/ ReadAgain \/ EmitAsMap
  BY <1>3, PreparingKeeps
<1>4. CASE Ask
  BY <1>4, AskKeeps
<1>5. CASE Upload
  BY <1>5, UploadKeeps
<1>6. CASE Finish
  BY <1>6, FinishKeeps
<1>7. CASE \E f \in DOMAIN disk : Rewrite(f)
  BY <1>7, RewriteKeeps
<1>8. CASE UNCHANGED publishVars
  <2>1. UNCHANGED <<job, disk, shelf, step, walk, loaded, body, agreed, rewritten, error>>
    BY <1>8 DEF publishVars
  <2>2. This' = This
    BY <2>1 DEF This
  <2>3. PublishTypes' /\ ContentsInv'
    BY <2>1 DEF PublishInv, PublishTypes, ContentsInv
  <2>4. SealedInv' /\ AgreedInv'
    BY <2>1, <2>2, SameJob DEF PublishInv, SealedInv, AgreedInv
  <2> QED BY <2>3, <2>4 DEF PublishInv
<1> QED BY <1>1, <1>2, <1>3, <1>4, <1>5, <1>6, <1>7, <1>8 DEF PublishNext

LEMMA PublishStarts == PublishInit => PublishInv
<1> SUFFICES ASSUME PublishInit PROVE PublishInv
  OBVIOUS
<1> DEFINE n == IF job.op = "publish" THEN Len(job.files) ELSE 0
<1>1. /\ job \in Jobs /\ disk = [f \in DOMAIN job.files |-> job.files[f].holds]
      /\ DOMAIN shelf = {} /\ body = Plain /\ loaded = Plain
      /\ step = (IF job.op = "publish" THEN "load" ELSE "encrypt")
      /\ walk = [i \in 1..n |-> i] /\ agreed = {} /\ rewritten = FALSE /\ error = FALSE
  BY DEF PublishInit
<1>2. Len(job.files) \in Nat /\ DOMAIN job.files = 1..Len(job.files)
  BY <1>1, FilesOfJob
<1>3. n \in Nat /\ 1..n \subseteq DOMAIN job.files /\ (n = 0 \/ n = Len(job.files))
  BY <1>2
<1> HIDE DEF n
<1>4. walk \in Seq(DOMAIN job.files) /\ Len(walk) = n /\ DOMAIN walk = 1..n
  <2>1. walk \in [1..n -> DOMAIN job.files]
    BY <1>1, <1>3
  <2> QED BY <1>3, <2>1, ListOfValues
<1>5. \A i \in DOMAIN walk : walk[i] = Len(job.files) - Len(walk) + i
  <2> SUFFICES ASSUME NEW i \in 1..n PROVE walk[i] = Len(job.files) - n + i
    BY <1>4
  <2>1. walk[i] = i /\ n = Len(job.files) /\ i \in Int
    BY <1>1, <1>3
  <2>2. Len(job.files) - Len(job.files) + i = i
    BY <1>2, <2>1
  <2> QED BY <2>1, <2>2
<1>6. PublishTypes
  BY <1>1, <1>4, <1>5 DEF PublishTypes, Steps, WalkSteps, OnFile
<1>7. ContentsInv
  <2>1. Sound(Plain)
    BY DEF Sound, Plain
  <2>2. \A f \in DOMAIN job.files : Sound(job.files[f].holds)
    BY <1>1, JobsAssumption DEF Sound
  <2> QED BY <1>1, <2>1, <2>2 DEF ContentsInv
<1>8. SealedInv /\ AgreedInv
  BY <1>1 DEF SealedInv, AgreedInv
<1> QED BY <1>6, <1>7, <1>8 DEF PublishInv

-----------------------------------------------------------------------------
(***************************************************************************)
(* Whose keys a file has                                                   *)
(***************************************************************************)
Asked == SettingsOf(job).ok /\ Wrappable(SettingsOf(job).groups, SettingsOf(job).threshold)

\* What is made for a destination has the groups of its rule.
MadeByRule(c, f) ==
  c.form = "sealed" => /\ c.by # "encrypt"
                       /\ c.by = "publish" => Rule(f).ok /\ c.settings.groups = Rule(f).conf.groups

\* Files on the disk that the command has not written are of earlier runs.
KeysInv ==
  /\ \A f \in DOMAIN disk : disk[f].form = "sealed" =>
       /\ disk[f].by # "publish"
       /\ disk[f].by = "encrypt" => job.op = "encrypt" /\ Asked /\ disk[f].settings = SettingsOf(job)
  /\ DOMAIN shelf # {} => job.op = "publish"
  /\ \A n \in DOMAIN shelf : MadeByRule(shelf[n].body, shelf[n].of)
  /\ step \in OnFile => Rule(This).ok
  /\ step \in {"ask", "upload"} => MadeByRule(body, This)

RotateInv ==
  job.op = "rotate" =>
    /\ step = "over" => Asked /\ disk[1] = Encrypted(SettingsOf(job), job.files[1].names, "rotate")

LEMMA SameAsked ==
  ASSUME job' = job
  PROVE  /\ Asked' <=> Asked
         /\ \A f : Rule(f)' = Rule(f)
         /\ \A c, f : MadeByRule(c, f)' <=> MadeByRule(c, f)
         /\ SettingsOf(job)' = SettingsOf(job)
BY DEF Asked, Rule, MadeByRule

LEMMA SealedInFiles ==
  ASSUME NEW j \in Jobs, NEW f \in DOMAIN j.files, j.files[f].holds.form = "sealed"
  PROVE  j.files[f].holds.by \notin {"encrypt", "publish"}
BY JobsAssumption

LEMMA KeysStart == PublishInit => KeysInv /\ RotateInv
<1> SUFFICES ASSUME PublishInit PROVE KeysInv /\ RotateInv
  OBVIOUS
<1>1. /\ job \in Jobs /\ disk = [f \in DOMAIN job.files |-> job.files[f].holds]
      /\ DOMAIN shelf = {} /\ step \in {"load", "encrypt"}
  BY DEF PublishInit
<1>2. \A f \in DOMAIN disk : disk[f].form = "sealed" => disk[f].by # "publish" /\ disk[f].by # "encrypt"
  BY <1>1, SealedInFiles
<1>3. KeysInv
  BY <1>1, <1>2 DEF KeysInv, OnFile
<1>4. RotateInv
  BY <1>1 DEF RotateInv
<1> QED BY <1>3, <1>4

LEMMA EncryptKeepsKeys ==
  ASSUME PublishInv, KeysInv, Encrypt
  PROVE  KeysInv' /\ RotateInv'
<1>1. step = "encrypt" /\ job.op # "publish" /\ UNCHANGED <<job, shelf, walk, body>>
  BY DEF Encrypt, PublishInv, PublishTypes
<1> DEFINE new == Encrypted(SettingsOf(job), job.files[1].names, job.op)
<1>2. \/ Asked /\ step' = "over" /\ disk' = [disk EXCEPT ![1] = new]
      \/ step' = "failed" /\ disk' = disk
  BY DEF Encrypt, StepTo, Fail, Asked
<1>3. new.form = "sealed" /\ new.by = job.op /\ new.settings = SettingsOf(job)
  BY DEF Encrypted
<1>4. 1 \in DOMAIN disk
  BY FilesOfJob DEF PublishInv, PublishTypes
<1> HIDE DEF new
<1>5. \A f \in DOMAIN disk' : disk'[f].form = "sealed" =>
        /\ disk'[f].by # "publish"
        /\ disk'[f].by = "encrypt" => job.op = "encrypt" /\ Asked /\ disk'[f].settings = SettingsOf(job)
  BY <1>1, <1>2, <1>3, <1>4 DEF KeysInv
<1>6. KeysInv'
  <2>1. DOMAIN shelf' = {} /\ step' \notin OnFile /\ step' \notin {"ask", "upload"}
    BY <1>1, <1>2 DEF KeysInv, OnFile
  <2> QED BY <1>1, <1>5, <2>1, SameAsked DEF KeysInv
<1>7. RotateInv'
  <2>1. Asked' <=> Asked
    BY <1>1, SameAsked
  <2>2. job.op = "rotate" => new = Encrypted(SettingsOf(job), job.files[1].names, "rotate")
    BY DEF new
  <2> QED BY <1>1, <1>2, <1>4, <2>1, <2>2, SameAsked DEF RotateInv
<1> QED BY <1>6, <1>7

\* The steps of publish are none of rotate.
LEMMA WalkKeepsRotated ==
  ASSUME PublishInv, job' = job, step \in WalkSteps
  PROVE  RotateInv'
<1>1. job.op = "publish"
  BY DEF PublishInv, PublishTypes
<1> QED BY <1>1 DEF RotateInv

LEMMA LoadKeepsKeys ==
  ASSUME PublishInv, KeysInv, LoadEncryptedFile
  PROVE  KeysInv' /\ RotateInv'
<1>1. step = "load" /\ UNCHANGED <<job, disk, shelf, walk, body>>
  BY DEF LoadEncryptedFile
<1>2. \/ step' = "prepare" /\ Rule(This).ok
      \/ step' = "failed"
  BY DEF LoadEncryptedFile, StepTo, Fail, Loads
<1>3. This' = This
  BY <1>1 DEF This
<1>4. KeysInv'
  BY <1>1, <1>2, <1>3, SameAsked DEF KeysInv, OnFile
<1> QED BY <1>1, <1>4, WalkKeepsRotated DEF WalkSteps

LEMMA PreparingKeepsKeys ==
  ASSUME PublishInv, KeysInv, Reencrypt \/ ReadAgain \/ EmitAsMap
  PROVE  KeysInv' /\ RotateInv'
<1>1. step = "prepare" /\ UNCHANGED <<job, disk, shelf, walk>>
  BY DEF Reencrypt, ReadAgain, EmitAsMap
<1>2. This \in DOMAIN disk /\ This' = This /\ job.op = "publish"
  BY <1>1, ThisIsThere DEF This, PublishInv, PublishTypes, OnFile, WalkSteps
<1>3. \/ step' = "ask" /\ MadeByRule(body', This)
      \/ step' = "failed" /\ body' = body
  <2>1. CASE Reencrypt
    <3> DEFINE settings == Recreated(Rule(This).conf)
               new == Encrypted(settings, loaded.names, "publish")
    <3>1. \/ step' = "ask" /\ body' = new
          \/ step' = "failed" /\ body' = body
      BY <2>1 DEF Reencrypt, StepTo, Fail, Prepares
    <3>2. settings.groups = Rule(This).conf.groups
      BY DEF Recreated, Settled
    <3> HIDE DEF settings
    <3>3. new.by = "publish" /\ new.settings = settings
      BY DEF Encrypted
    <3>4. Rule(This).ok
      BY <1>1 DEF KeysInv, OnFile
    <3> HIDE DEF new
    <3> QED BY <3>1, <3>2, <3>3, <3>4 DEF MadeByRule
  <2>2. CASE ReadAgain
    <3>1. \/ step' = "ask" /\ body' = disk[This]
          \/ step' = "failed" /\ body' = body
      BY <2>2 DEF ReadAgain, StepTo, Fail, Prepares
    <3> QED BY <1>2, <3>1 DEF KeysInv, MadeByRule
  <2>3. CASE EmitAsMap
    <3>1. \/ step' = "ask" /\ body' = Plain
          \/ step' = "failed" /\ body' = body
      BY <2>3 DEF EmitAsMap, StepTo, Fail, Prepares
    <3> QED BY <3>1 DEF MadeByRule, Plain
  <2> QED BY <2>1, <2>2, <2>3
<1>4. KeysInv'
  BY <1>1, <1>2, <1>3, SameAsked DEF KeysInv, OnFile
<1> QED BY <1>1, <1>4, WalkKeepsRotated DEF WalkSteps

LEMMA AskKeepsKeys ==
  ASSUME PublishInv, KeysInv, Ask
  PROVE  KeysInv' /\ RotateInv'
<1>1. step = "ask" /\ UNCHANGED <<job, disk, shelf, body>>
  BY DEF Ask
<1>2. \/ step' = "upload" /\ walk' = walk
      \/ step' \in {"load", "failed"}
  BY DEF Ask, StepTo, Fail
<1>3. walk' = walk => This' = This
  BY DEF This
<1>4. KeysInv'
  BY <1>1, <1>2, <1>3, SameAsked DEF KeysInv, OnFile
<1> QED BY <1>1, <1>4, WalkKeepsRotated DEF WalkSteps

LEMMA UploadKeepsKeys ==
  ASSUME PublishInv, KeysInv, Upload
  PROVE  KeysInv' /\ RotateInv'
<1>1. step = "upload" /\ UNCHANGED <<job, disk, body>> /\ step' \in {"load", "failed"}
  BY DEF Upload, LostOnClose, StepTo, Fail
<1> DEFINE place == DestinationName(This)
           item == [body |-> body, of |-> This, stale |-> rewritten]
<1>2. \/ shelf' = [n \in DOMAIN shelf \cup {place} |-> IF n = place THEN item ELSE shelf[n]]
      \/ shelf' = shelf
  BY DEF Upload, LostOnClose
<1>3. item.body = body /\ item.of = This
  OBVIOUS
<1>4. MadeByRule(body, This) /\ job.op = "publish"
  BY <1>1 DEF KeysInv, PublishInv, PublishTypes, WalkSteps
<1> HIDE DEF item, place
<1>5. \A n \in DOMAIN shelf' : MadeByRule(shelf'[n].body, shelf'[n].of)
  BY <1>2, <1>3, <1>4 DEF KeysInv
<1>6. KeysInv'
  BY <1>1, <1>4, <1>5, SameAsked DEF KeysInv, OnFile
<1> QED BY <1>1, <1>6, WalkKeepsRotated DEF WalkSteps

LEMMA RewriteKeepsKeys ==
  ASSUME PublishInv, KeysInv, NEW f \in DOMAIN disk, Rewrite(f)
  PROVE  KeysInv' /\ RotateInv'
<1>1. job.op = "publish" /\ UNCHANGED <<job, shelf, step, walk, body>>
  BY DEF Rewrite
<1>2. PICK new \in {Plain, job.files[f].holds, Gone} : disk' = [disk EXCEPT ![f] = new]
  BY DEF Rewrite
<1>3. new.form = "sealed" => new.by # "publish" /\ new.by # "encrypt"
  <2>1. job \in Jobs /\ f \in DOMAIN job.files
    BY DEF PublishInv, PublishTypes
  <2>2. Plain.form # "sealed" /\ Gone.form # "sealed"
    BY DEF Plain, Gone
  <2> QED BY <2>1, <2>2, SealedInFiles
<1>4. \A g \in DOMAIN disk' : disk'[g].form = "sealed" =>
        disk'[g].by # "publish" /\ (disk'[g].by = "encrypt" => disk'[g] = disk[g] /\ g \in DOMAIN disk)
  BY <1>2, <1>3 DEF KeysInv
<1>5. This' = This
  BY <1>1 DEF This
<1>6. KeysInv'
  BY <1>1, <1>4, <1>5, SameAsked DEF KeysInv
<1> QED BY <1>1, <1>6 DEF RotateInv

LEMMA KeysStepsKeep == PublishInv /\ KeysInv /\ RotateInv /\ [PublishNext]_publishVars => KeysInv' /\ RotateInv'
<1> SUFFICES ASSUME PublishInv, KeysInv, RotateInv, [PublishNext]_publishVars PROVE KeysInv' /\ RotateInv'
  OBVIOUS
<1>1. CASE Encrypt
  BY <1>1, EncryptKeepsKeys
<1>2. CASE LoadEncryptedFile
  BY <1>2, LoadKeepsKeys
<1>3. CASE Reencrypt \/ ReadAgain \/ EmitAsMap
  BY <1>3, PreparingKeepsKeys
<1>4. CASE Ask
  BY <1>4, AskKeepsKeys
<1>5. CASE Upload
  BY <1>5, UploadKeepsKeys
<1>6. CASE Finish
  <2>1. step = "load" /\ step' = "over" /\ UNCHANGED <<job, disk, shelf, walk, body>>
    BY <1>6 DEF Finish, StepTo
  <2>2. KeysInv'
    BY <2>1, SameAsked DEF KeysInv, OnFile
  <2> QED BY <2>1, <2>2, WalkKeepsRotated DEF WalkSteps
<1>7. CASE \E f \in DOMAIN disk : Rewrite(f)
  BY <1>7, RewriteKeepsKeys
<1>8. CASE UNCHANGED publishVars
  <2>1. UNCHANGED <<job, disk, shelf, step, walk, body>>
    BY <1>8 DEF publishVars
  <2>2. This' = This
    BY <2>1 DEF This
  <2>3. KeysInv'
    BY <2>1, <2>2, SameAsked DEF KeysInv
  <2>4. RotateInv'
    BY <2>1, SameAsked DEF RotateInv
  <2> QED BY <2>3, <2>4
<1> QED BY <1>1, <1>2, <1>3, <1>4, <1>5, <1>6, <1>7, <1>8 DEF PublishNext

-----------------------------------------------------------------------------
\* What the reader of a file has, when it was made with the groups of a rule.
LEMMA KeysOfRule ==
  ASSUME NEW rule, rule.flat \in Seq(MasterKeys), rule.key_groups \in Seq(KeyGroups),
         NEW c, c.settings.groups = getKeyGroupsFromCreationRule(rule), ToInternal(c).ok
  PROVE  LET groups == ToInternal(c).groups
         IN /\ [i \in DOMAIN groups |-> ToSet(groups[i])] = MeantGroups(rule)
            /\ rule.key_groups # <<>> => \A i \in DOMAIN groups : IsInjective(groups[i])
<1> DEFINE given == c.settings.groups
           groups == ToInternal(c).groups
<1>1. /\ given \in Seq(Seq(MasterKeys))
      /\ [i \in DOMAIN given |-> ToSet(given[i])] = MeantGroups(rule)
      /\ rule.key_groups # <<>> => \A i \in DOMAIN given : IsInjective(given[i])
  BY ConfiguredGroups
<1>2. groups \in Seq(Seq(MasterKeys)) /\ Len(groups) = Len(given)
      /\ \A i \in DOMAIN groups : /\ ToSet(groups[i]) = ToSet(given[i])
                                  /\ IsInjective(given[i]) => IsInjective(groups[i])
  BY <1>1, ReadGroups
<1> HIDE DEF given, groups
<1>3. DOMAIN groups = DOMAIN given
  BY <1>1, <1>2, LenProperties
<1>4. [i \in DOMAIN groups |-> ToSet(groups[i])] = [i \in DOMAIN given |-> ToSet(given[i])]
  BY <1>2, <1>3
<1> QED BY <1>1, <1>2, <1>3, <1>4 DEF groups

LEMMA RulesOfJob ==
  ASSUME NEW j \in Jobs, j.op \in {"encrypt", "publish"}
  PROVE  /\ j.rules \in Seq(ToSet(j.rules))
         /\ \A i \in DOMAIN j.rules :
              j.rules[i].flat \in Seq(MasterKeys) /\ j.rules[i].key_groups \in Seq(KeyGroups)
BY JobsAssumption

\* The command encrypt takes the keys of the command line, or of the rule for the file.
LEMMA KeysOfEncrypt ==
  ASSUME job \in Jobs, job.op = "encrypt", Asked, NEW c, c.settings = SettingsOf(job), ToInternal(c).ok
  PROVE  LET groups == ToInternal(c).groups
             rule == Applies(job.rules, 1)
         IN IF job.cli.keys # <<>> THEN [i \in DOMAIN groups |-> ToSet(groups[i])] = <<ToSet(job.cli.keys)>>
            ELSE /\ [i \in DOMAIN groups |-> ToSet(groups[i])] = MeantGroups(job.rules[rule])
                 /\ job.rules[rule].key_groups # <<>> => \A i \in DOMAIN groups : IsInjective(groups[i])
<1> DEFINE conf == parseCreationRuleForFile(job.rules, 1)
           cli == job.cli
<1>1. SettingsOf(job) = IF conf.ok THEN getEncryptConfig(cli, conf, Single(job)) ELSE Refused
  BY DEF SettingsOf
<1>2. ~Refused.ok
  BY DEF Refused
<1> HIDE DEF conf
<1>3. conf.ok /\ c.settings = getEncryptConfig(cli, conf, Single(job)) /\ c.settings.ok
  BY <1>1, <1>2 DEF Asked
<1>4. c.settings.groups = keyGroups(cli, conf)
  BY <1>2, <1>3 DEF getEncryptConfig, Settled
<1>5. CASE cli.keys # <<>>
  <2> DEFINE keys == cli.keys
             one == InOrder(keys, CliOrder)
             groups == ToInternal(c).groups
  <2>1. c.settings.groups = <<one>>
    BY <1>4, <1>5 DEF keyGroups
  <2>2. keys \in Seq(MasterKeys)
    BY JobsAssumption
  <2> HIDE DEF keys
  <2>3. one \in Seq(MasterKeys) /\ ToSet(one) = ToSet(keys)
    BY <2>2, OrderedByType
  <2> HIDE DEF one
  <2>4. <<one>> \in Seq(Seq(MasterKeys)) /\ DOMAIN <<one>> = 1..1
        /\ [i \in DOMAIN <<one>> |-> ToSet(<<one>>[i])] = <<ToSet(one)>>
    BY <2>3, SingleGroup
  <2> DEFINE given == <<one>>
  <2>5. given \in Seq(Seq(MasterKeys)) /\ [i \in DOMAIN given |-> ToSet(given[i])] = <<ToSet(keys)>>
        /\ c.settings.groups = given
    BY <2>1, <2>3, <2>4
  <2> HIDE DEF given
  <2>6. groups \in Seq(Seq(MasterKeys)) /\ Len(groups) = Len(given)
        /\ \A i \in DOMAIN groups : ToSet(groups[i]) = ToSet(given[i])
    BY <2>5, ReadGroups
  <2> HIDE DEF groups
  <2>7. DOMAIN groups = DOMAIN given
    BY <2>5, <2>6, LenProperties
  <2>8. [i \in DOMAIN groups |-> ToSet(groups[i])] = [i \in DOMAIN given |-> ToSet(given[i])]
    BY <2>6, <2>7
  <2>9. [i \in DOMAIN groups |-> ToSet(groups[i])] = <<ToSet(keys)>>
    BY <2>5, <2>8
  <2> QED BY <1>5, <2>9 DEF groups, keys
<1>6. CASE cli.keys = <<>>
  <2>1. keyGroups(cli, conf) # <<>>
    BY <1>4 DEF Asked, Wrappable
  <2>2. conf.rules /\ c.settings.groups = conf.groups
    BY <1>4, <1>6, <2>1 DEF keyGroups
  <2> DEFINE rule == Applies(job.rules, 1)
  <2>3. rule \in DOMAIN job.rules /\ conf.groups = getKeyGroupsFromCreationRule(job.rules[rule])
    BY <1>3, <2>2, RulesOfJob, RuleOfCreation DEF conf
  <2> HIDE DEF rule
  <2>4. job.rules[rule].flat \in Seq(MasterKeys) /\ job.rules[rule].key_groups \in Seq(KeyGroups)
    BY <2>3, RulesOfJob
  <2> DEFINE here == job.rules[rule]
  <2>5. here.flat \in Seq(MasterKeys) /\ here.key_groups \in Seq(KeyGroups)
        /\ c.settings.groups = getKeyGroupsFromCreationRule(here)
    BY <2>2, <2>3, <2>4
  <2> HIDE DEF here
  <2> DEFINE groups == ToInternal(c).groups
  <2>6. /\ [i \in DOMAIN groups |-> ToSet(groups[i])] = MeantGroups(here)
        /\ here.key_groups # <<>> => \A i \in DOMAIN groups : IsInjective(groups[i])
    BY <2>5, KeysOfRule
  <2> HIDE DEF groups
  <2> QED BY <1>6, <2>6 DEF groups, here, rule
<1> QED BY <1>5, <1>6

LEMMA KeysFromInvariants == PublishInv /\ KeysInv => KeysAsConfigured
<1> SUFFICES ASSUME PublishInv, KeysInv, NEW c \in Files, ToInternal(c).ok, c.by \in {"encrypt", "publish"}
             PROVE  LET groups == ToInternal(c).groups
        rule == IF c.by = "publish" THEN Applies(job.rules, shelf[CHOOSE n \in DOMAIN shelf : shelf[n].body = c].of)
                ELSE Applies(job.rules, 1)
        meant == IF c.by = "encrypt" /\ job.cli.keys # <<>> THEN <<ToSet(job.cli.keys)>>
                 ELSE MeantGroups(job.rules[rule])
    IN   /\ [i \in DOMAIN groups |-> ToSet(groups[i])] = meant
         /\ job.rules # <<>> /\ job.rules[rule].key_groups # <<>> /\ (c.by = "encrypt" => job.cli.keys = <<>>)
              => \A i \in DOMAIN groups : IsInjective(groups[i])
  BY DEF KeysAsConfigured
<1>1. job \in Jobs
  BY DEF PublishInv, PublishTypes
<1>2. c.form = "sealed" /\ ((\E f \in DOMAIN disk : c = disk[f]) \/ \E n \in DOMAIN shelf : c = shelf[n].body)
  BY DEF Files
<1> DEFINE groups == ToInternal(c).groups
<1> HIDE DEF groups
<1>3. CASE c.by = "publish"
  <2> DEFINE n == CHOOSE n \in DOMAIN shelf : shelf[n].body = c
             rule == Applies(job.rules, shelf[n].of)
  <2>1. \E m \in DOMAIN shelf : shelf[m].body = c
    BY <1>2, <1>3 DEF KeysInv
  <2>2. n \in DOMAIN shelf /\ shelf[n].body = c
    BY <2>1
  <2> HIDE DEF n
  <2>3. Rule(shelf[n].of).ok /\ c.settings.groups = Rule(shelf[n].of).conf.groups /\ job.op = "publish"
    BY <1>2, <1>3, <2>2 DEF KeysInv, MadeByRule
  <2>4. rule \in DOMAIN job.rules /\ c.settings.groups = getKeyGroupsFromCreationRule(job.rules[rule])
    BY <1>1, <2>3, RulesOfJob, RuleOfDestination DEF Rule
  <2> HIDE DEF rule
  <2> DEFINE here == job.rules[rule]
  <2>5. here.flat \in Seq(MasterKeys) /\ here.key_groups \in Seq(KeyGroups)
        /\ c.settings.groups = getKeyGroupsFromCreationRule(here)
    BY <1>1, <2>3, <2>4, RulesOfJob
  <2> HIDE DEF here
  <2>6. /\ [i \in DOMAIN groups |-> ToSet(groups[i])] = MeantGroups(here)
        /\ here.key_groups # <<>> => \A i \in DOMAIN groups : IsInjective(groups[i])
    BY <2>5, KeysOfRule DEF groups
  <2> QED BY <1>3, <2>6 DEF groups, here, rule, n
<1>4. CASE c.by = "encrypt"
  <2>1. job.op = "encrypt" /\ Asked /\ c.settings = SettingsOf(job)
    BY <1>2, <1>4 DEF KeysInv, MadeByRule
  <2> DEFINE rule == Applies(job.rules, 1)
  <2>2. IF job.cli.keys # <<>> THEN [i \in DOMAIN groups |-> ToSet(groups[i])] = <<ToSet(job.cli.keys)>>
            ELSE /\ [i \in DOMAIN groups |-> ToSet(groups[i])] = MeantGroups(job.rules[rule])
                 /\ job.rules[rule].key_groups # <<>> => \A i \in DOMAIN groups : IsInjective(groups[i])
    BY <1>1, <2>1, KeysOfEncrypt DEF groups
  <2> HIDE DEF rule
  <2> QED BY <1>4, <2>2 DEF groups, rule
<1> QED BY <1>3, <1>4

LEMMA RotatedFromInvariants == PublishInv /\ RotateInv => RotatedAsAsked
<1> DEFINE Rotates == job.op = "rotate"
<1> SUFFICES ASSUME PublishInv, RotateInv, Rotates PROVE RotatedAsAsked
  BY DEF RotatedAsAsked
<1> DEFINE held == job.files[1].holds
           internal == ToInternal(held)
           given == WithAdded(internal, job.add)
           left(i) == ToSet(given[i]) \ ToSet(job.remove)
           once == \A i \in DOMAIN given : IsInjective(given[i])
           settings == SettingsOf(job)
<1>1. job \in Jobs /\ job.add \in Seq(MasterKeys) /\ job.remove \in Seq(MasterKeys)
  BY JobsAssumption DEF PublishInv, PublishTypes
<1> HIDE DEF Rotates
<1>2. /\ held.form = "sealed" /\ IsSettings(held.settings) /\ internal.ok
      /\ held.settings.groups \in Seq(Seq(MasterKeys)) /\ Wrappable(held.settings.groups, held.settings.threshold)
  <2>1. 1 \in DOMAIN job.files
    BY <1>1, FilesOfJob
  <2> QED BY <1>1, <2>1, JobsAssumption DEF Rotates
<1>3. settings = rotate(internal, job.add, job.remove)
  BY DEF SettingsOf, Rotates
<1> HIDE DEF held, settings
<1>4. /\ internal = Settled(internal.selector, held.settings.macOnly, internal.groups, held.settings.threshold)
      /\ internal.groups \in Seq(Seq(MasterKeys)) /\ Len(internal.groups) = Len(held.settings.groups)
  BY <1>2, ReadGroups
<1>5. ~Many(held.settings.selector)
  BY <1>2 DEF ToInternal, Refused
<1>6. IsSettings(internal) /\ ~Many(internal.selector)
  BY <1>2, <1>5, ReaderOf
<1>7. internal.groups # <<>> /\ internal.threshold = held.settings.threshold
  <2>1. held.settings.groups # <<>>
    BY <1>2 DEF Wrappable
  <2>2. internal.threshold = held.settings.threshold
    BY <1>4 DEF Settled
  <2> HIDE DEF internal
  <2> QED BY <1>2, <1>4, <2>1, <2>2, EmptySeq
<1> HIDE DEF internal
<1>8. /\ given \in Seq(Seq(MasterKeys)) /\ Len(given) = Len(internal.groups)
      /\ once => settings.ok
      /\ settings.ok => /\ settings = [internal EXCEPT !.groups = settings.groups]
                        /\ settings.groups \in Seq(Seq(MasterKeys)) /\ Len(settings.groups) = Len(given)
                        /\ \A i \in DOMAIN given :
                            /\ left(i) \subseteq ToSet(settings.groups[i])
                            /\ ToSet(settings.groups[i]) \subseteq ToSet(given[i])
                            /\ once => ToSet(settings.groups[i]) = left(i)
  <2>1. RotatesWell(internal, job.add, job.remove)
    BY <1>1, <1>4, <1>6, <1>7, RotatedKeys
  <2> QED BY <1>3, <2>1 DEF RotatesWell
<1>9. given = [internal.groups EXCEPT ![1] = @ \o job.add]
  BY DEF WithAdded
<1> HIDE DEF given
<1>10. DOMAIN given = 1..Len(given) /\ (settings.ok => DOMAIN settings.groups = DOMAIN given)
  BY <1>8, LenProperties
<1>11. ASSUME settings.ok
       PROVE  IsSettings(settings) /\ settings.threshold = internal.threshold /\ settings.selector = internal.selector
  <2>1. settings = [internal EXCEPT !.groups = settings.groups]
    BY <1>8, <1>11
  <2> QED BY <1>6, <2>1 DEF IsSettings, Settled
<1> DEFINE after == ToInternal(disk[1]).groups
<1>12. ASSUME step = "over"
       PROVE  \A i \in DOMAIN given : /\ left(i) \subseteq ToSet(after[i]) /\ ToSet(after[i]) \subseteq ToSet(given[i])
                                      /\ once => ToSet(after[i]) = left(i)
  <2> DEFINE c == disk[1]
  <2>1. settings.ok /\ c.settings = settings
    BY <1>12 DEF Rotates, RotateInv, Asked, Encrypted, settings
  <2> HIDE DEF c
  <2>2. ToInternal(c).ok
    BY <1>6, <1>11, <2>1, ReaderOf
  <2>3. c.settings.groups \in Seq(Seq(MasterKeys))
    BY <1>8, <2>1
  <2> DEFINE read == ToInternal(c).groups
  <2>4. /\ read \in Seq(Seq(MasterKeys)) /\ Len(read) = Len(settings.groups)
        /\ \A i \in DOMAIN read : ToSet(read[i]) = ToSet(settings.groups[i])
    BY <2>1, <2>2, <2>3, ReadGroups
  <2> HIDE DEF read
  <2>5. DOMAIN read = DOMAIN given
    BY <1>8, <1>10, <2>1, <2>4, LenProperties
  <2>6. \A i \in DOMAIN given : /\ left(i) \subseteq ToSet(read[i]) /\ ToSet(read[i]) \subseteq ToSet(given[i])
                                /\ once => ToSet(read[i]) = left(i)
    <3> HIDE DEF left, once
    <3> QED BY <1>8, <2>1, <2>4, <2>5
  <2> QED BY <2>6 DEF read, c
<1>13. ASSUME once, settings.ok, ~Wrappable(settings.groups, settings.threshold)
       PROVE  \E i \in DOMAIN given : left(i) = {}
  <2>1. settings.ok
    BY <1>13
  <2>2. ~Wrappable(settings.groups, settings.threshold)
    BY <1>13
  <2>3. settings.threshold = held.settings.threshold /\ Len(settings.groups) = Len(held.settings.groups)
        /\ settings.groups \in Seq(Seq(MasterKeys))
    BY <1>4, <1>7, <1>8, <1>11, <2>1
  <2>4. Len(held.settings.groups) > 1 => held.settings.threshold \in {0} \cup 2..Len(held.settings.groups)
    BY <1>2 DEF Wrappable
  <2>5. settings.groups # <<>>
    BY <1>4, <1>7, <2>3, EmptySeq, <1>8
  <2>6. PICK i \in DOMAIN settings.groups : settings.groups[i] = <<>>
    BY <2>2, <2>3, <2>4, <2>5 DEF Wrappable
  <2>7. i \in DOMAIN given /\ ToSet(settings.groups[i]) = left(i)
    BY <1>8, <1>10, <1>13, <2>1, <2>6
  <2>8. ToSet(settings.groups[i]) = {}
    BY <2>6 DEF ToSet
  <2> HIDE DEF left
  <2> QED BY <2>7, <2>8
<1>14. ASSUME once, \A i \in DOMAIN given : left(i) # {}
       PROVE  settings.ok /\ Wrappable(settings.groups, settings.threshold)
  BY <1>8, <1>13, <1>14
<1> HIDE DEF after, once
<1> QED BY <1>9, <1>12, <1>14 DEF RotatedAsAsked, after, once, internal, held, settings

-----------------------------------------------------------------------------
(***************************************************************************)
(* Theorems                                                                *)
(***************************************************************************)
\* What the contents, the walk and the destination are at every step.
THEOREM PublishInvariant == PublishSpec => []PublishInv
BY PublishStarts, PublishStepsKeep, PTL DEF PublishSpec

\* The walk is always over the last files of the directory, and an error is a failure.
THEOREM PublishTypeCorrect == PublishSpec => []PublishTypeOK
<1>1. PublishInv => PublishTypeOK
  <2> SUFFICES ASSUME PublishInv PROVE PublishTypeOK
    OBVIOUS
  <2>1. PublishTypes
    BY DEF PublishInv
  <2>2. walk = [i \in DOMAIN walk |-> Len(job.files) - Len(walk) + i]
    <3>1. walk \in Seq(DOMAIN job.files)
      BY <2>1 DEF PublishTypes
    <3>2. walk = [i \in DOMAIN walk |-> walk[i]]
      BY <3>1, LenProperties
    <3> QED BY <2>1, <3>2 DEF PublishTypes
  <2> QED BY <2>1, <2>2 DEF PublishTypes, PublishTypeOK, Steps
<1> QED BY <1>1, PublishInvariant, PTL

\* Every encrypted file on the disk and at the destination is readable by who reads it as its
\* metadata say, whatever selectors the command line and the rules combine; but for the two
\* writers that write no default down.
THEOREM EveryFileOpens == PublishSpec => []FilesOpen
<1>1. PublishInv => FilesOpen
  BY DEF PublishInv, ContentsInv, Sound, FilesOpen, Files
<1> QED BY <1>1, PublishInvariant, PTL

\* No bucket gets the clear text of a file, unless another process decrypts it in the middle of
\* its publication; and the value of a binary file is never left in the clear.
THEOREM NothingLeaksIntoBuckets == PublishSpec => []SecretsStaySealed
<1>1. PublishInv => SecretsStaySealed
  BY DEF PublishInv, ContentsInv, SealedInv, Sound, SecretsStaySealed, Files
<1> QED BY <1>1, PublishInvariant, PTL

\* A walk over a directory of any size that ends without an error has published every file that
\* was agreed to and is not meant for gcs, and nothing else.
THEOREM WalksPublishAll == PublishSpec => []WalkPublishesAll
<1>1. PublishInv => WalkPublishesAll
  <2> SUFFICES ASSUME PublishInv PROVE WalkPublishesAll
    OBVIOUS
  <2>1. \A n \in DOMAIN shelf : shelf[n].of \in agreed
    BY DEF PublishInv, AgreedInv
  <2>2. ASSUME step = "over", NEW f \in agreed, ~ToGCS(f), \A g \in agreed \ {f} : PathOf(g) # PathOf(f)
        PROVE  \E n \in DOMAIN shelf : shelf[n].of = f
    BY <2>2 DEF PublishInv, AgreedInv
  <2> QED BY <2>1, <2>2 DEF WalkPublishesAll
<1> QED BY <1>1, PublishInvariant, PTL

\* Whose keys the files have that a command makes, and what rotate has done.
THEOREM KeysInvariant == PublishSpec => [](KeysInv /\ RotateInv)
BY PublishInvariant, KeysStart, KeysStepsKeep, PTL DEF PublishSpec

\* Whatever key_groups a configuration nests and repeats keys in, the reader of a file finds in
\* every group exactly the master keys of the first rule that matches it, each of them once, or
\* those of the command line.
THEOREM FilesHaveTheConfiguredKeys == PublishSpec => []KeysAsConfigured
BY PublishInvariant, KeysInvariant, KeysFromInvariants, PTL

\* However many keys `sops rotate' adds and removes, in groups of any size: although it removes
\* keys from the array that it runs over, it takes out those that it was asked to and no other,
\* and unless nothing would be left of a group, it arrives at groups that can be encrypted for.
\* This unless a group lists a key twice.
THEOREM RotatedKeysAreAsAsked == PublishSpec => []RotatedAsAsked
BY PublishInvariant, KeysInvariant, RotatedFromInvariants, PTL
=============================================================================
