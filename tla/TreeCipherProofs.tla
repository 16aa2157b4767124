-------------------------- MODULE TreeCipherProofs --------------------------
(***************************************************************************)
(* Theorems about TreeCipher, for documents of any size, any rules and     *)
(* edits, and any number of encryptions.                                   *)
(***************************************************************************)
EXTENDS TreeCipher, FiniteSetTheorems, SequenceTheorems, WellFoundedInduction, TLAPS

-----------------------------------------------------------------------------
(***************************************************************************)
(* Counting                                                                *)
(***************************************************************************)
\* What holds of zero, and of every number whose predecessor it holds of.
LEMMA CountingUp ==
  ASSUME NEW n \in Nat, NEW T, 0 \in T, \A i \in 1..n : i - 1 \in T => i \in T
  PROVE  0..n \subseteq T
<1> DEFINE missing == {i \in 1..n : i \notin T}
           upto == {1..i : i \in missing}
<1>1. IsWellFoundedOn(StrictSubsetOrdering(1..n), SUBSET (1..n))
  <2>1. IsFiniteSet(1..n)
    BY FS_Interval
  <2> QED BY <2>1, FS_StrictSubsetOrderingWellFounded, FS_FiniteSubsetsOfFinite
<1>2. upto \subseteq SUBSET (1..n)
  <2> SUFFICES ASSUME NEW i \in missing PROVE 1..i \subseteq 1..n
    OBVIOUS
  <2> QED OBVIOUS
<1>3. ASSUME NEW i \in missing PROVE FALSE
  <2>1. upto # {}
    OBVIOUS
  <2>2. PICK x \in upto : \A y \in upto : <<y, x>> \notin StrictSubsetOrdering(1..n)
    <3> HIDE DEF upto
    <3> QED BY <1>1, <1>2, <2>1, WFMin
  <2>3. PICK m \in missing : x = 1..m
    OBVIOUS
  <2>4. m - 1 \in missing
    OBVIOUS
  <2>5. 1..(m - 1) \in upto /\ 1..(m - 1) \subseteq 1..m /\ 1..(m - 1) # 1..m
    <3>1. m \in 1..m /\ m \notin 1..(m - 1)
      OBVIOUS
    <3> QED BY <2>4, <3>1
  <2> QED BY <1>2, <2>2, <2>3, <2>5 DEF StrictSubsetOrdering
<1> QED BY <1>3

\* The same, downwards.
LEMMA CountingDown ==
  ASSUME NEW n \in Nat, NEW T, n \in T, \A i \in 0..(n - 1) : i + 1 \in T => i \in T
  PROVE  0..n \subseteq T
<1> DEFINE U == {i \in 0..n : n - i \in T}
<1>1. 0 \in U
  OBVIOUS
<1>2. ASSUME NEW i \in 1..n, i - 1 \in U PROVE i \in U
  <2>1. n - i \in 0..(n - 1) /\ (n - i) + 1 = n - (i - 1)
    OBVIOUS
  <2> QED BY <1>2, <2>1
<1>3. 0..n \subseteq U
  <2> HIDE DEF U
  <2> QED BY <1>1, <1>2, CountingUp
<1>4. ASSUME NEW i \in 0..n PROVE i \in T
  <2>1. n - i \in 0..n /\ n - (n - i) = i
    OBVIOUS
  <2> QED BY <1>3, <2>1
<1> QED BY <1>4

-----------------------------------------------------------------------------
(***************************************************************************)
(* Places                                                                  *)
(***************************************************************************)
\* The way to a place is the way to its holder and one step more.
LEMMA OneStepMore ==
  ASSUME NEW S, NEW p \in Seq(S), NEW i \in S
  PROVE  /\ Append(p, i) \in Seq(S) /\ Len(Append(p, i)) = Len(p) + 1 /\ Len(p) \in Nat
         /\ Append(p, i)[Len(p) + 1] = i /\ \A d \in 1..Len(p) : Append(p, i)[d] = p[d]
         /\ \A d \in 0..Len(p) : SubSeq(Append(p, i), 1, d) = SubSeq(p, 1, d)
         /\ SubSeq(Append(p, i), 1, Len(p)) = p
<1>1. /\ Append(p, i) \in Seq(S) /\ Len(Append(p, i)) = Len(p) + 1 /\ Len(p) \in Nat
      /\ Append(p, i)[Len(p) + 1] = i /\ \A d \in 1..Len(p) : Append(p, i)[d] = p[d]
  BY AppendProperties, LenProperties
<1>2. ASSUME NEW d \in 0..Len(p) PROVE SubSeq(Append(p, i), 1, d) = SubSeq(p, 1, d)
  <2>1. /\ SubSeq(Append(p, i), 1, d) = [k \in 1..d |-> Append(p, i)[k]]
        /\ SubSeq(p, 1, d) = [k \in 1..d |-> p[k]]
    BY <1>1
  <2>2. \A k \in 1..d : Append(p, i)[k] = p[k]
    BY <1>1
  <2> QED BY <2>1, <2>2
<1>3. SubSeq(p, 1, Len(p)) = p
  OBVIOUS
<1> QED BY <1>1, <1>2, <1>3

\* A sequence is empty or has a last element.
LEMMA LastStep ==
  ASSUME NEW S, NEW p \in Seq(S), p # <<>>
  PROVE  /\ Len(p) \in Nat \ {0} /\ SubSeq(p, 1, Len(p) - 1) \in Seq(S) /\ p[Len(p)] \in S
         /\ p = Append(SubSeq(p, 1, Len(p) - 1), p[Len(p)])
         /\ Len(SubSeq(p, 1, Len(p) - 1)) = Len(p) - 1
<1>1. Len(p) \in Nat \ {0} /\ p[Len(p)] \in S
  BY EmptySeq, LenProperties, ElementOfSeq
<1>2. SubSeq(p, 1, Len(p) - 1) = [k \in 1..(Len(p) - 1) |-> p[k]]
  BY <1>1
<1>3. SubSeq(p, 1, Len(p) - 1) \in Seq(S) /\ Len(SubSeq(p, 1, Len(p) - 1)) = Len(p) - 1
  <2>1. \A k \in 1..(Len(p) - 1) : p[k] \in S
    BY <1>1, ElementOfSeq
  <2>2. Len(p) - 1 \in Int /\ 1 \in Int
    BY <1>1
  <2> DEFINE q == SubSeq(p, 1, Len(p) - 1)
  <2>3. q \in Seq(S) /\ Len(q) = IF 1 <= Len(p) - 1 THEN Len(p) - 1 - 1 + 1 ELSE 0
    BY <2>1, <2>2, SubSeqProperties
  <2> HIDE DEF q
  <2>4. ASSUME NEW n \in Nat \ {0} PROVE (IF 1 <= n - 1 THEN n - 1 - 1 + 1 ELSE 0) = n - 1
    OBVIOUS
  <2>5. Len(q) = Len(p) - 1
    BY <1>1, <2>3, <2>4
  <2> QED BY <2>3, <2>5 DEF q
<1>4. p = Append(SubSeq(p, 1, Len(p) - 1), p[Len(p)])
  OBVIOUS
<1> QED BY <1>1, <1>3, <1>4

\* What the function in At is on the way down.
AtFor(v, p, at) == at = [d \in 0..Len(p) |-> IF d = 0 THEN v ELSE Child(at[d - 1], p[d])]

\* That function exists, so that At is what it says.
LEMMA AtExists ==
  ASSUME NEW v, NEW p, Len(p) \in Nat
  PROVE  \E at : AtFor(v, p, at) /\ At(v, p) = at[Len(p)]
<1> DEFINE n == Len(p)
           For(at, m) == at = [d \in 0..m |-> IF d = 0 THEN v ELSE Child(at[d - 1], p[d])]
           T == {m \in 0..n : \E at : For(at, m)}
<1>1. 0 \in T
  <2> DEFINE at == [d \in 0..0 |-> v]
  <2>1. at = [d \in 0..0 |-> IF d = 0 THEN v ELSE Child(at[d - 1], p[d])]
    OBVIOUS
  <2> HIDE DEF at
  <2> QED BY <2>1
<1>2. ASSUME NEW m \in 1..n, m - 1 \in T PROVE m \in T
  <2>1. PICK f : For(f, m - 1)
    BY <1>2
  <2> DEFINE at == [d \in 0..m |-> IF d = m THEN Child(f[m - 1], p[m]) ELSE f[d]]
  <2>2. \A d \in 0..m : at[d] = IF d = 0 THEN v ELSE Child(at[d - 1], p[d])
    <3> TAKE d \in 0..m
    <3>1. CASE d = m
      <4>1. at[m] = Child(f[m - 1], p[m]) /\ m # 0 /\ m - 1 # m /\ m - 1 \in 0..m
        OBVIOUS
      <4> QED BY <3>1, <4>1
    <3>2. CASE d # m /\ d # 0
      <4>1. d \in 0..(m - 1) /\ d - 1 \in 0..m /\ d - 1 # m
        BY <3>2
      <4>2. f[d] = Child(f[d - 1], p[d])
        BY <2>1, <3>2, <4>1
      <4> QED BY <3>2, <4>1, <4>2
    <3>3. CASE d = 0
      <4>1. f[0] = v
        BY <2>1
      <4> QED BY <3>3, <4>1
    <3> QED BY <3>1, <3>2, <3>3
  <2>3. at = [d \in 0..m |-> IF d = 0 THEN v ELSE Child(at[d - 1], p[d])]
    <3>1. at = [d \in 0..m |-> at[d]]
      OBVIOUS
    <3> HIDE DEF at
    <3> QED BY <2>2, <3>1
  <2> HIDE DEF at
  <2> QED BY <2>3
<1>3. n \in T
  <2> HIDE DEF T
  <2>1. 0..n \subseteq T
    BY <1>1, <1>2, CountingUp
  <2> QED BY <2>1
<1>4. PICK f : AtFor(v, p, f)
  BY <1>3 DEF AtFor
<1> DEFINE at == CHOOSE at : at = [d \in 0..Len(p) |-> IF d = 0 THEN v ELSE Child(at[d - 1], p[d])]
<1>5. AtFor(v, p, at)
  BY <1>4 DEF AtFor
<1>6. At(v, p) = at[Len(p)]
  BY DEF At
<1> QED BY <1>5, <1>6

\* At of the empty path is the document, and At of a longer one is a child of the value above.
LEMMA AtStep ==
  ASSUME NEW v, NEW p \in Seq(Nat), NEW i \in Nat
  PROVE  At(v, <<>>) = v /\ At(v, Append(p, i)) = Child(At(v, p), i)
<1>1. At(v, <<>>) = v
  <2>1. Len(<<>>) = 0
    OBVIOUS
  <2>2. PICK at : AtFor(v, <<>>, at) /\ At(v, <<>>) = at[0]
    BY <2>1, AtExists
  <2> QED BY <2>1, <2>2 DEF AtFor
<1> DEFINE q == Append(p, i)
           n == Len(p)
<1>2. n \in Nat /\ Len(q) = n + 1 /\ q[n + 1] = i /\ \A d \in 1..n : q[d] = p[d]
  BY OneStepMore
<1>3. PICK f : AtFor(v, p, f) /\ At(v, p) = f[n]
  BY <1>2, AtExists
<1> HIDE DEF q
<1>4. PICK g : AtFor(v, q, g) /\ At(v, q) = g[n + 1]
  <2>1. Len(q) \in Nat
    BY <1>2
  <2>2. \E g : AtFor(v, q, g) /\ At(v, q) = g[Len(q)]
    BY <2>1, AtExists
  <2> QED BY <1>2, <2>2
<1> HIDE DEF n
<1> DEFINE T == {d \in 0..n : f[d] = g[d]}
<1>5. 0 \in T
  BY <1>2, <1>3, <1>4 DEF AtFor, n
<1>6. ASSUME NEW d \in 1..n, d - 1 \in T PROVE d \in T
  <2>1. d \in 0..n /\ d \in 0..(n + 1) /\ d # 0
    BY <1>2
  <2>2. f[d] = Child(f[d - 1], p[d]) /\ g[d] = Child(g[d - 1], q[d])
    BY <1>2, <1>3, <1>4, <2>1 DEF AtFor, n
  <2> QED BY <1>2, <1>6, <2>1, <2>2
<1>7. f[n] = g[n]
  <2> HIDE DEF T
  <2>1. 0..n \subseteq T
    BY <1>2, <1>5, <1>6, CountingUp
  <2>2. n \in T
    BY <1>2, <2>1
  <2> QED BY <2>2 DEF T
<1>8. g[n + 1] = Child(g[n], i)
  <2>1. n + 1 \in 0..(n + 1) /\ n + 1 # 0 /\ (n + 1) - 1 = n
    BY <1>2
  <2> QED BY <1>2, <1>4, <2>1 DEF AtFor
<1> QED BY <1>1, <1>3, <1>4, <1>7, <1>8 DEF q

\* The places down to each level.
DownFor(v, down) ==
  down = [d \in 0..MaxDepth |->
            IF d = 0 THEN {<<>>}
            ELSE LET above == down[d - 1]
                     lowest == {p \in above : Len(p) = d - 1 /\ IsContainer(At(v, p))}
                 IN above \cup UNION {{Append(p, i) : i \in DOMAIN At(v, p).items} : p \in lowest}]

\* The function in Nodes, which adds one level after the other, exists.
LEMMA DownExists ==
  ASSUME NEW v
  PROVE  \E down : DownFor(v, down) /\ Nodes(v) = down[MaxDepth]
<1> DEFINE More(above, d) ==
             above \cup UNION {{Append(p, i) : i \in DOMAIN At(v, p).items} :
                               p \in {p \in above : Len(p) = d - 1 /\ IsContainer(At(v, p))}}
           For(down, m) == down = [d \in 0..m |-> IF d = 0 THEN {<<>>} ELSE More(down[d - 1], d)]
           T == {m \in 0..MaxDepth : \E down : For(down, m)}
<1> HIDE DEF More
<1>0. MaxDepth \in Nat
  BY TreeAssumption
<1>1. 0 \in T
  <2> DEFINE down == [d \in 0..0 |-> {<<>>}]
  <2>1. down = [d \in 0..0 |-> IF d = 0 THEN {<<>>} ELSE More(down[d - 1], d)]
    OBVIOUS
  <2> HIDE DEF down
  <2> QED BY <1>0, <2>1
<1>2. ASSUME NEW m \in 1..MaxDepth, m - 1 \in T PROVE m \in T
  <2>1. PICK f : For(f, m - 1)
    BY <1>2
  <2> DEFINE down == [d \in 0..m |-> IF d = m THEN More(f[m - 1], m) ELSE f[d]]
  <2>2. \A d \in 0..m : down[d] = IF d = 0 THEN {<<>>} ELSE More(down[d - 1], d)
    <3> TAKE d \in 0..m
    <3>1. CASE d = m
      <4>1. down[m] = More(f[m - 1], m) /\ m # 0 /\ m - 1 # m /\ m - 1 \in 0..m
        BY <1>0
      <4> QED BY <3>1, <4>1
    <3>2. CASE d # m /\ d # 0
      <4>1. d \in 0..(m - 1) /\ d - 1 \in 0..m /\ d - 1 # m
        BY <1>0, <3>2
      <4>2. f[d] = More(f[d - 1], d)
        BY <2>1, <3>2, <4>1
      <4> QED BY <3>2, <4>1, <4>2
    <3>3. CASE d = 0
      <4>1. f[0] = {<<>>}
        BY <1>0, <2>1
      <4> QED BY <1>0, <3>3, <4>1
    <3> QED BY <3>1, <3>2, <3>3
  <2>3. down = [d \in 0..m |-> IF d = 0 THEN {<<>>} ELSE More(down[d - 1], d)]
    <3>1. down = [d \in 0..m |-> down[d]]
      OBVIOUS
    <3> HIDE DEF down
    <3> QED BY <2>2, <3>1
  <2> HIDE DEF down
  <2> QED BY <2>3
<1>3. MaxDepth \in T
  <2> HIDE DEF T
  <2>1. 0..MaxDepth \subseteq T
    BY <1>0, <1>1, <1>2, CountingUp
  <2> QED BY <1>0, <2>1
<1>4. PICK f : DownFor(v, f)
  BY <1>3 DEF DownFor, More
<1> DEFINE down == CHOOSE down : DownFor(v, down)
<1>5. DownFor(v, down)
  BY <1>4
<1>6. Nodes(v) = down[MaxDepth]
  BY DEF Nodes, DownFor
<1> QED BY <1>5, <1>6

\* What holds of the whole document, and of what a container holds if it holds of the container,
\* holds of every place.
LEMMA FromAbove ==
  ASSUME NEW v, NEW T, <<>> \in T,
         \A p \in Nodes(v) :
           p \in T /\ Len(p) < MaxDepth /\ IsContainer(At(v, p))
           => \A i \in DOMAIN At(v, p).items : Append(p, i) \in T
  PROVE  Nodes(v) \subseteq T
<1>0. MaxDepth \in Nat
  BY TreeAssumption
<1>1. PICK down : DownFor(v, down) /\ Nodes(v) = down[MaxDepth]
  BY DownExists
<1>2. /\ down[0] = {<<>>}
      /\ \A d \in 1..MaxDepth : down[d - 1] \subseteq down[d] /\ \A q \in down[d] :
           q \in down[d - 1] \/ \E p \in down[d - 1] :
              Len(p) = d - 1 /\ IsContainer(At(v, p)) /\ \E i \in DOMAIN At(v, p).items : q = Append(p, i)
  <2>1. 0 \in 0..MaxDepth /\ \A d \in 1..MaxDepth : d \in 0..MaxDepth /\ d # 0
    BY <1>0
  <2>2. down[0] = {<<>>}
    BY <1>1, <2>1 DEF DownFor
  <2>3. ASSUME NEW d \in 1..MaxDepth PROVE
          down[d] = down[d - 1] \cup UNION {{Append(p, i) : i \in DOMAIN At(v, p).items} :
                      p \in {p \in down[d - 1] : Len(p) = d - 1 /\ IsContainer(At(v, p))}}
    BY <1>1, <2>1 DEF DownFor
  <2>4. ASSUME NEW d \in 1..MaxDepth, NEW q \in down[d], q \notin down[d - 1]
        PROVE  \E p \in down[d - 1] :
                 Len(p) = d - 1 /\ IsContainer(At(v, p)) /\ \E i \in DOMAIN At(v, p).items : q = Append(p, i)
    <3> DEFINE lowest == {p \in down[d - 1] : Len(p) = d - 1 /\ IsContainer(At(v, p))}
    <3>1. q \in UNION {{Append(p, i) : i \in DOMAIN At(v, p).items} : p \in lowest}
      BY <2>3, <2>4
    <3>2. PICK p \in lowest : q \in {Append(p, i) : i \in DOMAIN At(v, p).items}
      BY <3>1
    <3> QED BY <3>2
  <2> QED BY <2>2, <2>3, <2>4
<1>3. \A d \in 0..MaxDepth : down[d] \subseteq Nodes(v)
  <2> DEFINE U == {d \in 0..MaxDepth : down[d] \subseteq Nodes(v)}
  <2>1. MaxDepth \in U
    BY <1>0, <1>1
  <2>2. ASSUME NEW d \in 0..(MaxDepth - 1), d + 1 \in U PROVE d \in U
    <3>1. d + 1 \in 1..MaxDepth /\ (d + 1) - 1 = d /\ d \in 0..MaxDepth
      BY <1>0
    <3>2. down[(d + 1) - 1] \subseteq down[d + 1]
      BY <1>2, <3>1
    <3> QED BY <2>2, <3>1, <3>2
  <2> HIDE DEF U
  <2>3. 0..MaxDepth \subseteq U
    BY <1>0, <2>1, <2>2, CountingDown
  <2> QED BY <2>3 DEF U
<1> DEFINE U == {d \in 0..MaxDepth : down[d] \subseteq T}
<1>4. 0 \in U
  BY <1>0, <1>2
<1>5. ASSUME NEW d \in 1..MaxDepth, d - 1 \in U PROVE d \in U
  <2>1. ASSUME NEW q \in down[d], q \notin down[d - 1] PROVE q \in T
    <3>1. PICK p \in down[d - 1] :
            Len(p) = d - 1 /\ IsContainer(At(v, p)) /\ \E i \in DOMAIN At(v, p).items : q = Append(p, i)
      BY <1>2, <2>1
    <3>2. d - 1 \in 0..MaxDepth /\ Len(p) < MaxDepth
      BY <1>0, <3>1
    <3>3. p \in Nodes(v) /\ p \in T
      BY <1>3, <1>5, <3>2
    <3> QED BY <3>1, <3>2, <3>3
  <2> QED BY <1>0, <1>5, <2>1
<1>6. MaxDepth \in U
  <2> HIDE DEF U
  <2>1. 0..MaxDepth \subseteq U
    BY <1>0, <1>4, <1>5, CountingUp
  <2> QED BY <1>0, <2>1
<1> QED BY <1>1, <1>6

\* What a tree is, in terms of its places.
LEMMA PlacesOfATree ==
  ASSUME NEW v, IsTree(v)
  PROVE  /\ <<>> \in Nodes(v)
         /\ \A p \in Nodes(v) : p \in Seq(Nat) /\ Len(p) \in 0..MaxDepth
         /\ \A p \in Nodes(v) : IsContainer(At(v, p)) =>
              /\ At(v, p).items \in Seq(ToSet(At(v, p).items))
              /\ \A i \in DOMAIN At(v, p).items : i \in Nat \ {0} /\ Append(p, i) \in Nodes(v)
<1>0. MaxDepth \in Nat
  BY TreeAssumption
<1>1. ASSUME NEW p \in Nodes(v), IsContainer(At(v, p))
      PROVE  /\ Len(p) < MaxDepth /\ At(v, p).items \in Seq(ToSet(At(v, p).items))
             /\ \A i \in DOMAIN At(v, p).items : i \in Nat \ {0}
  <2>1. Len(p) < MaxDepth /\ At(v, p).items \in Seq(ToSet(At(v, p).items))
    BY <1>1 DEF IsTree
  <2>2. DOMAIN At(v, p).items = 1..Len(At(v, p).items) /\ Len(At(v, p).items) \in Nat
    BY <2>1, LenProperties
  <2> QED BY <2>1, <2>2
<1>2. PICK down : DownFor(v, down) /\ Nodes(v) = down[MaxDepth]
  BY DownExists
<1>3. ASSUME NEW d \in 1..MaxDepth
      PROVE  down[d] = down[d - 1] \cup UNION {{Append(p, i) : i \in DOMAIN At(v, p).items} :
                         p \in {p \in down[d - 1] : Len(p) = d - 1 /\ IsContainer(At(v, p))}}
  <2>1. d \in 0..MaxDepth /\ d # 0
    BY <1>0
  <2> QED BY <1>2, <2>1 DEF DownFor
<1>4. down[0] = {<<>>}
  BY <1>0, <1>2 DEF DownFor
<1>5. \A d \in 0..MaxDepth : down[d] \subseteq Nodes(v)
  <2> DEFINE U == {d \in 0..MaxDepth : down[d] \subseteq Nodes(v)}
  <2>1. MaxDepth \in U
    BY <1>0, <1>2
  <2>2. ASSUME NEW d \in 0..(MaxDepth - 1), d + 1 \in U PROVE d \in U
    <3>1. d + 1 \in 1..MaxDepth /\ (d + 1) - 1 = d /\ d \in 0..MaxDepth
      BY <1>0
    <3>2. down[(d + 1) - 1] \subseteq down[d + 1]
      BY <1>3, <3>1
    <3> QED BY <2>2, <3>1, <3>2
  <2> HIDE DEF U
  <2>3. 0..MaxDepth \subseteq U
    BY <1>0, <2>1, <2>2, CountingDown
  <2> QED BY <2>3 DEF U
<1>6. ASSUME NEW p \in Seq(Nat), Len(p) \in 0..MaxDepth, p \in down[Len(p)], IsContainer(At(v, p)),
             NEW i \in DOMAIN At(v, p).items
      PROVE  /\ Append(p, i) \in Seq(Nat) /\ Len(Append(p, i)) \in 0..MaxDepth
             /\ Append(p, i) \in down[Len(Append(p, i))]
  <2>1. p \in Nodes(v)
    BY <1>5, <1>6
  <2>2. Len(p) < MaxDepth /\ i \in Nat
    BY <1>1, <1>6, <2>1
  <2>3. Append(p, i) \in Seq(Nat) /\ Len(Append(p, i)) = Len(p) + 1
    BY <1>6, <2>2, OneStepMore
  <2> DEFINE d == Len(p) + 1
             lowest == {q \in down[d - 1] : Len(q) = d - 1 /\ IsContainer(At(v, q))}
  <2>4. d \in 1..MaxDepth /\ d - 1 = Len(p)
    BY <1>0, <1>6, <2>2
  <2>5. p \in lowest
    BY <1>6, <2>4
  <2>6. Append(p, i) \in UNION {{Append(q, j) : j \in DOMAIN At(v, q).items} : q \in lowest}
    BY <1>6, <2>5
  <2>7. Append(p, i) \in down[d]
    BY <1>3, <2>4, <2>6
  <2> QED BY <2>3, <2>4, <2>7
<1> DEFINE T == {p \in Seq(Nat) : Len(p) \in 0..MaxDepth /\ p \in down[Len(p)]}
<1>7. Nodes(v) \subseteq T
  <2>1. <<>> \in T
    BY <1>0, <1>4
  <2>2. ASSUME NEW p \in Nodes(v), p \in T, IsContainer(At(v, p)), NEW i \in DOMAIN At(v, p).items
        PROVE  Append(p, i) \in T
    BY <1>6, <2>2
  <2> HIDE DEF T
  <2> QED BY <2>1, <2>2, FromAbove
<1>8. <<>> \in Nodes(v)
  BY <1>0, <1>4, <1>5
<1>9. ASSUME NEW p \in Nodes(v), IsContainer(At(v, p)), NEW i \in DOMAIN At(v, p).items
      PROVE  Append(p, i) \in Nodes(v)
  BY <1>5, <1>6, <1>7, <1>9
<1> QED BY <1>1, <1>7, <1>8, <1>9

\* What holds of a place if it holds of all that is in it holds of every place.
LEMMA FromBelow ==
  ASSUME NEW v, IsTree(v), NEW T,
         \A p \in Nodes(v) :
           (IsContainer(At(v, p)) => \A i \in DOMAIN At(v, p).items : Append(p, i) \in T) => p \in T
  PROVE  Nodes(v) \subseteq T
<1>0. MaxDepth \in Nat
  BY TreeAssumption
<1> DEFINE U == {d \in 0..MaxDepth : \A p \in Nodes(v) : Len(p) >= d => p \in T}
<1>1. MaxDepth \in U
  <2> SUFFICES ASSUME NEW p \in Nodes(v), Len(p) >= MaxDepth PROVE p \in T
    BY <1>0
  <2>1. ~IsContainer(At(v, p))
    <3>1. Len(p) \in 0..MaxDepth /\ ~(Len(p) < MaxDepth)
      BY <1>0, PlacesOfATree
    <3> QED BY <3>1 DEF IsTree
  <2> QED BY <2>1
<1>2. ASSUME NEW d \in 0..(MaxDepth - 1), d + 1 \in U PROVE d \in U
  <2>1. d \in 0..MaxDepth
    BY <1>0
  <2>2. ASSUME NEW p \in Nodes(v), Len(p) >= d PROVE p \in T
    <3>1. ASSUME IsContainer(At(v, p)), NEW i \in DOMAIN At(v, p).items PROVE Append(p, i) \in T
      <4>1. Append(p, i) \in Nodes(v) /\ p \in Seq(Nat) /\ i \in Nat
        BY <3>1, PlacesOfATree
      <4>2. Len(Append(p, i)) = Len(p) + 1 /\ Len(p) \in Nat
        BY <4>1, OneStepMore
      <4>3. Len(Append(p, i)) >= d + 1
        BY <2>2, <4>2
      <4> QED BY <1>2, <4>1, <4>3
    <3> QED BY <3>1
  <2> QED BY <2>1, <2>2
<1>3. 0 \in U
  <2> HIDE DEF U
  <2>1. 0..MaxDepth \subseteq U
    BY <1>0, <1>1, <1>2, CountingDown
  <2> QED BY <1>0, <2>1
<1>4. ASSUME NEW p \in Nodes(v) PROVE p \in T
  <2>1. Len(p) \in 0..MaxDepth
    BY PlacesOfATree
  <2>2. Len(p) >= 0
    BY <1>0, <2>1
  <2> QED BY <1>3, <2>2
<1> QED BY <1>4

\* What the function in Context is on the way down.
ContextFor(v, p, context) ==
  context = [d \in 0..Len(p) |->
               IF d = 0 THEN [path |-> <<>>, comments |-> <<>>]
               ELSE LET h == SubSeq(p, 1, d - 1) IN Inside(context[d - 1], At(v, h), h, p[d])]

\* That function exists, so that Context is what it says.
LEMMA ContextExists ==
  ASSUME NEW v, NEW p, Len(p) \in Nat
  PROVE  \E context : ContextFor(v, p, context) /\ Context(v, p) = context[Len(p)]
<1> DEFINE n == Len(p)
           More(c, d) == LET h == SubSeq(p, 1, d - 1) IN Inside(c, At(v, h), h, p[d])
           none == [path |-> <<>>, comments |-> <<>>]
           For(context, m) == context = [d \in 0..m |-> IF d = 0 THEN none ELSE More(context[d - 1], d)]
           T == {m \in 0..n : \E context : For(context, m)}
<1> HIDE DEF More, none
<1>1. 0 \in T
  <2> DEFINE context == [d \in 0..0 |-> none]
  <2>1. context = [d \in 0..0 |-> IF d = 0 THEN none ELSE More(context[d - 1], d)]
    OBVIOUS
  <2> HIDE DEF context
  <2> QED BY <2>1
<1>2. ASSUME NEW m \in 1..n, m - 1 \in T PROVE m \in T
  <2>1. PICK f : For(f, m - 1)
    BY <1>2
  <2> DEFINE context == [d \in 0..m |-> IF d = m THEN More(f[m - 1], m) ELSE f[d]]
  <2>2. \A d \in 0..m : context[d] = IF d = 0 THEN none ELSE More(context[d - 1], d)
    <3> TAKE d \in 0..m
    <3>1. CASE d = m
      <4>1. context[m] = More(f[m - 1], m) /\ m # 0 /\ m - 1 # m /\ m - 1 \in 0..m
        OBVIOUS
      <4> QED BY <3>1, <4>1
    <3>2. CASE d # m /\ d # 0
      <4>1. d \in 0..(m - 1) /\ d - 1 \in 0..m /\ d - 1 # m
        BY <3>2
      <4>2. f[d] = More(f[d - 1], d)
        BY <2>1, <3>2, <4>1
      <4> QED BY <3>2, <4>1, <4>2
    <3>3. CASE d = 0
      <4>1. f[0] = none
        BY <2>1
      <4> QED BY <3>3, <4>1
    <3> QED BY <3>1, <3>2, <3>3
  <2>3. context = [d \in 0..m |-> IF d = 0 THEN none ELSE More(context[d - 1], d)]
    <3>1. context = [d \in 0..m |-> context[d]]
      OBVIOUS
    <3> HIDE DEF context
    <3> QED BY <2>2, <3>1
  <2> HIDE DEF context
  <2> QED BY <2>3
<1>3. n \in T
  <2> HIDE DEF T
  <2>1. 0..n \subseteq T
    BY <1>1, <1>2, CountingUp
  <2> QED BY <2>1
<1>4. PICK f : ContextFor(v, p, f)
  BY <1>3 DEF ContextFor, More, none
<1> DEFINE context == CHOOSE context : ContextFor(v, p, context)
<1>5. ContextFor(v, p, context)
  BY <1>4
<1>6. Context(v, p) = context[Len(p)]
  BY DEF Context, ContextFor
<1> QED BY <1>5, <1>6

\* What walkSlice and walkBranch give the call for a child, from what they were given.
LEMMA ContextStep ==
  ASSUME NEW v, NEW p \in Seq(Nat), NEW i \in Nat
  PROVE  /\ Context(v, <<>>) = [path |-> <<>>, comments |-> <<>>]
         /\ Context(v, Append(p, i)) = Inside(Context(v, p), At(v, p), p, i)
<1>1. Context(v, <<>>) = [path |-> <<>>, comments |-> <<>>]
  <2>1. Len(<<>>) = 0
    OBVIOUS
  <2>2. PICK context : ContextFor(v, <<>>, context) /\ Context(v, <<>>) = context[0]
    BY <2>1, ContextExists
  <2> QED BY <2>1, <2>2 DEF ContextFor
<1> DEFINE q == Append(p, i)
           n == Len(p)
<1>2. /\ n \in Nat /\ Len(q) = n + 1 /\ q[n + 1] = i /\ \A d \in 1..n : q[d] = p[d]
      /\ \A d \in 0..n : SubSeq(q, 1, d) = SubSeq(p, 1, d)
      /\ SubSeq(q, 1, n) = p
  BY OneStepMore
<1>3. PICK f : ContextFor(v, p, f) /\ Context(v, p) = f[n]
  BY <1>2, ContextExists
<1> HIDE DEF q
<1>4. PICK g : ContextFor(v, q, g) /\ Context(v, q) = g[n + 1]
  <2>1. Len(q) \in Nat
    BY <1>2
  <2>2. \E g : ContextFor(v, q, g) /\ Context(v, q) = g[Len(q)]
    BY <2>1, ContextExists
  <2> QED BY <1>2, <2>2
<1> HIDE DEF n
<1> DEFINE T == {d \in 0..n : f[d] = g[d]}
<1>5. 0 \in T
  BY <1>2, <1>3, <1>4 DEF ContextFor, n
<1>6. ASSUME NEW d \in 1..n, d - 1 \in T PROVE d \in T
  <2>1. d \in 0..n /\ d \in 0..(n + 1) /\ d # 0 /\ d - 1 \in 0..n
    BY <1>2
  <2>2. SubSeq(q, 1, d - 1) = SubSeq(p, 1, d - 1) /\ q[d] = p[d]
    BY <1>2, <2>1
  <2> DEFINE h == SubSeq(p, 1, d - 1)
  <2>3. f[d] = Inside(f[d - 1], At(v, h), h, p[d])
    BY <1>2, <1>3, <2>1 DEF ContextFor, n
  <2>4. g[d] = Inside(g[d - 1], At(v, h), h, p[d])
    BY <1>2, <1>4, <2>1, <2>2 DEF ContextFor
  <2> QED BY <1>2, <1>6, <2>1, <2>3, <2>4
<1>7. f[n] = g[n]
  <2> HIDE DEF T
  <2>1. 0..n \subseteq T
    BY <1>2, <1>5, <1>6, CountingUp
  <2>2. n \in T
    BY <1>2, <2>1
  <2> QED BY <2>2 DEF T
<1>8. g[n + 1] = Inside(g[n], At(v, p), p, i)
  <2>1. n + 1 \in 0..(n + 1) /\ n + 1 # 0 /\ (n + 1) - 1 = n
    BY <1>2
  <2> QED BY <1>2, <1>4, <2>1 DEF ContextFor
<1> QED BY <1>1, <1>3, <1>4, <1>7, <1>8 DEF q

\* The walk begins with the document, an empty path and no comments.
LEMMA AtTheTop ==
  ASSUME NEW v
  PROVE  At(v, <<>>) = v /\ Context(v, <<>>) = [path |-> <<>>, comments |-> <<>>]
<1>1. <<>> \in Seq(Nat) /\ 0 \in Nat
  OBVIOUS
<1>2. At(v, <<>>) = v /\ At(v, Append(<<>>, 0)) = Child(At(v, <<>>), 0)
  BY <1>1, AtStep
<1>3. /\ Context(v, <<>>) = [path |-> <<>>, comments |-> <<>>]
      /\ Context(v, Append(<<>>, 0)) = Inside(Context(v, <<>>), At(v, <<>>), <<>>, 0)
  BY <1>1, ContextStep
<1> QED BY <1>2, <1>3

\* The comments on the stack behind each position.
LEMMA ActiveSteps ==
  ASSUME NEW w, NEW h, Len(w.items) \in Nat
  PROVE  /\ Active(w, h)[0] = <<>>
         /\ \A i \in 1..Len(w.items) :
              Active(w, h)[i] = IF ~IsComment(Child(w, i)) THEN <<>>
                                ELSE Append(Active(w, h)[i - 1], Append(h, i))
<1> DEFINE n == Len(w.items)
           More(c, d) == IF d = 0 \/ ~IsComment(Child(w, d)) THEN <<>> ELSE Append(c, Append(h, d))
           For(active, m) == active = [d \in 0..m |-> IF d = 0 THEN <<>> ELSE More(active[d - 1], d)]
           T == {m \in 0..n : \E active : For(active, m)}
<1> HIDE DEF More
<1>1. 0 \in T
  <2> DEFINE active == [d \in 0..0 |-> <<>>]
  <2>1. active = [d \in 0..0 |-> IF d = 0 THEN <<>> ELSE More(active[d - 1], d)]
    OBVIOUS
  <2> HIDE DEF active
  <2> QED BY <2>1
<1>2. ASSUME NEW m \in 1..n, m - 1 \in T PROVE m \in T
  <2>1. PICK f : For(f, m - 1)
    BY <1>2
  <2> DEFINE active == [d \in 0..m |-> IF d = m THEN More(f[m - 1], m) ELSE f[d]]
  <2>2. \A d \in 0..m : active[d] = IF d = 0 THEN <<>> ELSE More(active[d - 1], d)
    <3> TAKE d \in 0..m
    <3>1. CASE d = m
      <4>1. active[m] = More(f[m - 1], m) /\ m # 0 /\ m - 1 # m /\ m - 1 \in 0..m
        OBVIOUS
      <4> QED BY <3>1, <4>1
    <3>2. CASE d # m /\ d # 0
      <4>1. d \in 0..(m - 1) /\ d - 1 \in 0..m /\ d - 1 # m
        BY <3>2
      <4>2. f[d] = More(f[d - 1], d)
        BY <2>1, <3>2, <4>1
      <4> QED BY <3>2, <4>1, <4>2
    <3>3. CASE d = 0
      <4>1. f[0] = <<>>
        BY <2>1
      <4> QED BY <3>3, <4>1
    <3> QED BY <3>1, <3>2, <3>3
  <2>3. active = [d \in 0..m |-> IF d = 0 THEN <<>> ELSE More(active[d - 1], d)]
    <3>1. active = [d \in 0..m |-> active[d]]
      OBVIOUS
    <3> HIDE DEF active
    <3> QED BY <2>2, <3>1
  <2> HIDE DEF active
  <2> QED BY <2>3
<1>3. n \in T
  <2> HIDE DEF T
  <2>1. 0..n \subseteq T
    BY <1>1, <1>2, CountingUp
  <2> QED BY <2>1
<1> DEFINE Right(active) ==
      active = [i \in 0..n |-> IF i = 0 \/ ~IsComment(Child(w, i)) THEN <<>>
                               ELSE Append(active[i - 1], Append(h, i))]
<1>4. ASSUME NEW f, For(f, n) PROVE Right(f)
  <2>1. \A i \in 0..n : (IF i = 0 THEN <<>> ELSE More(f[i - 1], i))
                        = IF i = 0 \/ ~IsComment(Child(w, i)) THEN <<>>
                          ELSE Append(f[i - 1], Append(h, i))
    BY DEF More
  <2>2. [i \in 0..n |-> IF i = 0 THEN <<>> ELSE More(f[i - 1], i)]
        = [i \in 0..n |-> IF i = 0 \/ ~IsComment(Child(w, i)) THEN <<>>
                          ELSE Append(f[i - 1], Append(h, i))]
    BY <2>1
  <2> QED BY <1>4, <2>2
<1>5. \E f : Right(f)
  BY <1>3, <1>4
<1>6. Active(w, h) = CHOOSE active : Right(active)
  BY DEF Active
<1>7. Right(Active(w, h))
  <2> HIDE DEF Right
  <2> QED BY <1>5, <1>6
<1>8. ASSUME NEW a, Right(a)
      PROVE  /\ a[0] = <<>>
             /\ \A i \in 1..n : a[i] = IF ~IsComment(Child(w, i)) THEN <<>>
                                       ELSE Append(a[i - 1], Append(h, i))
  <2>1. 0 \in 0..n /\ \A i \in 1..n : i \in 0..n /\ i # 0
    OBVIOUS
  <2> QED BY <1>8, <2>1
<1> HIDE DEF Right
<1> QED BY <1>7, <1>8

-----------------------------------------------------------------------------
(***************************************************************************)
(* The comments on the stack                                               *)
(***************************************************************************)
\* There are comments from behind r up to i, and no more before them.
Run(w, i, r) ==
  /\ r \in 0..i /\ \A j \in (r + 1)..i : IsComment(Child(w, j))
  /\ r = 0 \/ ~IsComment(Child(w, r))

\* The places of m children behind position r of the container at h.
Behind(h, r, m) == [k \in 1..m |-> Append(h, r + k)]

\* Of two runs of comments that overlap, both begin at the same position.
LEMMA OneRun ==
  ASSUME NEW w, NEW i \in Nat, NEW j \in Nat, NEW r, NEW s, Run(w, i, r), Run(w, j, s), r <= j, s <= i
  PROVE  r = s
BY DEF Run

\* The comments on the stack behind position i are the run of comments that ends there.
LEMMA ActiveRun ==
  ASSUME NEW w, NEW h, Len(w.items) \in Nat, NEW i \in 0..Len(w.items)
  PROVE  \E r \in 0..i : Run(w, i, r) /\ Active(w, h)[i] = Behind(h, r, i - r)
<1> DEFINE n == Len(w.items)
           a == Active(w, h)
           T == {j \in 0..n : \E r \in 0..j : Run(w, j, r) /\ a[j] = Behind(h, r, j - r)}
<1>1. /\ a[0] = <<>>
      /\ \A j \in 1..n : a[j] = IF ~IsComment(Child(w, j)) THEN <<>> ELSE Append(a[j - 1], Append(h, j))
  BY ActiveSteps
<1> HIDE DEF a
<1>2. 0 \in T
  <2>1. Run(w, 0, 0) /\ Behind(h, 0, 0 - 0) = <<>> /\ 0 \in 0..0
    BY DEF Run, Behind
  <2> QED BY <1>1, <2>1
<1>3. ASSUME NEW j \in 1..n, j - 1 \in T PROVE j \in T
  <2>1. CASE ~IsComment(Child(w, j))
    <3>1. j \in 0..j /\ Run(w, j, j) /\ Behind(h, j, j - j) = <<>>
      BY <2>1 DEF Run, Behind
    <3> QED BY <1>1, <2>1, <3>1
  <2>2. CASE IsComment(Child(w, j))
    <3>1. PICK r \in 0..(j - 1) : Run(w, j - 1, r) /\ a[j - 1] = Behind(h, r, j - 1 - r)
      BY <1>3
    <3>2. Run(w, j, r) /\ r \in 0..j
      BY <2>2, <3>1 DEF Run
    <3> DEFINE m == j - 1 - r
               q == Behind(h, r, m)
    <3>3. m \in Nat /\ j - r = m + 1 /\ r + (m + 1) = j
      BY <3>1
    <3>4. Len(q) = m /\ q = [k \in 1..m |-> Append(h, r + k)]
      BY <3>3 DEF Behind
    <3>5. Append(q, Append(h, j)) = [k \in 1..(m + 1) |-> IF k = m + 1 THEN Append(h, j) ELSE q[k]]
      BY <3>3, <3>4
    <3>6. ASSUME NEW k \in 1..(m + 1)
          PROVE  (IF k = m + 1 THEN Append(h, j) ELSE q[k]) = Append(h, r + k)
      <4>1. CASE k = m + 1
        <5>1. r + k = j
          BY <3>3, <4>1
        <5> QED BY <4>1, <5>1
      <4>2. CASE k # m + 1
        <5>1. k \in 1..m
          BY <3>3, <4>2
        <5>2. q[k] = Append(h, r + k)
          BY <3>4, <5>1
        <5> QED BY <4>2, <5>2
      <4> QED BY <4>1, <4>2
    <3>7. Append(q, Append(h, j)) = Behind(h, r, m + 1)
      BY <3>5, <3>6 DEF Behind
    <3>8. a[j] = Append(q, Append(h, j))
      BY <1>1, <2>2, <3>1
    <3>9. a[j] = Behind(h, r, j - r)
      BY <3>3, <3>7, <3>8
    <3> QED BY <3>2, <3>9
  <2> QED BY <2>1, <2>2
<1>4. i \in T
  <2> HIDE DEF T
  <2>1. 0..n \subseteq T
    BY <1>2, <1>3, CountingUp
  <2> QED BY <2>1
<1> QED BY <1>4 DEF a

\* The last position whose comments may be on the stack for the position i.
Upto(w, i) == IF IsComment(Child(w, i)) THEN i ELSE i - 1

\* The comments that come to a position are the run of comments right before it, itself
\* included, and those that came to one of them are the run up to there.
LEMMA AboveRun ==
  ASSUME NEW w, NEW h, Len(w.items) \in Nat, NEW i \in 1..Len(w.items)
  PROVE  /\ Upto(w, i) \in 0..Len(w.items) /\ Upto(w, i) \in {i - 1, i}
         /\ \E r \in 0..Upto(w, i) :
              /\ Run(w, Upto(w, i), r) /\ Above(w, h, i) = Behind(h, r, Upto(w, i) - r)
              /\ \A k \in 1..(Upto(w, i) - r) : Above(w, h, r + k) = Behind(h, r, k)
<1> DEFINE n == Len(w.items)
           m == Upto(w, i)
<1>1. m \in 0..n /\ m \in {i - 1, i}
  BY DEF Upto
<1>2. PICK r \in 0..m : Run(w, m, r) /\ Active(w, h)[m] = Behind(h, r, m - r)
  <2>1. m \in 0..Len(w.items)
    BY <1>1
  <2> HIDE DEF m, n
  <2> QED BY <2>1, ActiveRun
<1>3. Above(w, h, i) = Active(w, h)[m]
  BY DEF Above, Upto
<1>4. ASSUME NEW k \in 1..(m - r) PROVE Above(w, h, r + k) = Behind(h, r, k)
  <2> DEFINE j == r + k
  <2>1. j \in 0..n /\ j \in (r + 1)..m /\ j - r = k /\ r <= j
    BY <1>1
  <2>2. IsComment(Child(w, j))
    BY <1>2, <2>1 DEF Run
  <2>3. PICK s \in 0..j : Run(w, j, s) /\ Active(w, h)[j] = Behind(h, s, j - s)
    BY <2>1, ActiveRun
  <2>4. s = r
    <3>1. m \in Nat /\ j \in Nat /\ s <= m
      BY <1>1, <2>1, <2>3
    <3> HIDE DEF m, j
    <3> QED BY <1>2, <2>1, <2>3, <3>1, OneRun
  <2> QED BY <2>1, <2>2, <2>3, <2>4 DEF Above
<1> QED BY <1>1, <1>2, <1>3, <1>4

\* Length, elements and beginnings of a concatenation.
LEMMA Concatenated ==
  ASSUME NEW S, NEW s \in Seq(S), NEW t \in Seq(S)
  PROVE  /\ s \o t \in Seq(S) /\ Len(s \o t) = Len(s) + Len(t) /\ Len(s) \in Nat /\ Len(t) \in Nat
         /\ DOMAIN s = 1..Len(s) /\ DOMAIN t = 1..Len(t) /\ DOMAIN (s \o t) = 1..(Len(s) + Len(t))
         /\ \A k \in 1..Len(s) : (s \o t)[k] = s[k] /\ SubSeq(s \o t, 1, k) = SubSeq(s, 1, k)
         /\ \A k \in 1..Len(t) : /\ (s \o t)[Len(s) + k] = t[k]
                                 /\ SubSeq(s \o t, 1, Len(s) + k) = s \o SubSeq(t, 1, k)
<1>1. /\ s \o t \in Seq(S) /\ Len(s \o t) = Len(s) + Len(t) /\ Len(s) \in Nat /\ Len(t) \in Nat
      /\ \A k \in 1..Len(s) : (s \o t)[k] = s[k]
      /\ \A k \in 1..Len(t) : (s \o t)[Len(s) + k] = t[k]
      /\ DOMAIN s = 1..Len(s) /\ DOMAIN t = 1..Len(t) /\ DOMAIN (s \o t) = 1..(Len(s) + Len(t))
  OBVIOUS
<1>2. ASSUME NEW k \in 1..Len(s) PROVE SubSeq(s \o t, 1, k) = SubSeq(s, 1, k)
  <2>1. /\ SubSeq(s \o t, 1, k) = [l \in 1..k |-> (s \o t)[l]]
        /\ SubSeq(s, 1, k) = [l \in 1..k |-> s[l]]
    BY <1>1
  <2>2. \A l \in 1..k : (s \o t)[l] = s[l]
    BY <1>1
  <2> QED BY <2>1, <2>2
<1>3. ASSUME NEW k \in 1..Len(t) PROVE SubSeq(s \o t, 1, Len(s) + k) = s \o SubSeq(t, 1, k)
  <2> DEFINE u == SubSeq(t, 1, k)
             n == Len(s) + k
  <2>1. u = [l \in 1..k |-> t[l]] /\ u \in Seq(S) /\ Len(u) = k
    BY <1>1
  <2>2. SubSeq(s \o t, 1, n) = [l \in 1..n |-> (s \o t)[l]]
    BY <1>1
  <2>3. s \o u = [l \in 1..n |-> IF l <= Len(s) THEN s[l] ELSE u[l - Len(s)]]
    BY <1>1, <2>1
  <2>4. \A l \in 1..n : (s \o t)[l] = IF l <= Len(s) THEN s[l] ELSE u[l - Len(s)]
    BY <1>1, <2>1
  <2> HIDE DEF u
  <2> QED BY <2>2, <2>3, <2>4 DEF u
<1> QED BY <1>1, <1>2, <1>3

\* A step from a container to what is in it.
LEMMA TreeStep ==
  ASSUME NEW v, IsTree(v), NEW p \in Nodes(v), IsContainer(At(v, p))
  PROVE  LET w == At(v, p) IN
         /\ p \in Seq(Nat) /\ Len(w.items) \in Nat /\ DOMAIN w.items = 1..Len(w.items)
         /\ \A i \in 1..Len(w.items) :
              /\ i \in Nat \ {0} /\ Append(p, i) \in Nodes(v) /\ Append(p, i) \in Seq(Nat)
              /\ At(v, Append(p, i)) = Child(w, i)
              /\ Context(v, Append(p, i)) = Inside(Context(v, p), w, p, i)
              /\ Context(v, Append(p, i)).comments = Context(v, p).comments \o Above(w, p, i)
<1> DEFINE w == At(v, p)
<1>1. p \in Seq(Nat) /\ w.items \in Seq(ToSet(w.items))
  BY PlacesOfATree
<1>2. Len(w.items) \in Nat /\ DOMAIN w.items = 1..Len(w.items)
  BY <1>1, LenProperties
<1>3. ASSUME NEW i \in 1..Len(w.items)
      PROVE  /\ i \in Nat \ {0} /\ Append(p, i) \in Nodes(v) /\ Append(p, i) \in Seq(Nat)
             /\ At(v, Append(p, i)) = Child(w, i)
             /\ Context(v, Append(p, i)) = Inside(Context(v, p), w, p, i)
  <2>1. i \in Nat \ {0} /\ Append(p, i) \in Nodes(v)
    BY <1>2, PlacesOfATree
  <2> QED BY <1>1, <2>1, PlacesOfATree, AtStep, ContextStep
<1>4. ASSUME NEW i \in 1..Len(w.items)
      PROVE  Context(v, Append(p, i)).comments = Context(v, p).comments \o Above(w, p, i)
  BY <1>3 DEF Inside
<1> QED BY <1>1, <1>2, <1>3, <1>4

\* What the walk carries on its stack to a place: comments, each with those that came to it before
\* it; to a comment it brings the comment itself, last.
LEMMA CommentsOnTheStack ==
  ASSUME NEW v, IsTree(v), NEW p \in Nodes(v)
  PROVE  LET cs == Context(v, p).comments IN
         /\ cs \in Seq(Nodes(v))
         /\ \A k \in 1..Len(cs) : /\ IsComment(At(v, cs[k]))
                                  /\ Context(v, cs[k]).comments = SubSeq(cs, 1, k)
<1> DEFINE Cs(q) == Context(v, q).comments
           Good(q) == /\ Cs(q) \in Seq(Nodes(v))
                      /\ \A k \in 1..Len(Cs(q)) : /\ IsComment(At(v, Cs(q)[k]))
                                                  /\ Cs(Cs(q)[k]) = SubSeq(Cs(q), 1, k)
           T == {q \in Nodes(v) : Good(q)}
<1>1. <<>> \in T
  <2>1. Cs(<<>>) = <<>>
    BY AtTheTop
  <2>2. Good(<<>>)
    <3> HIDE DEF Cs
    <3>1. <<>> \in Seq(Nodes(v)) /\ Len(<<>>) = 0 /\ 1..0 = {}
      OBVIOUS
    <3> QED BY <2>1, <3>1
  <2> QED BY <2>2, PlacesOfATree
<1>2. ASSUME NEW q \in Nodes(v), q \in T, IsContainer(At(v, q)), NEW i \in DOMAIN At(v, q).items
      PROVE  Append(q, i) \in T
  <2> DEFINE w == At(v, q)
             n == Len(w.items)
             m == Upto(w, i)
             a == Above(w, q, i)
             c == Cs(q)
  <2>1. /\ q \in Seq(Nat) /\ n \in Nat /\ i \in 1..n
        /\ \A j \in 1..n : /\ j \in Nat \ {0} /\ Append(q, j) \in Nodes(v)
                           /\ At(v, Append(q, j)) = Child(w, j)
                           /\ Cs(Append(q, j)) = c \o Above(w, q, j)
    BY <1>2, TreeStep
  <2>2. PICK r \in 0..m : /\ Run(w, m, r) /\ a = Behind(q, r, m - r)
                          /\ \A k \in 1..(m - r) : Above(w, q, r + k) = Behind(q, r, k)
    BY <2>1, AboveRun
  <2> DEFINE l == m - r
  <2>3. l \in Nat /\ m \in 0..n /\ \A k \in 1..l : r + k \in 1..n /\ r + k \in (r + 1)..m
    <3>1. m \in 0..n
      BY <2>1, AboveRun
    <3> HIDE DEF m, n
    <3> QED BY <2>1, <3>1
  <2>4. c \in Seq(Nodes(v)) /\ \A k \in 1..Len(c) : IsComment(At(v, c[k])) /\ Cs(c[k]) = SubSeq(c, 1, k)
    BY <1>2
  <2> HIDE DEF l, m, c, n, Cs
  <2>5. a = [k \in 1..l |-> Append(q, r + k)]
    BY <2>2 DEF Behind, l
  <2>6. \A k \in 1..l : Append(q, r + k) \in Nodes(v)
    BY <2>1, <2>3
  <2> HIDE DEF a
  <2>7. a \in Seq(Nodes(v)) /\ Len(a) = l
    BY <2>3, <2>5, <2>6
  <2>8. ASSUME NEW k \in 1..l PROVE IsComment(At(v, a[k])) /\ Cs(a[k]) = c \o SubSeq(a, 1, k)
    <3>1. a[k] = Append(q, r + k) /\ r + k \in 1..n /\ r + k \in (r + 1)..m
      BY <2>3, <2>5
    <3>2. IsComment(Child(w, r + k))
      BY <2>2, <3>1 DEF Run
    <3>3. SubSeq(a, 1, k) = Behind(q, r, k)
      <4>1. SubSeq(a, 1, k) = [j \in 1..k |-> a[j]]
        BY <2>7
      <4>2. \A j \in 1..k : a[j] = Append(q, r + j)
        BY <2>3, <2>5
      <4> QED BY <4>1, <4>2 DEF Behind
    <3>4. Above(w, q, r + k) = SubSeq(a, 1, k)
      BY <2>2, <3>3 DEF l
    <3> QED BY <2>1, <3>1, <3>2, <3>4
  <2>9. Cs(Append(q, i)) = c \o a
    BY <2>1 DEF a
  <2> DEFINE ca == c \o a
  <2>10. /\ ca \in Seq(Nodes(v)) /\ Len(ca) = Len(c) + l /\ Len(c) \in Nat
         /\ \A k \in 1..Len(c) : ca[k] = c[k] /\ SubSeq(ca, 1, k) = SubSeq(c, 1, k)
         /\ \A k \in 1..l : ca[Len(c) + k] = a[k] /\ SubSeq(ca, 1, Len(c) + k) = c \o SubSeq(a, 1, k)
    <3>1. c \in Seq(Nodes(v)) /\ a \in Seq(Nodes(v))
      BY <2>4, <2>7
    <3> HIDE DEF T
    <3>2. /\ ca \in Seq(Nodes(v)) /\ Len(ca) = Len(c) + Len(a) /\ Len(c) \in Nat /\ Len(a) \in Nat
          /\ DOMAIN c = 1..Len(c) /\ DOMAIN a = 1..Len(a) /\ DOMAIN ca = 1..(Len(c) + Len(a))
          /\ \A k \in 1..Len(c) : ca[k] = c[k] /\ SubSeq(ca, 1, k) = SubSeq(c, 1, k)
          /\ \A k \in 1..Len(a) : /\ ca[Len(c) + k] = a[k]
                                  /\ SubSeq(ca, 1, Len(c) + k) = c \o SubSeq(a, 1, k)
      BY <3>1, Concatenated
    <3> HIDE DEF ca
    <3> QED BY <2>7, <3>2
  <2> HIDE DEF ca
  <2>11. ASSUME NEW k \in 1..Len(ca)
         PROVE  IsComment(At(v, ca[k])) /\ Cs(ca[k]) = SubSeq(ca, 1, k)
    <3>1. CASE k \in 1..Len(c)
      BY <2>4, <2>10, <3>1
    <3>2. CASE k \notin 1..Len(c)
      <4> DEFINE d == k - Len(c)
      <4>1. d \in 1..l /\ k = Len(c) + d
        BY <2>3, <2>10, <3>2
      <4> HIDE DEF d
      <4>2. ca[k] = a[d] /\ SubSeq(ca, 1, k) = c \o SubSeq(a, 1, d)
        BY <2>10, <4>1
      <4>3. IsComment(At(v, a[d])) /\ Cs(a[d]) = c \o SubSeq(a, 1, d)
        BY <2>8, <4>1
      <4> QED BY <4>2, <4>3
    <3> QED BY <3>1, <3>2
  <2>12. Good(Append(q, i))
    BY <2>9, <2>10, <2>11 DEF ca
  <2> QED BY <2>1, <2>12
<1>3. Nodes(v) \subseteq T
  <2> HIDE DEF T
  <2> QED BY <1>1, <1>2, FromAbove
<1> QED BY <1>3

\* A comment that is in a container is the last of the comments on the stack.
LEMMA LastOnTheStack ==
  ASSUME NEW v, IsTree(v), NEW p \in Nodes(v), IsComment(At(v, p)), p # <<>>
  PROVE  LET cs == Context(v, p).comments IN Len(cs) \in Nat \ {0} /\ cs[Len(cs)] = p
<1>1. p \in Seq(Nat) /\ <<>> \in Nodes(v)
  BY PlacesOfATree
<1> DEFINE T == {q \in Nodes(v) : IsComment(At(v, q)) /\ q # <<>> =>
                   LET cs == Context(v, q).comments IN Len(cs) \in Nat \ {0} /\ cs[Len(cs)] = q}
<1>2. ASSUME NEW q \in Nodes(v), IsContainer(At(v, q)), NEW i \in DOMAIN At(v, q).items
      PROVE  Append(q, i) \in T
  <2> DEFINE w == At(v, q)
             c == Context(v, q).comments
             a == Above(w, q, i)
             r == Append(q, i)
  <2>1. /\ Len(w.items) \in Nat /\ i \in 1..Len(w.items) /\ r \in Nodes(v) /\ At(v, r) = Child(w, i)
        /\ Context(v, r).comments = c \o a
    BY <1>2, TreeStep
  <2>2. ASSUME IsComment(At(v, r))
        PROVE  Len(c \o a) \in Nat \ {0} /\ (c \o a)[Len(c \o a)] = r
    <3>1. Active(w, q)[i] = Append(Active(w, q)[i - 1], r) /\ a = Active(w, q)[i]
      BY <2>1, <2>2, ActiveSteps DEF Above
    <3>2. PICK k \in 0..i : Run(w, i, k) /\ a = Behind(q, k, i - k)
      <4>1. i \in 0..Len(w.items) /\ Len(w.items) \in Nat
        BY <2>1
      <4> HIDE DEF w, a
      <4>2. \E k \in 0..i : Run(w, i, k) /\ Active(w, q)[i] = Behind(q, k, i - k)
        BY <4>1, ActiveRun
      <4> QED BY <3>1, <4>2
    <3>3. k # i
      BY <2>1, <2>2, <3>2 DEF Run
    <3> DEFINE m == i - k
    <3>4. m \in Nat \ {0} /\ k + m = i
      BY <2>1, <3>3
    <3>5. a = [j \in 1..m |-> Append(q, k + j)]
      BY <3>2 DEF Behind
    <3> HIDE DEF m, a, c, w
    <3>6. Len(a) = m /\ a[m] = r
      BY <3>4, <3>5
    <3>7. c \in Seq(Nodes(v)) /\ Len(c) \in Nat
      BY <1>2, CommentsOnTheStack DEF c
    <3>8. \A j \in 1..m : k + j \in 1..Len(w.items)
      BY <2>1, <3>4
    <3>9. \A j \in 1..m : Append(q, k + j) \in Nodes(v)
      BY <1>2, <3>8, TreeStep DEF w
    <3>10. a \in Seq(Nodes(v))
      BY <3>4, <3>5, <3>9
    <3>11. Len(c \o a) = Len(c) + Len(a) /\ (c \o a)[Len(c) + m] = a[m]
      <4>1. m \in 1..Len(a)
        BY <3>4, <3>6
      <4> QED BY <3>7, <3>10, <4>1
    <3> QED BY <3>4, <3>6, <3>7, <3>11
  <2> QED BY <2>1, <2>2
<1>3. Nodes(v) \subseteq T
  <2>1. <<>> \in T
    BY <1>1
  <2> HIDE DEF T
  <2> QED BY <1>2, <2>1, FromAbove
<1> QED BY <1>3

-----------------------------------------------------------------------------
(***************************************************************************)
(* What the calls of the walk return                                       *)
(***************************************************************************)

\* The new value at p, from the new values f below it.
NewValuesOf(meta, v, cipher, f, p) ==
  LET w == At(v, p) IN
  CASE IsContainer(w) ->
         [w EXCEPT !.items = [i \in DOMAIN w.items |-> Replaced(w, i, f[Append(p, i)])]]
    [] w = Null -> w
    [] OTHER    -> OnLeaf(meta, v, p, cipher).value

\* The function in NewValues exists: walkValue returns what its calls below have returned.
LEMMA NewValuesStep ==
  ASSUME NEW meta, NEW v, NEW cipher, IsTree(v), NEW p \in Nodes(v)
  PROVE  NewValues(meta, v, cipher)[p] = NewValuesOf(meta, v, cipher, NewValues(meta, v, cipher), p)
<1> DEFINE D(d) == {q \in Nodes(v) : Len(q) >= d}
           Of(f, q) == NewValuesOf(meta, v, cipher, f, q)
           SoFar(f, d) == f = [q \in D(d) |-> f[q]] /\ \A q \in D(d) : f[q] = Of(f, q)
           T == {d \in 0..MaxDepth : \E f : SoFar(f, d)}
<1>0. MaxDepth \in Nat /\ \A q \in Nodes(v) : Len(q) \in 0..MaxDepth
  BY TreeAssumption, PlacesOfATree
<1>1. ASSUME NEW f, NEW g, NEW q \in Nodes(v),
             IsContainer(At(v, q)) => \A i \in DOMAIN At(v, q).items : f[Append(q, i)] = g[Append(q, i)]
      PROVE  Of(f, q) = Of(g, q)
  <2>1. CASE IsContainer(At(v, q))
    <3>1. \A i \in DOMAIN At(v, q).items : f[Append(q, i)] = g[Append(q, i)]
      BY <1>1, <2>1
    <3>2. [i \in DOMAIN At(v, q).items |-> Replaced(At(v, q), i, f[Append(q, i)])]
          = [i \in DOMAIN At(v, q).items |-> Replaced(At(v, q), i, g[Append(q, i)])]
      BY <3>1
    <3> QED BY <2>1, <3>2 DEF NewValuesOf
  <2>2. CASE ~IsContainer(At(v, q))
    BY <2>2 DEF NewValuesOf
  <2> QED BY <2>1, <2>2
<1> HIDE DEF Of
<1>2. MaxDepth \in T
  <2> DEFINE f == [q \in D(MaxDepth) |-> Of(<<>>, q)]
  <2>1. ASSUME NEW q \in D(MaxDepth) PROVE ~IsContainer(At(v, q))
    BY <1>0, <2>1 DEF IsTree
  <2>2. ASSUME NEW q \in D(MaxDepth) PROVE f[q] = Of(f, q)
    <3>1. f[q] = Of(<<>>, q)
      OBVIOUS
    <3> HIDE DEF f
    <3> QED BY <1>1, <2>1, <3>1
  <2>3. f = [q \in D(MaxDepth) |-> f[q]]
    OBVIOUS
  <2> HIDE DEF f, D
  <2> QED BY <1>0, <2>2, <2>3
<1>3. ASSUME NEW d \in 0..(MaxDepth - 1), d + 1 \in T PROVE d \in T
  <2>1. PICK f : SoFar(f, d + 1)
    BY <1>3
  <2> DEFINE g == [q \in D(d) |-> IF q \in D(d + 1) THEN f[q] ELSE Of(f, q)]
  <2>2. ASSUME NEW q \in D(d), IsContainer(At(v, q)), NEW i \in DOMAIN At(v, q).items
        PROVE  Append(q, i) \in D(d + 1) /\ Append(q, i) \in D(d)
    <3>1. Append(q, i) \in Nodes(v) /\ q \in Seq(Nat) /\ i \in Nat
      BY <2>2, PlacesOfATree
    <3>2. Len(Append(q, i)) = Len(q) + 1 /\ Len(q) \in Nat
      BY <3>1, OneStepMore
    <3> QED BY <1>0, <2>2, <3>1, <3>2
  <2>3. \A q \in D(d + 1) : q \in D(d)
    BY <1>0
  <2>4. ASSUME NEW q \in D(d) PROVE g[q] = Of(g, q)
    <3>1. g[q] = Of(f, q)
      BY <2>1
    <3>2. IsContainer(At(v, q)) => \A i \in DOMAIN At(v, q).items : f[Append(q, i)] = g[Append(q, i)]
      BY <2>2
    <3> HIDE DEF g
    <3> QED BY <1>1, <3>1, <3>2
  <2>5. g = [q \in D(d) |-> g[q]] /\ d \in 0..MaxDepth
    BY <1>0
  <2> HIDE DEF g, D
  <2> QED BY <2>4, <2>5
<1>4. 0 \in T
  <2> HIDE DEF T
  <2>1. 0..MaxDepth \subseteq T
    BY <1>0, <1>2, <1>3, CountingDown
  <2> QED BY <1>0, <2>1
<1> DEFINE For(f) == f = [q \in Nodes(v) |-> Of(f, q)]
<1>5. \E f : For(f)
  <2>1. D(0) = Nodes(v)
    BY <1>0
  <2>2. PICK f : SoFar(f, 0)
    BY <1>4
  <2>3. [q \in Nodes(v) |-> f[q]] = [q \in Nodes(v) |-> Of(f, q)]
    BY <2>1, <2>2
  <2> QED BY <2>1, <2>2, <2>3
<1>6. NewValues(meta, v, cipher) = CHOOSE f : For(f)
  BY DEF NewValues, NewValuesOf, Of
<1>7. For(NewValues(meta, v, cipher))
  <2> HIDE DEF For
  <2> QED BY <1>5, <1>6
<1> DEFINE h == NewValues(meta, v, cipher)
<1> HIDE DEF h
<1>8. h = [q \in Nodes(v) |-> Of(h, q)]
  BY <1>7 DEF h
<1>9. h[p] = Of(h, p)
  BY <1>8
<1> QED BY <1>9 DEF h, Of

\* The leaves below p, from those below its children.
LeavesBelowOf(v, f, p) ==
  LET w == At(v, p) IN
  CASE IsContainer(w) -> FlattenSeq([i \in DOMAIN w.items |-> f[Append(p, i)]])
    [] w = Null -> <<>>
    [] OTHER    -> <<p>>

\* The function in LeavesBelow exists.
LEMMA LeavesBelowStep ==
  ASSUME NEW v, IsTree(v), NEW p \in Nodes(v)
  PROVE  LeavesBelow(v)[p] = LeavesBelowOf(v, LeavesBelow(v), p)
<1> DEFINE D(d) == {q \in Nodes(v) : Len(q) >= d}
           Of(f, q) == LeavesBelowOf(v, f, q)
           SoFar(f, d) == f = [q \in D(d) |-> f[q]] /\ \A q \in D(d) : f[q] = Of(f, q)
           T == {d \in 0..MaxDepth : \E f : SoFar(f, d)}
<1>0. MaxDepth \in Nat /\ \A q \in Nodes(v) : Len(q) \in 0..MaxDepth
  BY TreeAssumption, PlacesOfATree
<1>1. ASSUME NEW f, NEW g, NEW q \in Nodes(v),
             IsContainer(At(v, q)) => \A i \in DOMAIN At(v, q).items : f[Append(q, i)] = g[Append(q, i)]
      PROVE  Of(f, q) = Of(g, q)
  <2>1. CASE IsContainer(At(v, q))
    <3>1. \A i \in DOMAIN At(v, q).items : f[Append(q, i)] = g[Append(q, i)]
      BY <1>1, <2>1
    <3>2. [i \in DOMAIN At(v, q).items |-> f[Append(q, i)]]
          = [i \in DOMAIN At(v, q).items |-> g[Append(q, i)]]
      BY <3>1
    <3> QED BY <2>1, <3>2 DEF LeavesBelowOf
  <2>2. CASE ~IsContainer(At(v, q))
    BY <2>2 DEF LeavesBelowOf
  <2> QED BY <2>1, <2>2
<1> HIDE DEF Of
<1>2. MaxDepth \in T
  <2> DEFINE f == [q \in D(MaxDepth) |-> Of(<<>>, q)]
  <2>1. ASSUME NEW q \in D(MaxDepth) PROVE ~IsContainer(At(v, q))
    BY <1>0, <2>1 DEF IsTree
  <2>2. ASSUME NEW q \in D(MaxDepth) PROVE f[q] = Of(f, q)
    <3>1. f[q] = Of(<<>>, q)
      OBVIOUS
    <3> HIDE DEF f
    <3> QED BY <1>1, <2>1, <3>1
  <2>3. f = [q \in D(MaxDepth) |-> f[q]]
    OBVIOUS
  <2> HIDE DEF f, D
  <2> QED BY <1>0, <2>2, <2>3
<1>3. ASSUME NEW d \in 0..(MaxDepth - 1), d + 1 \in T PROVE d \in T
  <2>1. PICK f : SoFar(f, d + 1)
    BY <1>3
  <2> DEFINE g == [q \in D(d) |-> IF q \in D(d + 1) THEN f[q] ELSE Of(f, q)]
  <2>2. ASSUME NEW q \in D(d), IsContainer(At(v, q)), NEW i \in DOMAIN At(v, q).items
        PROVE  Append(q, i) \in D(d + 1) /\ Append(q, i) \in D(d)
    <3>1. Append(q, i) \in Nodes(v) /\ q \in Seq(Nat) /\ i \in Nat
      BY <2>2, PlacesOfATree
    <3>2. Len(Append(q, i)) = Len(q) + 1 /\ Len(q) \in Nat
      BY <3>1, OneStepMore
    <3> QED BY <1>0, <2>2, <3>1, <3>2
  <2>3. \A q \in D(d + 1) : q \in D(d)
    BY <1>0
  <2>4. ASSUME NEW q \in D(d) PROVE g[q] = Of(g, q)
    <3>1. g[q] = Of(f, q)
      BY <2>1
    <3>2. IsContainer(At(v, q)) => \A i \in DOMAIN At(v, q).items : f[Append(q, i)] = g[Append(q, i)]
      BY <2>2
    <3> HIDE DEF g
    <3> QED BY <1>1, <3>1, <3>2
  <2>5. g = [q \in D(d) |-> g[q]] /\ d \in 0..MaxDepth
    BY <1>0
  <2> HIDE DEF g, D
  <2> QED BY <2>4, <2>5
<1>4. 0 \in T
  <2> HIDE DEF T
  <2>1. 0..MaxDepth \subseteq T
    BY <1>0, <1>2, <1>3, CountingDown
  <2> QED BY <1>0, <2>1
<1> DEFINE For(f) == f = [q \in Nodes(v) |-> Of(f, q)]
<1>5. \E f : For(f)
  <2>1. D(0) = Nodes(v)
    BY <1>0
  <2>2. PICK f : SoFar(f, 0)
    BY <1>4
  <2>3. [q \in Nodes(v) |-> f[q]] = [q \in Nodes(v) |-> Of(f, q)]
    BY <2>1, <2>2
  <2> QED BY <2>1, <2>2, <2>3
<1>6. LeavesBelow(v) = CHOOSE f : For(f)
  BY DEF LeavesBelow, LeavesBelowOf, Of
<1>7. For(LeavesBelow(v))
  <2> HIDE DEF For
  <2> QED BY <1>5, <1>6
<1> DEFINE h == LeavesBelow(v)
<1> HIDE DEF h
<1>8. h = [q \in Nodes(v) |-> Of(h, q)]
  BY <1>7 DEF h
<1>9. h[p] = Of(h, p)
  BY <1>8
<1> QED BY <1>9 DEF h, Of

\* A list of lists, as one, which has all that they have.
LEMMA Flattened ==
  ASSUME NEW S, NEW lists \in Seq(Seq(S))
  PROVE  /\ FlattenSeq(lists) \in Seq(S)
         /\ \A k \in 1..Len(lists) : ToSet(lists[k]) \subseteq ToSet(FlattenSeq(lists))
<1> DEFINE n == Len(lists)
           More(f, d) == IF d = 1 THEN lists[d] ELSE f[d - 1] \o lists[d]
           For(f, m) == f = [d \in 1..m |-> More(f, d)]
           T == {m \in 0..n : \E f : For(f, m) /\ \A d \in 1..m : f[d] \in Seq(S)}
<1>1. n \in Nat /\ DOMAIN lists = 1..n /\ \A d \in 1..n : lists[d] \in Seq(S)
  BY LenProperties, ElementOfSeq
<1>2. 0 \in T
  <2> DEFINE f == [d \in 1..0 |-> <<>>]
  <2>1. f = [d \in 1..0 |-> More(f, d)] /\ \A d \in 1..0 : f[d] \in Seq(S)
    OBVIOUS
  <2> HIDE DEF f
  <2>2. For(f, 0) /\ 0 \in 0..n
    BY <1>1, <2>1
  <2> HIDE DEF For
  <2> QED BY <2>1, <2>2
<1>3. ASSUME NEW m \in 1..n, m - 1 \in T PROVE m \in T
  <2>1. PICK f : For(f, m - 1) /\ \A d \in 1..(m - 1) : f[d] \in Seq(S)
    BY <1>3
  <2> DEFINE g == [d \in 1..m |-> IF d = m THEN More(f, m) ELSE f[d]]
  <2>2. ASSUME NEW d \in 1..m PROVE g[d] = More(g, d) /\ g[d] \in Seq(S)
    <3>1. d = 1 \/ d - 1 \in 1..(m - 1)
      BY <1>1
    <3>2. d - 1 \in 1..(m - 1) => g[d - 1] = f[d - 1] /\ f[d - 1] \in Seq(S)
      <4>1. ASSUME d - 1 \in 1..(m - 1) PROVE d - 1 \in 1..m /\ d - 1 # m
        BY <1>1, <4>1
      <4> QED BY <2>1, <4>1
    <3>3. More(f, d) = More(g, d)
      BY <3>1, <3>2
    <3>4. More(f, d) \in Seq(S)
      <4>1. lists[d] \in Seq(S)
        BY <1>1
      <4> QED BY <3>1, <3>2, <4>1, ConcatProperties
    <3>5. g[d] = More(f, d)
      <4>1. CASE d = m
        BY <4>1
      <4>2. CASE d # m
        <5>1. d \in 1..(m - 1)
          BY <1>1, <4>2
        <5> QED BY <2>1, <4>2, <5>1
      <4> QED BY <4>1, <4>2
    <3> QED BY <3>3, <3>4, <3>5
  <2>3. g = [d \in 1..m |-> g[d]] /\ m \in 0..n
    BY <1>1
  <2> HIDE DEF g
  <2>4. For(g, m)
    <3> HIDE DEF More
    <3> QED BY <2>2, <2>3
  <2> HIDE DEF For
  <2> QED BY <2>2, <2>3, <2>4
<1>4. n \in T
  <2> HIDE DEF T
  <2>1. 0..n \subseteq T
    BY <1>1, <1>2, <1>3, CountingUp
  <2> QED BY <1>1, <2>1
<1> DEFINE flat == CHOOSE f : For(f, n)
<1>5. FlattenSeq(lists) = IF n = 0 THEN lists ELSE flat[n]
  BY DEF FlattenSeq
<1>6. For(flat, n)
  BY <1>4
<1> HIDE DEF flat, n
<1>7. CASE n = 0
  BY <1>1, <1>5, <1>7, EmptySeq DEF n
<1>8. CASE n # 0
  <2> DEFINE All(m) == \A k \in 1..m : ToSet(lists[k]) \subseteq ToSet(flat[m])
             U == {m \in 0..n : m # 0 => flat[m] \in Seq(S) /\ All(m)}
  <2>1. 0 \in U
    BY <1>1
  <2>2. ASSUME NEW m \in 1..n, m - 1 \in U PROVE m \in U
    <3>1. flat[m] = IF m = 1 THEN lists[m] ELSE flat[m - 1] \o lists[m]
      BY <1>6
    <3>2. lists[m] \in Seq(S)
      BY <1>1
    <3>3. m # 1 => flat[m - 1] \in Seq(S) /\ All(m - 1)
      BY <1>1, <2>2
    <3>4. flat[m] \in Seq(S)
      BY <3>1, <3>2, <3>3, ConcatProperties
    <3>5. CASE m = 1
      <4>1. \A k \in 1..m : k = m
        BY <3>5
      <4> QED BY <1>1, <3>1, <3>4, <3>5, <4>1
    <3>6. CASE m # 1
      <4> DEFINE s == flat[m - 1]
                 t == lists[m]
                 S1 == ToSet(s)
                 S2 == ToSet(t)
      <4>1. s \in Seq(S) /\ t \in Seq(S) /\ flat[m] = s \o t
        BY <3>1, <3>2, <3>3, <3>6
      <4>2. S1 \subseteq ToSet(s \o t) /\ S2 \subseteq ToSet(s \o t)
        <5> HIDE DEF s, t
        <5>1. /\ DOMAIN s = 1..Len(s) /\ DOMAIN t = 1..Len(t) /\ Len(s) \in Nat /\ Len(t) \in Nat
              /\ DOMAIN (s \o t) = 1..(Len(s) + Len(t))
              /\ \A k \in 1..Len(s) : (s \o t)[k] = s[k]
              /\ \A k \in 1..Len(t) : (s \o t)[Len(s) + k] = t[k]
          BY <4>1, Concatenated
        <5>2. \A k \in 1..Len(s) : k \in DOMAIN (s \o t)
          BY <5>1
        <5>3. \A k \in 1..Len(t) : Len(s) + k \in DOMAIN (s \o t)
          BY <5>1
        <5> QED BY <5>1, <5>2, <5>3 DEF ToSet
      <4> HIDE DEF S1, S2, s, t
      <4>3. \A k \in 1..m : k = m \/ k \in 1..(m - 1)
        BY <1>1
      <4>4. \A k \in 1..(m - 1) : ToSet(lists[k]) \subseteq S1
        BY <3>3, <3>6 DEF S1, s
      <4>5. ToSet(lists[m]) = S2
        BY DEF S2, t
      <4>6. All(m)
        BY <4>1, <4>2, <4>3, <4>4, <4>5
      <4> QED BY <1>1, <3>4, <4>6
    <3> QED BY <3>5, <3>6
  <2>3. n \in U
    <3> HIDE DEF U
    <3>1. 0..n \subseteq U
      BY <1>1, <2>1, <2>2, CountingUp
    <3> QED BY <1>1, <3>1
  <2> QED BY <1>5, <1>8, <2>3 DEF n
<1> QED BY <1>7, <1>8

\* The leaves below a place are places.
LEMMA LeavesArePlaces ==
  ASSUME NEW v, IsTree(v)
  PROVE  LeavesBelow(v)[<<>>] \in Seq(Places(v))
<1> DEFINE T == {p \in Nodes(v) : LeavesBelow(v)[p] \in Seq(Places(v))}
<1>1. ASSUME NEW p \in Nodes(v),
             IsContainer(At(v, p)) => \A i \in DOMAIN At(v, p).items : Append(p, i) \in T
      PROVE  p \in T
  <2> DEFINE f == LeavesBelow(v)
             w == At(v, p)
  <2>1. f[p] = LeavesBelowOf(v, f, p)
    BY LeavesBelowStep
  <2> HIDE DEF f
  <2>2. CASE IsContainer(w)
    <3> DEFINE lists == [i \in DOMAIN w.items |-> f[Append(p, i)]]
    <3>1. Len(w.items) \in Nat /\ DOMAIN w.items = 1..Len(w.items)
      BY <2>2, TreeStep
    <3>2. \A i \in DOMAIN w.items : f[Append(p, i)] \in Seq(Places(v))
      BY <1>1, <2>2 DEF f
    <3>3. lists \in Seq(Seq(Places(v)))
      BY <3>1, <3>2
    <3>4. f[p] = FlattenSeq(lists)
      <4>1. LeavesBelowOf(v, f, p) = FlattenSeq(lists)
        BY <2>2 DEF LeavesBelowOf, IsContainer, Null
      <4> QED BY <2>1, <4>1
    <3> HIDE DEF lists
    <3>5. f[p] \in Seq(Places(v))
      BY <3>3, <3>4, Flattened
    <3> QED BY <3>5 DEF f
  <2>3. CASE ~IsContainer(w) /\ w = Null
    <3>1. f[p] = <<>>
      BY <2>1, <2>3 DEF LeavesBelowOf
    <3>2. f[p] \in Seq(Places(v))
      BY <3>1
    <3> QED BY <3>2 DEF f
  <2>4. CASE ~IsContainer(w) /\ w # Null
    <3>1. f[p] = <<p>> /\ p \in Places(v)
      BY <2>1, <2>4 DEF LeavesBelowOf, Places
    <3>2. f[p] \in Seq(Places(v))
      BY <3>1
    <3> QED BY <3>2 DEF f
  <2> QED BY <2>2, <2>3, <2>4
<1>2. Nodes(v) \subseteq T
  <2> HIDE DEF T
  <2> QED BY <1>1, FromBelow
<1> QED BY <1>2, PlacesOfATree

-----------------------------------------------------------------------------
(***************************************************************************)
(* The new tree of a walk                                                  *)
(***************************************************************************)
\* A place that is a comment of a map.
InRemark(v, p) ==
  p # <<>> /\ LET holder == At(v, SubSeq(p, 1, Len(p) - 1))
              IN holder.kind = "map" /\ IsRemark(holder.items[p[Len(p)]])

\* What stands at a place of the new tree.
Standing(v, new, p) == IF InRemark(v, p) /\ ~IsComment(new[p]) THEN Comment(new[p]) ELSE new[p]

\* The container w, which is at p, with the new values of its children.
Rebuilt(w, p, new) ==
  [w EXCEPT !.items = [i \in DOMAIN w.items |-> Replaced(w, i, new[Append(p, i)])]]

\* What becomes of a container.
LEMMA ContainerRebuilt ==
  ASSUME NEW v, IsTree(v), NEW p \in Nodes(v), IsContainer(At(v, p)), NEW new
  PROVE  LET w == At(v, p)
             r == Rebuilt(w, p, new)
         IN /\ r = [kind |-> w.kind, items |-> [i \in DOMAIN w.items |-> Replaced(w, i, new[Append(p, i)])]]
            /\ r.kind = w.kind /\ DOMAIN r.items = DOMAIN w.items
            /\ \A i \in DOMAIN w.items :
                 /\ r.items[i] = Replaced(w, i, new[Append(p, i)])
                 /\ InRemark(v, Append(p, i)) <=> w.kind = "map" /\ IsRemark(w.items[i])
                 /\ Child(r, i) = Standing(v, new, Append(p, i))
                 /\ w.kind = "map" =>
                      /\ r.items[i] = Item(r.items[i].key, r.items[i].value)
                      /\ IsRemark(r.items[i]) <=> IsRemark(w.items[i])
                      /\ ~IsRemark(w.items[i]) => r.items[i].key = w.items[i].key
<1> DEFINE w == At(v, p)
           r == Rebuilt(w, p, new)
<1>1. /\ w = [kind |-> w.kind, items |-> w.items] /\ w.kind \in {"map", "list"}
      /\ w.kind = "map" => \A i \in DOMAIN w.items : w.items[i] = Item(w.items[i].key, w.items[i].value)
  BY DEF IsTree, IsContainer
<1>2. p \in Seq(Nat) /\ \A i \in DOMAIN w.items : i \in Nat
  BY PlacesOfATree
<1> HIDE DEF w
<1>3. r = [kind |-> w.kind, items |-> [i \in DOMAIN w.items |-> Replaced(w, i, new[Append(p, i)])]]
  BY <1>1 DEF Rebuilt
<1> HIDE DEF r
<1>4. /\ r.kind = w.kind /\ DOMAIN r.items = DOMAIN w.items
      /\ \A i \in DOMAIN w.items : r.items[i] = Replaced(w, i, new[Append(p, i)])
  BY <1>3
<1>5. ASSUME NEW i \in DOMAIN w.items
      PROVE  InRemark(v, Append(p, i)) <=> w.kind = "map" /\ IsRemark(w.items[i])
  <2> DEFINE q == Append(p, i)
  <2>1. Len(q) = Len(p) + 1 /\ Len(p) \in Nat /\ q[Len(p) + 1] = i /\ SubSeq(q, 1, Len(p)) = p /\ q # <<>>
    <3>1. /\ Append(p, i) \in Seq(Nat) /\ Len(Append(p, i)) = Len(p) + 1 /\ Len(p) \in Nat
          /\ Append(p, i)[Len(p) + 1] = i /\ SubSeq(Append(p, i), 1, Len(p)) = p
      BY <1>2, OneStepMore
    <3>2. q # <<>>
      <4>1. Len(q) # 0 /\ Len(<<>>) = 0
        BY <3>1
      <4> HIDE DEF q
      <4> QED BY <4>1
    <3> QED BY <3>1, <3>2
  <2> HIDE DEF q
  <2>2. Len(q) - 1 = Len(p)
    BY <2>1
  <2>3. InRemark(v, q) <=> w.kind = "map" /\ IsRemark(w.items[i])
    BY <2>1, <2>2 DEF InRemark, w
  <2> QED BY <2>3 DEF q
<1>6. ASSUME NEW i \in DOMAIN w.items, w.kind = "map"
      PROVE  /\ r.items[i] = Item(r.items[i].key, r.items[i].value)
             /\ IsRemark(r.items[i]) <=> IsRemark(w.items[i])
             /\ ~IsRemark(w.items[i]) => r.items[i].key = w.items[i].key
             /\ Child(r, i) = Standing(v, new, Append(p, i))
  <2> DEFINE e == new[Append(p, i)]
             x == w.items[i]
             y == r.items[i]
  <2>1. x = Item(x.key, x.value) /\ y = Replaced(w, i, e)
    BY <1>1, <1>4, <1>6
  <2>2. CASE IsRemark(x)
    <3>1. y = [x EXCEPT !.key = IF IsComment(e) THEN e ELSE Comment(e)]
      BY <1>6, <2>1, <2>2 DEF Replaced
    <3>2. y = Item(IF IsComment(e) THEN e ELSE Comment(e), x.value)
      <4> HIDE DEF e, x, y
      <4> QED BY <2>1, <3>1 DEF Item
    <3> HIDE DEF e, y
    <3>3. y.key = (IF IsComment(e) THEN e ELSE Comment(e)) /\ y = Item(y.key, y.value) /\ IsRemark(y)
      BY <3>2 DEF Item, IsRemark, IsComment, Comment
    <3>4. Standing(v, new, Append(p, i)) = IF IsComment(e) THEN e ELSE Comment(e)
      BY <1>5, <1>6, <2>2 DEF Standing, e
    <3>5. Child(r, i) = y.key
      BY <1>4, <1>6, <3>3 DEF Child, y
    <3> QED BY <2>2, <3>3, <3>4, <3>5 DEF y
  <2>3. CASE ~IsRemark(x)
    <3>1. y = [x EXCEPT !.value = e]
      BY <1>6, <2>1, <2>3 DEF Replaced
    <3>2. y = Item(x.key, e)
      <4> HIDE DEF e, x, y
      <4> QED BY <2>1, <3>1 DEF Item
    <3> HIDE DEF e, y
    <3>3. y.value = e /\ y.key = x.key /\ y = Item(y.key, y.value) /\ ~IsRemark(y)
      BY <2>3, <3>2 DEF Item, IsRemark
    <3>4. Standing(v, new, Append(p, i)) = e
      BY <1>5, <1>6, <2>3 DEF Standing, e
    <3>5. Child(r, i) = y.value
      BY <1>4, <1>6, <3>3 DEF Child, y
    <3> QED BY <2>3, <3>3, <3>4, <3>5 DEF y
  <2> QED BY <2>2, <2>3
<1>7. ASSUME NEW i \in DOMAIN w.items, w.kind # "map"
      PROVE  Child(r, i) = Standing(v, new, Append(p, i))
  <2>1. w.kind = "list"
    BY <1>1, <1>7
  <2>2. Child(r, i) = new[Append(p, i)]
    BY <1>4, <2>1 DEF Child, Replaced
  <2> QED BY <1>5, <1>7, <2>2 DEF Standing
<1>8. ASSUME NEW i \in DOMAIN w.items
      PROVE  Child(r, i) = Standing(v, new, Append(p, i))
  BY <1>6, <1>7
<1> QED BY <1>3, <1>4, <1>5, <1>6, <1>8 DEF r, w

\* What is the comment of a map is a comment.
LEMMA RemarksAreComments ==
  ASSUME NEW v, IsTree(v), NEW p \in Nodes(v), InRemark(v, p)
  PROVE  IsComment(At(v, p))
<1> DEFINE T == {q \in Nodes(v) : InRemark(v, q) => IsComment(At(v, q))}
<1>1. <<>> \in T
  BY PlacesOfATree DEF InRemark
<1>2. ASSUME NEW q \in Nodes(v), IsContainer(At(v, q)), NEW i \in DOMAIN At(v, q).items
      PROVE  Append(q, i) \in T
  <2> DEFINE w == At(v, q)
  <2>1. Append(q, i) \in Nodes(v) /\ At(v, Append(q, i)) = Child(w, i)
    BY <1>2, TreeStep
  <2>2. InRemark(v, Append(q, i)) <=> w.kind = "map" /\ IsRemark(w.items[i])
    BY <1>2, ContainerRebuilt
  <2>3. w.kind = "map" /\ IsRemark(w.items[i]) => IsComment(Child(w, i))
    BY DEF Child, IsRemark
  <2> QED BY <2>1, <2>2, <2>3
<1>3. Nodes(v) \subseteq T
  <2> HIDE DEF T
  <2> QED BY <1>1, <1>2, FromAbove
<1> QED BY <1>3

\* The new tree has the places of the old one, if no leaf becomes a container.
LEMMA NewTree ==
  ASSUME NEW meta, NEW v, NEW cipher, IsTree(v),
         \A p \in Places(v) : ~IsContainer(OnLeaf(meta, v, p, cipher).value)
  PROVE  LET new == NewValues(meta, v, cipher)
             c == new[<<>>]
         IN /\ Nodes(c) = Nodes(v) /\ IsTree(c)
            /\ \A p \in Nodes(v) :
                 /\ At(c, p) = Standing(v, new, p)
                 /\ IsContainer(At(v, p)) => At(c, p) = Rebuilt(At(v, p), p, new)
                 /\ ~IsContainer(At(v, p)) => ~IsContainer(At(c, p))
                 /\ At(v, p) = Null => At(c, p) = Null
            /\ \A p \in Places(v) : new[p] = OnLeaf(meta, v, p, cipher).value
<1> DEFINE new == NewValues(meta, v, cipher)
           c == new[<<>>]
<1>1. ASSUME NEW p \in Nodes(v)
      PROVE  /\ IsContainer(At(v, p)) => new[p] = Rebuilt(At(v, p), p, new)
             /\ At(v, p) = Null => new[p] = Null
             /\ p \in Places(v) => new[p] = OnLeaf(meta, v, p, cipher).value
  <2> HIDE DEF new
  <2>1. new[p] = NewValuesOf(meta, v, cipher, new, p)
    BY NewValuesStep DEF new
  <2>2. IsContainer(At(v, p)) => NewValuesOf(meta, v, cipher, new, p) = Rebuilt(At(v, p), p, new)
    BY DEF NewValuesOf, Rebuilt, IsContainer, Null
  <2>3. At(v, p) = Null => NewValuesOf(meta, v, cipher, new, p) = Null
    BY DEF NewValuesOf, IsContainer, Null
  <2>4. p \in Places(v) => NewValuesOf(meta, v, cipher, new, p) = OnLeaf(meta, v, p, cipher).value
    BY DEF NewValuesOf, Places
  <2> QED BY <2>1, <2>2, <2>3, <2>4
<1> HIDE DEF new
<1>2. ASSUME NEW p \in Nodes(v)
      PROVE  /\ IsContainer(At(v, p)) => Standing(v, new, p) = Rebuilt(At(v, p), p, new)
             /\ ~IsContainer(At(v, p)) => ~IsContainer(Standing(v, new, p))
             /\ At(v, p) = Null => Standing(v, new, p) = Null
  <2>1. IsContainer(At(v, p)) \/ At(v, p) = Null => ~InRemark(v, p)
    <3>1. IsContainer(At(v, p)) \/ At(v, p) = Null => ~IsComment(At(v, p))
      BY DEF IsContainer, IsComment, Null
    <3> QED BY <3>1, RemarksAreComments
  <2>2. ASSUME ~IsContainer(At(v, p)) PROVE ~IsContainer(Standing(v, new, p))
    <3>1. ~IsContainer(Comment(new[p]))
      BY DEF Comment, IsContainer
    <3>2. CASE At(v, p) = Null
      BY <1>1, <2>2, <3>1, <3>2 DEF Standing
    <3>3. CASE At(v, p) # Null
      <4>1. p \in Places(v)
        BY <2>2, <3>3 DEF Places
      <4>2. ~IsContainer(new[p])
        BY <1>1, <4>1
      <4> QED BY <3>1, <4>2 DEF Standing
    <3> QED BY <3>2, <3>3
  <2> QED BY <1>1, <2>1, <2>2 DEF Standing
<1> DEFINE T == {p \in Nodes(v) : At(c, p) = Standing(v, new, p)}
<1> HIDE DEF c
<1>3. <<>> \in T
  <2>1. At(c, <<>>) = c /\ ~InRemark(v, <<>>)
    BY AtTheTop DEF InRemark
  <2> QED BY <2>1, PlacesOfATree DEF Standing, c
<1>4. ASSUME NEW p \in T, IsContainer(At(v, p)), NEW i \in DOMAIN At(v, p).items, Append(p, i) \in Seq(Nat)
      PROVE  /\ Append(p, i) \in T /\ i \in DOMAIN At(c, p).items
             /\ At(c, p).kind = At(v, p).kind
  <2> DEFINE w == At(v, p)
             r == Rebuilt(w, p, new)
  <2>1. At(c, p) = r
    BY <1>2, <1>4
  <2>2. p \in Seq(Nat) /\ i \in Nat /\ Append(p, i) \in Nodes(v)
    BY <1>4, PlacesOfATree
  <2>3. At(c, Append(p, i)) = Child(r, i)
    BY <2>1, <2>2, AtStep
  <2>4. r.kind = w.kind /\ i \in DOMAIN r.items /\ Child(r, i) = Standing(v, new, Append(p, i))
    BY <1>4, ContainerRebuilt
  <2> QED BY <2>1, <2>2, <2>3, <2>4
<1>5. ASSUME NEW p \in T PROVE IsContainer(At(c, p)) <=> IsContainer(At(v, p))
  <2>1. CASE IsContainer(At(v, p))
    <3>1. Rebuilt(At(v, p), p, new).kind = At(v, p).kind
      BY <2>1, ContainerRebuilt
    <3> QED BY <1>2, <2>1, <3>1 DEF IsContainer
  <2>2. CASE ~IsContainer(At(v, p))
    BY <1>2, <2>2
  <2> QED BY <2>1, <2>2
<1>6. ASSUME NEW p \in T, IsContainer(At(v, p)), NEW i \in DOMAIN At(v, p).items
      PROVE  Append(p, i) \in T
  <2>1. Append(p, i) \in Seq(Nat)
    BY <1>6, PlacesOfATree
  <2> QED BY <1>4, <1>6, <2>1
<1>7. Nodes(c) \subseteq T
  <2>1. ASSUME NEW p \in Nodes(c), p \in T, IsContainer(At(c, p)), NEW i \in DOMAIN At(c, p).items
        PROVE  Append(p, i) \in T
    <3>1. IsContainer(At(v, p))
      BY <1>5, <2>1
    <3>2. DOMAIN At(c, p).items = DOMAIN At(v, p).items
      <4>1. At(c, p) = Rebuilt(At(v, p), p, new)
        BY <1>2, <2>1, <3>1
      <4>2. DOMAIN Rebuilt(At(v, p), p, new).items = DOMAIN At(v, p).items
        BY <2>1, <3>1, ContainerRebuilt
      <4> QED BY <4>1, <4>2
    <3> QED BY <1>6, <2>1, <3>1, <3>2
  <2> HIDE DEF T
  <2> QED BY <1>3, <2>1, FromAbove
<1>8. Nodes(v) \subseteq T
  <2>1. ASSUME NEW p \in Nodes(v), p \in T, IsContainer(At(v, p)), NEW i \in DOMAIN At(v, p).items
        PROVE  Append(p, i) \in T
    BY <1>6, <2>1
  <2> HIDE DEF T
  <2> QED BY <1>3, <2>1, FromAbove
<1>9. IsTree(c)
  <2> SUFFICES ASSUME NEW p \in Nodes(c), IsContainer(At(c, p))
               PROVE  LET r == At(c, p) IN
                      /\ Len(p) < MaxDepth
                      /\ r = [kind |-> r.kind, items |-> r.items] /\ r.items \in Seq(ToSet(r.items))
                      /\ r.kind = "map" =>
                           \A i \in DOMAIN r.items :
                             /\ r.items[i] = Item(r.items[i].key, r.items[i].value)
                             /\ IsRemark(r.items[i]) \/ r.items[i].key = Key(r.items[i].key.name)
    BY DEF IsTree
  <2> DEFINE w == At(v, p)
             r == At(c, p)
  <2>1. p \in Nodes(v) /\ IsContainer(w) /\ r = Rebuilt(w, p, new)
    BY <1>2, <1>5, <1>7
  <2>2. /\ Len(p) < MaxDepth /\ DOMAIN w.items = 1..Len(w.items) /\ Len(w.items) \in Nat
        /\ w.kind = "map" => \A i \in DOMAIN w.items :
             IsRemark(w.items[i]) \/ w.items[i].key = Key(w.items[i].key.name)
    BY <2>1, TreeStep DEF IsTree
  <2>3. /\ r = [kind |-> w.kind, items |-> [i \in DOMAIN w.items |-> Replaced(w, i, new[Append(p, i)])]]
        /\ r.kind = w.kind /\ DOMAIN r.items = DOMAIN w.items
        /\ w.kind = "map" => \A i \in DOMAIN w.items :
             /\ r.items[i] = Item(r.items[i].key, r.items[i].value)
             /\ IsRemark(r.items[i]) <=> IsRemark(w.items[i])
             /\ ~IsRemark(w.items[i]) => r.items[i].key = w.items[i].key
    BY <2>1, ContainerRebuilt
  <2> HIDE DEF r, w
  <2>4. r = [kind |-> r.kind, items |-> r.items]
    BY <2>3
  <2>5. r.items \in Seq(ToSet(r.items))
    <3> DEFINE s == r.items
    <3>1. s = [i \in DOMAIN w.items |-> Replaced(w, i, new[Append(p, i)])]
      BY <2>3
    <3>2. s = [i \in 1..Len(w.items) |-> s[i]] /\ DOMAIN s = 1..Len(w.items)
      BY <2>2, <3>1
    <3> HIDE DEF s
    <3>3. \A i \in 1..Len(w.items) : s[i] \in ToSet(s)
      BY <3>2 DEF ToSet
    <3>4. s \in Seq(ToSet(s))
      BY <2>2, <3>2, <3>3
    <3> QED BY <3>4 DEF s
  <2>6. ASSUME r.kind = "map", NEW i \in DOMAIN r.items
        PROVE  /\ r.items[i] = Item(r.items[i].key, r.items[i].value)
               /\ IsRemark(r.items[i]) \/ r.items[i].key = Key(r.items[i].key.name)
    <3>1. w.kind = "map" /\ i \in DOMAIN w.items
      BY <2>3, <2>6
    <3>2. /\ r.items[i] = Item(r.items[i].key, r.items[i].value)
          /\ IsRemark(r.items[i]) <=> IsRemark(w.items[i])
          /\ ~IsRemark(w.items[i]) => r.items[i].key = w.items[i].key
      BY <2>3, <3>1
    <3>3. IsRemark(w.items[i]) \/ w.items[i].key = Key(w.items[i].key.name)
      BY <2>2, <3>1
    <3> QED BY <3>2, <3>3
  <2> QED BY <2>2, <2>4, <2>5, <2>6 DEF r
<1>10. ASSUME NEW p \in Nodes(v)
       PROVE  /\ At(c, p) = Standing(v, new, p)
              /\ IsContainer(At(v, p)) => At(c, p) = Rebuilt(At(v, p), p, new)
              /\ ~IsContainer(At(v, p)) => ~IsContainer(At(c, p))
              /\ At(v, p) = Null => At(c, p) = Null
  BY <1>2, <1>8
<1>11. \A p \in Places(v) : new[p] = OnLeaf(meta, v, p, cipher).value
  BY <1>1 DEF Places
<1>12. Nodes(v) \subseteq Nodes(c)
  <2>1. ASSUME NEW p \in Nodes(v), p \in Nodes(c), IsContainer(At(v, p)), NEW i \in DOMAIN At(v, p).items
        PROVE  Append(p, i) \in Nodes(c)
    <3>1. IsContainer(At(c, p)) /\ i \in DOMAIN At(c, p).items
      <4>1. At(c, p) = Rebuilt(At(v, p), p, new)
        BY <1>10, <2>1
      <4>2. DOMAIN Rebuilt(At(v, p), p, new).items = DOMAIN At(v, p).items
        BY <2>1, ContainerRebuilt
      <4> QED BY <1>5, <1>8, <2>1, <4>1, <4>2
    <3> QED BY <1>9, <2>1, <3>1, PlacesOfATree
  <2>2. <<>> \in Nodes(c)
    BY <1>9, PlacesOfATree
  <2> QED BY <2>1, <2>2, FromAbove
<1>13. Nodes(c) = Nodes(v)
  BY <1>7, <1>12
<1> QED BY <1>9, <1>10, <1>11, <1>13 DEF new, c

-----------------------------------------------------------------------------
(***************************************************************************)
(* Trees that differ in their leaves only                                  *)
(***************************************************************************)
\* The same places, the same keys, and comments in the same places.
Alike(v, c) ==
  /\ IsTree(v) /\ IsTree(c) /\ Nodes(c) = Nodes(v)
  /\ \A p \in Nodes(v) :
       LET w == At(v, p)
           x == At(c, p)
       IN /\ IsContainer(x) <=> IsContainer(w)
          /\ x = Null <=> w = Null
          /\ IsComment(x) <=> IsComment(w)
          /\ IsContainer(w) => x.kind = w.kind /\ DOMAIN x.items = DOMAIN w.items
          /\ w.kind = "map" => \A i \in DOMAIN w.items :
               /\ IsRemark(x.items[i]) <=> IsRemark(w.items[i])
               /\ ~IsRemark(w.items[i]) => x.items[i].key = w.items[i].key

\* The walk brings the same path and the same comments to a place of either.
LEMMA SameContext ==
  ASSUME NEW v, NEW c, Alike(v, c)
  PROVE  \A p \in Nodes(v) : Context(c, p) = Context(v, p)
<1> DEFINE T == {p \in Nodes(v) : Context(c, p) = Context(v, p)}
<1>0. IsTree(v) /\ IsTree(c) /\ Nodes(c) = Nodes(v)
  BY DEF Alike
<1>1. <<>> \in T
  BY <1>0, AtTheTop, PlacesOfATree
<1>2. ASSUME NEW p \in Nodes(v), p \in T, IsContainer(At(v, p)), NEW i \in DOMAIN At(v, p).items
      PROVE  Append(p, i) \in T
  <2> DEFINE w == At(v, p)
             x == At(c, p)
             n == Len(w.items)
  <2>1. /\ n \in Nat /\ i \in 1..n /\ Append(p, i) \in Nodes(v)
        /\ \A j \in 1..n : Append(p, j) \in Nodes(v) /\ At(v, Append(p, j)) = Child(w, j)
        /\ Context(v, Append(p, i)) = Inside(Context(v, p), w, p, i)
    BY <1>0, <1>2, TreeStep
  <2>2. IsContainer(x) /\ x.kind = w.kind /\ DOMAIN x.items = DOMAIN w.items
    BY <1>2 DEF Alike
  <2>3. Len(x.items) = n
    <3>1. /\ DOMAIN w.items = 1..n /\ n \in Nat
          /\ DOMAIN x.items = 1..Len(x.items) /\ Len(x.items) \in Nat
      BY <1>0, <1>2, <2>2, TreeStep
    <3> DEFINE m == Len(x.items)
    <3>2. 1..m = 1..n
      BY <2>2, <3>1
    <3> HIDE DEF m, n
    <3>3. m \in Nat /\ n \in Nat
      BY <3>1 DEF m
    <3>4. m = n
      BY <3>2, <3>3
    <3> QED BY <3>4 DEF m
  <2>4. /\ \A j \in 1..n : At(c, Append(p, j)) = Child(x, j)
        /\ Context(c, Append(p, i)) = Inside(Context(c, p), x, p, i)
    BY <1>0, <2>1, <2>2, <2>3, TreeStep
  <2>5. \A j \in 1..n : IsComment(Child(x, j)) <=> IsComment(Child(w, j))
    BY <2>1, <2>4 DEF Alike
  <2> HIDE DEF w, x, n
  <2>6. Active(x, p) = Active(w, p)
    <3> DEFINE Of(u, f) == [j \in 0..n |-> IF j = 0 \/ ~IsComment(Child(u, j)) THEN <<>>
                                           ELSE Append(f[j - 1], Append(p, j))]
    <3>1. ASSUME NEW f PROVE Of(x, f) = Of(w, f)
      <4>1. ASSUME NEW j \in 0..n
            PROVE  (IF j = 0 \/ ~IsComment(Child(x, j)) THEN <<>> ELSE Append(f[j - 1], Append(p, j)))
                   = IF j = 0 \/ ~IsComment(Child(w, j)) THEN <<>> ELSE Append(f[j - 1], Append(p, j))
        <5>1. j = 0 \/ j \in 1..n
          BY <2>1
        <5> QED BY <2>5, <5>1
      <4> QED BY <4>1
    <3>2. Active(x, p) = CHOOSE f : f = Of(x, f)
      BY <2>3 DEF Active, n
    <3>3. Active(w, p) = CHOOSE f : f = Of(w, f)
      BY DEF Active, n
    <3> HIDE DEF Of
    <3>4. (CHOOSE f : f = Of(x, f)) = CHOOSE f : f = Of(w, f)
      BY <3>1
    <3> QED BY <3>2, <3>3, <3>4
  <2>7. Above(x, p, i) = Above(w, p, i)
    BY <2>1, <2>5, <2>6 DEF Above
  <2>8. w.kind = "map" => /\ IsRemark(x.items[i]) <=> IsRemark(w.items[i])
                          /\ ~IsRemark(w.items[i]) => x.items[i].key = w.items[i].key
    BY <1>2 DEF Alike, w, x
  <2>9. Inside(Context(c, p), x, p, i) = Inside(Context(v, p), w, p, i)
    <3>1. Context(c, p) = Context(v, p)
      BY <1>2
    <3>2. (IF x.kind = "map" /\ ~IsRemark(x.items[i]) THEN Append(Context(c, p).path, x.items[i].key.name)
           ELSE Context(c, p).path)
          = IF w.kind = "map" /\ ~IsRemark(w.items[i]) THEN Append(Context(v, p).path, w.items[i].key.name)
            ELSE Context(v, p).path
      BY <2>2, <2>8, <3>1 DEF w, x
    <3> QED BY <2>7, <3>1, <3>2 DEF Inside
  <2> QED BY <2>1, <2>4, <2>9 DEF w, x
<1>3. Nodes(v) \subseteq T
  <2> HIDE DEF T
  <2> QED BY <1>1, <1>2, FromAbove
<1> QED BY <1>3

\* They have their leaves in the same order.
LEMMA SameLeaves ==
  ASSUME NEW v, NEW c, Alike(v, c)
  PROVE  Places(c) = Places(v) /\ LeavesBelow(c) = LeavesBelow(v)
<1>1. ASSUME NEW f, NEW p \in Nodes(v) PROVE LeavesBelowOf(c, f, p) = LeavesBelowOf(v, f, p)
  <2>1. /\ IsContainer(At(c, p)) <=> IsContainer(At(v, p))
        /\ At(c, p) = Null <=> At(v, p) = Null
        /\ IsContainer(At(v, p)) => DOMAIN At(c, p).items = DOMAIN At(v, p).items
    BY DEF Alike
  <2>2. IsContainer(At(v, p)) => [i \in DOMAIN At(c, p).items |-> f[Append(p, i)]]
                                 = [i \in DOMAIN At(v, p).items |-> f[Append(p, i)]]
    BY <2>1
  <2>3. CASE IsContainer(At(v, p))
    <3>1. At(v, p) # Null /\ At(c, p) # Null
      BY <2>1, <2>3 DEF IsContainer, Null
    <3> QED BY <2>1, <2>2, <2>3, <3>1 DEF LeavesBelowOf
  <2>4. CASE ~IsContainer(At(v, p))
    BY <2>1, <2>4 DEF LeavesBelowOf
  <2> QED BY <2>3, <2>4
<1> DEFINE N == Nodes(v)
           For(u, f) == f = [p \in N |-> LeavesBelowOf(u, f, p)]
<1>2. ASSUME NEW f PROVE For(c, f) <=> For(v, f)
  <2>1. [p \in N |-> LeavesBelowOf(c, f, p)] = [p \in N |-> LeavesBelowOf(v, f, p)]
    BY <1>1
  <2> QED BY <2>1
<1>3. LeavesBelow(c) = CHOOSE f : For(c, f)
  BY DEF Alike, LeavesBelow, LeavesBelowOf
<1>4. LeavesBelow(v) = CHOOSE f : For(v, f)
  BY DEF LeavesBelow, LeavesBelowOf
<1>5. (CHOOSE f : For(c, f)) = CHOOSE f : For(v, f)
  <2> HIDE DEF For
  <2> QED BY <1>2
<1>6. Places(c) = Places(v)
  BY DEF Alike, Places
<1> QED BY <1>3, <1>4, <1>5, <1>6

-----------------------------------------------------------------------------
(***************************************************************************)
(* Encryption                                                              *)
(***************************************************************************)
\* What encryption makes of a leaf (the closure of Tree.Encrypt, Cipher.Encrypt).
LEMMA EncryptedValue ==
  ASSUME NEW meta, NEW v, NEW s, NEW n, NEW p \in Places(v),
         NEW on, on = OnLeaf(meta, v, p, Encrypting(s, n)),
         NEW iv, iv = IVFor(Encrypting(s, n), At(v, p), Path(v, p), p)
  PROVE  /\ ~ShouldBeEncrypted(meta, v, p) => on.value = At(v, p)
         /\ ShouldBeEncrypted(meta, v, p) =>
              on.value = IF Empty(At(v, p)) THEN Blank ELSE Sealed(At(v, p), Path(v, p), iv)
         /\ ~IsContainer(on.value) /\ on.value # Null
         /\ ShouldBeEncrypted(meta, v, p) => ~IsComment(on.value)
<1> DEFINE cipher == Encrypting(s, n)
           x == At(v, p)
<1>1. cipher.encrypts = TRUE
  BY DEF Encrypting
<1> HIDE DEF cipher
<1>2. on.value = IF ShouldBeEncrypted(meta, v, p) THEN CipherEncrypt(cipher, x, Path(v, p), p) ELSE x
  BY <1>1 DEF OnLeaf, EncryptLeaf, cipher
<1>3. ~IsContainer(x) /\ x # Null
  BY DEF Places
<1>4. CASE ~ShouldBeEncrypted(meta, v, p)
  BY <1>2, <1>3, <1>4
<1>5. CASE ShouldBeEncrypted(meta, v, p) /\ Empty(x)
  <2>1. on.value = Blank
    BY <1>2, <1>5 DEF CipherEncrypt
  <2>2. ~IsContainer(Blank) /\ Blank # Null /\ ~IsComment(Blank)
    BY DEF Blank, Leaf, IsContainer, Null, IsComment
  <2> QED BY <1>5, <2>1, <2>2
<1>6. CASE ShouldBeEncrypted(meta, v, p) /\ ~Empty(x)
  <2> DEFINE c == Sealed(x, Path(v, p), iv)
  <2>1. on.value = c
    BY <1>2, <1>6 DEF CipherEncrypt, cipher
  <2>2. c.kind = "sealed"
    BY DEF Sealed
  <2> HIDE DEF c
  <2>3. ~IsContainer(c) /\ c # Null /\ ~IsComment(c)
    BY <2>2 DEF IsContainer, Null, IsComment
  <2> QED BY <1>6, <2>1, <2>3 DEF c
<1> QED BY <1>4, <1>5, <1>6

\* To encrypt a leaf never fails, and hashes it as it was (the closure of Tree.Encrypt).
LEMMA EncryptedOutcome ==
  ASSUME NEW meta, NEW v, NEW s, NEW n, NEW p,
         NEW on, on = OnLeaf(meta, v, p, Encrypting(s, n))
  PROVE  /\ on.ok = TRUE /\ on.opened = <<>>
         /\ on.hash = Hashed(meta, At(v, p), ShouldBeEncrypted(meta, v, p))
<1> DEFINE cipher == Encrypting(s, n)
<1>1. cipher.encrypts = TRUE
  BY DEF Encrypting
<1> HIDE DEF cipher
<1> QED BY <1>1 DEF OnLeaf, EncryptLeaf, cipher

\* What stands at a place after encryption.  A comment of a map remains one.
Ciphertext(v, p, iv) ==
  IF Empty(At(v, p)) THEN Blank ELSE Sealed(At(v, p), Path(v, p), iv)

\* The encrypted tree, place for place: containers keep their shape, a leaf that should be
\* encrypted is a ciphertext, or a comment with one, and any other leaf is what it was.
LEMMA EncryptedTree ==
  ASSUME NEW meta, NEW v, IsTree(v), NEW s, NEW n
  PROVE  LET cipher == Encrypting(s, n)
             w == Walk(meta, v, cipher)
             new == NewValues(meta, v, cipher)
             c == w.value
         IN /\ c = new[<<>>] /\ IsTree(c) /\ Nodes(c) = Nodes(v)
            /\ \A p \in Nodes(v) :
                 /\ IsContainer(At(v, p)) => At(c, p) = Rebuilt(At(v, p), p, new)
                 /\ IsContainer(At(c, p)) <=> IsContainer(At(v, p))
                 /\ At(c, p) = Null <=> At(v, p) = Null
                 /\ ~IsComment(At(v, p)) => ~IsComment(At(c, p))
                 /\ ~w.tangled /\ IsComment(At(v, p)) => IsComment(At(c, p))
            /\ \A p \in Places(v) :
                 /\ ~ShouldBeEncrypted(meta, v, p) => At(c, p) = At(v, p)
                 /\ ShouldBeEncrypted(meta, v, p) => \E iv :
                      \/ At(c, p) = Ciphertext(v, p, iv)
                      \/ At(c, p) = Comment(Ciphertext(v, p, iv)) /\ IsComment(At(v, p)) /\ InRemark(v, p)
<1> DEFINE cipher == Encrypting(s, n)
           w == Walk(meta, v, cipher)
           new == NewValues(meta, v, cipher)
           c == new[<<>>]
           Becomes(p) == OnLeaf(meta, v, p, cipher).value
<1>1. w.value = c /\ w.tangled = \E p \in Places(v) : IsComment(At(v, p)) /\ ~IsComment(At(c, p))
  BY DEF Walk
<1>2. ASSUME NEW p \in Places(v)
      PROVE  /\ ~IsContainer(Becomes(p)) /\ Becomes(p) # Null
             /\ ~ShouldBeEncrypted(meta, v, p) => Becomes(p) = At(v, p)
             /\ ShouldBeEncrypted(meta, v, p) =>
                  ~IsComment(Becomes(p)) /\ \E iv : Becomes(p) = Ciphertext(v, p, iv)
  <2> DEFINE on == OnLeaf(meta, v, p, Encrypting(s, n))
             iv == IVFor(Encrypting(s, n), At(v, p), Path(v, p), p)
  <2>1. Becomes(p) = on.value
    OBVIOUS
  <2> HIDE DEF Becomes
  <2>2. /\ ~ShouldBeEncrypted(meta, v, p) => on.value = At(v, p)
        /\ ShouldBeEncrypted(meta, v, p) =>
             on.value = IF Empty(At(v, p)) THEN Blank ELSE Sealed(At(v, p), Path(v, p), iv)
        /\ ~IsContainer(on.value) /\ on.value # Null
        /\ ShouldBeEncrypted(meta, v, p) => ~IsComment(on.value)
    <3>1. /\ on = OnLeaf(meta, v, p, Encrypting(s, n))
          /\ iv = IVFor(Encrypting(s, n), At(v, p), Path(v, p), p)
      OBVIOUS
    <3> HIDE DEF on, iv
    <3> QED BY <3>1, EncryptedValue
  <2> HIDE DEF on, iv
  <2>3. ShouldBeEncrypted(meta, v, p) => Becomes(p) = Ciphertext(v, p, iv)
    BY <2>1, <2>2 DEF Ciphertext
  <2>4. ShouldBeEncrypted(meta, v, p) => \E y : Becomes(p) = Ciphertext(v, p, y)
    BY <2>3
  <2> QED BY <2>1, <2>2, <2>4
<1>3. /\ Nodes(c) = Nodes(v) /\ IsTree(c)
      /\ \A p \in Nodes(v) :
           /\ At(c, p) = Standing(v, new, p)
           /\ IsContainer(At(v, p)) => At(c, p) = Rebuilt(At(v, p), p, new)
           /\ ~IsContainer(At(v, p)) => ~IsContainer(At(c, p))
           /\ At(v, p) = Null => At(c, p) = Null
      /\ \A p \in Places(v) : new[p] = Becomes(p)
  BY <1>2, NewTree
<1> HIDE DEF w, new, c, Becomes, cipher
<1>4. ASSUME NEW p \in Places(v)
      PROVE  /\ ~ShouldBeEncrypted(meta, v, p) => At(c, p) = At(v, p)
             /\ ShouldBeEncrypted(meta, v, p) => \E iv :
                      \/ At(c, p) = Ciphertext(v, p, iv)
                      \/ At(c, p) = Comment(Ciphertext(v, p, iv)) /\ IsComment(At(v, p)) /\ InRemark(v, p)
             /\ At(c, p) # Null
             /\ ~IsComment(At(v, p)) => ~IsComment(At(c, p))
  <2>1. p \in Nodes(v) /\ InRemark(v, p) => IsComment(At(v, p))
    BY RemarksAreComments DEF Places
  <2>2. At(c, p) = IF InRemark(v, p) /\ ~IsComment(Becomes(p)) THEN Comment(Becomes(p)) ELSE Becomes(p)
    BY <1>3, <2>1 DEF Standing, Places
  <2>3. Comment(Becomes(p)) # Null
    BY DEF Comment, Null
  <2>4. CASE ~ShouldBeEncrypted(meta, v, p)
    BY <1>2, <2>1, <2>2, <2>4 DEF Places
  <2>5. CASE ShouldBeEncrypted(meta, v, p)
    <3>1. PICK iv : Becomes(p) = Ciphertext(v, p, iv)
      BY <1>2, <2>5
    <3>2. ~IsComment(Becomes(p)) /\ Becomes(p) # Null
      BY <1>2, <2>5
    <3> QED BY <2>1, <2>2, <2>3, <2>5, <3>1, <3>2 DEF Places
  <2> QED BY <2>4, <2>5
<1>5. ASSUME NEW p \in Nodes(v)
      PROVE  /\ IsContainer(At(c, p)) <=> IsContainer(At(v, p))
             /\ At(c, p) = Null <=> At(v, p) = Null
             /\ ~IsComment(At(v, p)) => ~IsComment(At(c, p))
  <2>1. CASE IsContainer(At(v, p))
    <3>1. At(c, p).kind = At(v, p).kind
      BY <1>3, <2>1, ContainerRebuilt
    <3> QED BY <2>1, <3>1 DEF IsContainer, Null, IsComment
  <2>2. CASE At(v, p) = Null
    <3>1. At(c, p) = Null /\ ~IsComment(Null) /\ ~IsContainer(Null)
      BY <1>3, <2>2 DEF Null, IsComment, IsContainer
    <3> QED BY <2>2, <3>1
  <2>3. CASE ~IsContainer(At(v, p)) /\ At(v, p) # Null
    BY <1>3, <1>4, <2>3 DEF Places
  <2> QED BY <2>1, <2>2, <2>3
<1>6. ASSUME NEW p \in Nodes(v), ~w.tangled, IsComment(At(v, p)) PROVE IsComment(At(c, p))
  <2>1. p \in Places(v)
    BY <1>6 DEF Places, IsComment, IsContainer, Null
  <2> QED BY <1>1, <1>6, <2>1
<1>7. w.value = c /\ c = new[<<>>]
  BY <1>1 DEF c
<1> QED BY <1>3, <1>4, <1>5, <1>6, <1>7 DEF w, new, cipher

-----------------------------------------------------------------------------
(***************************************************************************)
(* The decision, before encryption and after it                            *)
(***************************************************************************)
\* A set of positions has a last one.
LEMMA TheLast ==
  ASSUME NEW n \in Nat, NEW D, D \subseteq 1..n, D # {}
  PROVE  Max(D) \in D /\ \A y \in D : Max(D) >= y
<1> DEFINE T == {m \in 0..n : (\E x \in D : x <= m)
                              => \E x \in D : x <= m /\ \A y \in D : y <= m => x >= y}
<1>1. 0 \in T
  OBVIOUS
<1>2. ASSUME NEW m \in 1..n, m - 1 \in T PROVE m \in T
  <2>1. CASE m \in D
    BY <2>1
  <2>2. CASE m \notin D
    <3>1. \A y \in D : y <= m <=> y <= m - 1
      BY <2>2
    <3> QED BY <1>2, <3>1
  <2> QED BY <2>1, <2>2
<1>3. n \in T
  <2> HIDE DEF T
  <2>1. 0..n \subseteq T
    BY <1>1, <1>2, CountingUp
  <2> QED BY <2>1
<1>4. \E x \in D : \A y \in D : x >= y
  <2>1. \A x \in D : x <= n
    OBVIOUS
  <2>2. \E x \in D : x <= n
    BY <2>1
  <2>3. PICK x \in D : x <= n /\ \A y \in D : y <= n => x >= y
    BY <1>3, <2>2
  <2> QED BY <2>1, <2>3
<1> QED BY <1>4 DEF Max

\* The comments that count for a place, and their texts.
Others(v, p) ==
  IF IsComment(At(v, p)) THEN Front(Context(v, p).comments) ELSE Context(v, p).comments

\* Their texts.
Texts(v, p) == [i \in DOMAIN Others(v, p) |-> String(v, Others(v, p)[i])]

\* shouldBeEncrypted looks at the value, its path and the texts of the comments in scope.
LEMMA DecisionByTexts ==
  ASSUME NEW meta, NEW v, NEW p
  PROVE  ShouldBeEncrypted(meta, v, p) <=>
           /\ IsComment(At(v, p)) => meta.comments = "marked" /\ ~Directive(String(v, p))
           /\ ByDirective(meta, Path(v, p), Texts(v, p))
BY DEF ShouldBeEncrypted, InScope, Texts, Others, Path

\* Those that count for one of the comments are those before it.
LEMMA OthersBefore ==
  ASSUME NEW v, IsTree(v), NEW p \in Nodes(v)
  PROVE  LET o == Others(v, p) IN
         /\ o \in Seq(Nodes(v)) /\ Len(o) \in Nat /\ DOMAIN o = 1..Len(o)
         /\ \A k \in 1..Len(o) : /\ o[k] \in Nodes(v) /\ IsComment(At(v, o[k]))
                                 /\ Others(v, o[k]) = SubSeq(o, 1, k - 1)
<1> DEFINE cs == Context(v, p).comments
           n == Len(cs)
           o == Others(v, p)
           m == Len(o)
<1>1. cs \in Seq(Nodes(v)) /\ n \in Nat
  BY CommentsOnTheStack
<1>2. \A k \in 1..n : IsComment(At(v, cs[k])) /\ Context(v, cs[k]).comments = SubSeq(cs, 1, k)
  BY CommentsOnTheStack
<1>3. o = cs \/ o = SubSeq(cs, 1, n - 1)
  BY DEF Others, Front
<1> HIDE DEF cs, o
<1>4. /\ o \in Seq(Nodes(v)) /\ m \in Nat /\ m <= n /\ DOMAIN o = 1..m
      /\ \A k \in 1..m : o[k] = cs[k] /\ k \in 1..n /\ o[k] \in Nodes(v)
  <2>1. CASE o = cs
    BY <1>1, <2>1
  <2>2. CASE o = SubSeq(cs, 1, n - 1) /\ n = 0
    <3>1. o = <<>>
      BY <1>1, <2>2
    <3> QED BY <1>1, <2>2, <3>1
  <2>3. CASE o = SubSeq(cs, 1, n - 1) /\ n # 0
    <3>1. n - 1 \in Nat /\ 1 <= n
      BY <1>1, <2>3
    <3>2. o = [k \in 1..(n - 1) |-> cs[k]]
      BY <1>1, <2>3, <3>1
    <3>3. \A k \in 1..(n - 1) : cs[k] \in Nodes(v) /\ k \in 1..n
      BY <1>1, <3>1, ElementOfSeq
    <3>4. o \in Seq(Nodes(v)) /\ m = n - 1
      BY <3>1, <3>2, <3>3
    <3> QED BY <1>1, <3>1, <3>2, <3>3, <3>4
  <2> QED BY <1>1, <1>3, <2>1, <2>2, <2>3
<1>5. ASSUME NEW k \in 1..m PROVE IsComment(At(v, o[k])) /\ Others(v, o[k]) = SubSeq(o, 1, k - 1)
  <2>1. k \in 1..n /\ o[k] = cs[k] /\ IsComment(At(v, cs[k]))
    BY <1>2, <1>4
  <2>2. Others(v, cs[k]) = Front(SubSeq(cs, 1, k))
    BY <1>2, <2>1 DEF Others
  <2> DEFINE s == SubSeq(cs, 1, k)
  <2>3. s = [j \in 1..k |-> cs[j]] /\ Len(s) = k /\ s \in Seq(Nodes(v))
    <3>1. s = [j \in 1..k |-> cs[j]]
      BY <1>1, <2>1
    <3>2. \A j \in 1..k : cs[j] \in Nodes(v)
      BY <1>1, <2>1, ElementOfSeq
    <3> QED BY <2>1, <3>1, <3>2
  <2> HIDE DEF s
  <2>4. Front(s) = [j \in 1..(k - 1) |-> s[j]]
    BY <2>1, <2>3 DEF Front
  <2>5. SubSeq(o, 1, k - 1) = [j \in 1..(k - 1) |-> o[j]]
    BY <1>4
  <2>6. \A j \in 1..(k - 1) : s[j] = o[j]
    BY <1>4, <2>3
  <2> QED BY <2>1, <2>2, <2>4, <2>5, <2>6 DEF s
<1> QED BY <1>4, <1>5 DEF o

\* Texts of which some are hidden, after a decision that hides no directive and, of what the rule
\* marks, only what has something marked before it, come to the same.
LEMMA SameVerdict ==
  ASSUME NEW meta, NEW path, NEW n \in Nat, NEW tv, NEW tc, NEW paths,
         tv = [i \in 1..n |-> tv[i]], tc = [i \in 1..n |-> tc[i]],
         \A i \in 1..n :
           \/ tc[i] = tv[i]
           \/ /\ meta.comments = "marked" /\ ~Directive(tv[i]) /\ tc[i].kind = "sealed"
              /\ ByDirective(meta, paths[i], [k \in 1..(i - 1) |-> tv[k]])
  PROVE  ByDirective(meta, path, tc) <=> ByDirective(meta, path, tv)
<1> DEFINE D(t) == {i \in DOMAIN t : Directive(t[i])}
<1>0. DOMAIN tv = 1..n /\ DOMAIN tc = 1..n
  OBVIOUS
<1>1. CASE meta.comments # "marked"
  <2>1. \A i \in 1..n : tc[i] = tv[i]
    BY <1>1
  <2>2. [i \in 1..n |-> tc[i]] = [i \in 1..n |-> tv[i]]
    BY <2>1
  <2>3. tc = tv
    BY <2>2
  <2> QED BY <2>3
<1>2. CASE meta.comments = "marked"
  <2>1. ASSUME NEW i \in 1..n, Directive(tv[i]) \/ Directive(tc[i]) PROVE tc[i] = tv[i]
    <3>1. Directive(tc[i]) => tc[i].kind = "leaf"
      BY TextAssumption DEF Directive
    <3> QED BY <2>1, <3>1
  <2>2. D(tc) = D(tv)
    BY <1>0, <2>1
  <2>3. CASE D(tv) # {}
    <3>1. D(tv) \subseteq 1..n
      BY <1>0
    <3> HIDE DEF D
    <3>2. Max(D(tv)) \in D(tv)
      BY <2>3, <3>1, TheLast
    <3>3. tc[Max(D(tv))] = tv[Max(D(tv))]
      BY <2>1, <3>1, <3>2 DEF D
    <3> QED BY <2>2, <2>3, <3>3 DEF ByDirective, D
  <2>4. CASE D(tv) = {}
    <3> DEFINE found(t) == \E i \in DOMAIN t : t[i] \in MarkedTexts
    <3>1. ASSUME NEW t, NEW q, D(t) = {} PROVE ByDirective(meta, q, t) <=> found(t)
      BY <1>2, <3>1 DEF ByDirective, ByComment
    <3>2. ASSUME NEW i \in 1..n, tc[i] \in MarkedTexts PROVE tc[i] = tv[i]
      <4>1. tc[i].kind = "leaf"
        BY <3>2, TextAssumption
      <4> QED BY <4>1
    <3>3. found(tc) => found(tv)
      BY <1>0, <3>2
    <3>4. ASSUME ~found(tc) PROVE ~found(tv)
      <4> DEFINE T == {m \in 0..n : \A i \in 1..m : tv[i] \notin MarkedTexts}
      <4>1. 0 \in T
        OBVIOUS
      <4>2. ASSUME NEW m \in 1..n, m - 1 \in T PROVE m \in T
        <5>1. \A i \in 1..(m - 1) : tv[i] \notin MarkedTexts /\ i \in 1..n
          BY <4>2
        <5>2. ASSUME tv[m] \in MarkedTexts PROVE FALSE
          <6>1. tc[m] # tv[m]
            BY <1>0, <3>4, <5>2
          <6> DEFINE t == [k \in 1..(m - 1) |-> tv[k]]
          <6>2. ByDirective(meta, paths[m], t)
            BY <6>1
          <6>3. D(t) = {} /\ ~found(t)
            BY <1>0, <2>4, <5>1
          <6> HIDE DEF t, D, found
          <6> QED BY <3>1, <6>2, <6>3
        <5>3. m \in 0..n /\ \A i \in 1..m : i = m \/ i \in 1..(m - 1)
          OBVIOUS
        <5>4. \A i \in 1..m : tv[i] \notin MarkedTexts
          BY <5>1, <5>2, <5>3
        <5> QED BY <5>3, <5>4
      <4>3. n \in T
        <5> HIDE DEF T
        <5>1. 0..n \subseteq T
          BY <4>1, <4>2, CountingUp
        <5> QED BY <5>1
      <4> QED BY <1>0, <4>3
    <3> HIDE DEF found, D
    <3> QED BY <2>2, <2>4, <3>1, <3>3, <3>4
  <2> QED BY <2>3, <2>4
<1> QED BY <1>1, <1>2

\* What becomes of a comment: it stays as it is, or is sealed because it should be encrypted.
LEMMA CommentsEncrypted ==
  ASSUME NEW meta, NEW v, IsTree(v), NEW s, NEW n, NEW w, w = Walk(meta, v, Encrypting(s, n)), ~w.tangled,
         NEW p \in Nodes(v), IsComment(At(v, p))
  PROVE  \/ At(w.value, p) = At(v, p)
         \/ ShouldBeEncrypted(meta, v, p) /\ \E iv : At(w.value, p) = Comment(Sealed(At(v, p), Path(v, p), iv))
<1> DEFINE c == w.value
<1>1. p \in Places(v)
  BY DEF Places, IsComment, IsContainer, Null
<1>2. /\ IsComment(At(c, p))
      /\ ~ShouldBeEncrypted(meta, v, p) => At(c, p) = At(v, p)
      /\ ShouldBeEncrypted(meta, v, p) => \E iv :
           \/ At(c, p) = Ciphertext(v, p, iv)
           \/ At(c, p) = Comment(Ciphertext(v, p, iv)) /\ IsComment(At(v, p)) /\ InRemark(v, p)
  BY <1>1, EncryptedTree
<1>3. CASE ~ShouldBeEncrypted(meta, v, p)
  BY <1>2, <1>3
<1>4. CASE ShouldBeEncrypted(meta, v, p)
  <2>1. PICK iv : \/ At(c, p) = Ciphertext(v, p, iv)
                  \/ At(c, p) = Comment(Ciphertext(v, p, iv))
    BY <1>2, <1>4
  <2>2. ~IsComment(Ciphertext(v, p, iv))
    BY DEF Ciphertext, Blank, Leaf, Sealed, IsComment
  <2>3. At(c, p) = Comment(Ciphertext(v, p, iv))
    BY <1>2, <2>1, <2>2
  <2>4. CASE Empty(At(v, p))
    <3>1. At(v, p) = Comment(Blank)
      <4>1. ~IsComment(Blank)
        BY DEF Blank, Leaf, IsComment
      <4> QED BY <2>4, <4>1 DEF Empty
    <3> QED BY <2>3, <2>4, <3>1 DEF Ciphertext
  <2>5. CASE ~Empty(At(v, p))
    BY <1>4, <2>3, <2>5 DEF Ciphertext
  <2> QED BY <2>4, <2>5
<1> QED BY <1>3, <1>4

\* A document and what encryption makes of it are alike, if no comment of a list was encrypted.
LEMMA EncryptedAlike ==
  ASSUME NEW meta, NEW v, IsTree(v), NEW s, NEW n, NEW w, w = Walk(meta, v, Encrypting(s, n)), ~w.tangled
  PROVE  Alike(v, w.value)
<1> DEFINE c == w.value
           new == NewValues(meta, v, Encrypting(s, n))
<1>1. /\ IsTree(c) /\ Nodes(c) = Nodes(v)
      /\ \A p \in Nodes(v) :
           /\ IsContainer(At(v, p)) => At(c, p) = Rebuilt(At(v, p), p, new)
           /\ IsContainer(At(c, p)) <=> IsContainer(At(v, p))
           /\ At(c, p) = Null <=> At(v, p) = Null
           /\ ~IsComment(At(v, p)) => ~IsComment(At(c, p))
           /\ IsComment(At(v, p)) => IsComment(At(c, p))
  BY EncryptedTree
<1> HIDE DEF c, new
<1>2. ASSUME NEW p \in Nodes(v), IsContainer(At(v, p))
      PROVE  /\ At(c, p).kind = At(v, p).kind /\ DOMAIN At(c, p).items = DOMAIN At(v, p).items
             /\ At(v, p).kind = "map" => \A i \in DOMAIN At(v, p).items :
                  /\ IsRemark(At(c, p).items[i]) <=> IsRemark(At(v, p).items[i])
                  /\ ~IsRemark(At(v, p).items[i]) => At(c, p).items[i].key = At(v, p).items[i].key
  BY <1>1, <1>2, ContainerRebuilt
<1>3. ASSUME NEW p \in Nodes(v), At(v, p).kind = "map" PROVE IsContainer(At(v, p))
  BY <1>3 DEF IsContainer
<1> QED BY <1>1, <1>2, <1>3 DEF Alike, c

\* What is encrypted in the document is what is taken for encrypted in the file.
LEMMA SameDecision ==
  ASSUME NEW meta, NEW v, IsTree(v), NEW s, NEW n, NEW w, w = Walk(meta, v, Encrypting(s, n)), ~w.tangled,
         NEW p \in Nodes(v)
  PROVE  /\ Path(w.value, p) = Path(v, p)
         /\ ShouldBeEncrypted(meta, w.value, p) <=> ShouldBeEncrypted(meta, v, p)
<1> DEFINE c == w.value
           o == Others(v, p)
           m == Len(o)
<1>1. Alike(v, c)
  BY EncryptedAlike
<1>2. Context(c, p) = Context(v, p)
  BY <1>1, SameContext
<1>3. IsComment(At(c, p)) <=> IsComment(At(v, p))
  BY <1>1 DEF Alike
<1>4. Others(c, p) = o
  BY <1>2, <1>3 DEF Others
<1>5. /\ m \in Nat /\ DOMAIN o = 1..m
      /\ \A k \in 1..m : /\ o[k] \in Nodes(v) /\ IsComment(At(v, o[k]))
                         /\ Others(v, o[k]) = SubSeq(o, 1, k - 1)
      /\ o \in Seq(Nodes(v))
  BY OthersBefore
<1> HIDE DEF c
<1>6. ASSUME NEW q \in Nodes(v), IsComment(At(v, q))
      PROVE  \/ At(c, q) = At(v, q)
             \/ /\ ShouldBeEncrypted(meta, v, q) /\ String(c, q).kind = "sealed"
                /\ meta.comments = "marked" /\ ~Directive(String(v, q)) /\ ByDirective(meta, Path(v, q), Texts(v, q))
  <2>1. CASE At(c, q) = At(v, q)
    BY <2>1
  <2>2. CASE At(c, q) # At(v, q)
    <3>1. /\ ShouldBeEncrypted(meta, v, q)
          /\ \E iv : At(c, q) = Comment(Sealed(At(v, q), Path(v, q), iv))
      BY <1>6, <2>2, CommentsEncrypted DEF c
    <3>2. String(c, q).kind = "sealed"
      BY <3>1 DEF String, Comment, Sealed
    <3> QED BY <1>6, <3>1, <3>2, DecisionByTexts
  <2> QED BY <2>1, <2>2
<1> DEFINE tv == Texts(v, p)
           tc == Texts(c, p)
           paths == [k \in 1..m |-> Path(v, o[k])]
<1>7. tv = [i \in 1..m |-> String(v, o[i])] /\ tc = [i \in 1..m |-> String(c, o[i])]
  BY <1>4, <1>5 DEF Texts
<1>8. ASSUME NEW k \in 1..m PROVE Texts(v, o[k]) = [i \in 1..(k - 1) |-> tv[i]]
  <2>1. Others(v, o[k]) = [i \in 1..(k - 1) |-> o[i]]
    BY <1>5
  <2>2. DOMAIN Others(v, o[k]) = 1..(k - 1) /\ \A i \in 1..(k - 1) : Others(v, o[k])[i] = o[i] /\ i \in 1..m
    BY <1>5, <2>1
  <2>3. Texts(v, o[k]) = [i \in 1..(k - 1) |-> String(v, Others(v, o[k])[i])]
    BY <2>2 DEF Texts
  <2>4. \A i \in 1..(k - 1) : String(v, Others(v, o[k])[i]) = tv[i]
    BY <1>7, <2>2
  <2> QED BY <2>3, <2>4
<1>9. ASSUME NEW i \in 1..m
      PROVE  \/ tc[i] = tv[i]
             \/ /\ meta.comments = "marked" /\ ~Directive(tv[i]) /\ tc[i].kind = "sealed"
                /\ ByDirective(meta, paths[i], [k \in 1..(i - 1) |-> tv[k]])
  <2>1. o[i] \in Nodes(v) /\ IsComment(At(v, o[i]))
    BY <1>5
  <2>2. tv[i] = String(v, o[i]) /\ tc[i] = String(c, o[i]) /\ paths[i] = Path(v, o[i])
    BY <1>7
  <2>3. CASE At(c, o[i]) = At(v, o[i])
    BY <2>2, <2>3 DEF String
  <2>4. CASE At(c, o[i]) # At(v, o[i])
    <3> HIDE DEF tv, tc, paths, o
    <3> QED BY <1>6, <1>8, <2>1, <2>2, <2>4
  <2> QED BY <2>3, <2>4
<1>10. ByDirective(meta, Path(v, p), tc) <=> ByDirective(meta, Path(v, p), tv)
  <2>1. tv = [i \in 1..m |-> tv[i]] /\ tc = [i \in 1..m |-> tc[i]] /\ m \in Nat
    BY <1>5, <1>7
  <2> HIDE DEF tv, tc, paths, m
  <2> QED BY <1>9, <2>1, SameVerdict
<1>11. Path(c, p) = Path(v, p)
  BY <1>2 DEF Path
<1>12. (IsComment(At(c, p)) => meta.comments = "marked" /\ ~Directive(String(c, p)))
       <=> (IsComment(At(v, p)) => meta.comments = "marked" /\ ~Directive(String(v, p)))
  <2>1. CASE ~IsComment(At(v, p))
    BY <1>3, <2>1
  <2>2. CASE IsComment(At(v, p)) /\ At(c, p) = At(v, p)
    BY <1>3, <2>2 DEF String
  <2>3. CASE IsComment(At(v, p)) /\ At(c, p) # At(v, p)
    <3>1. String(c, p).kind = "sealed" /\ meta.comments = "marked" /\ ~Directive(String(v, p))
      BY <1>6, <2>3
    <3>2. ~Directive(String(c, p))
      BY <3>1, TextAssumption DEF Directive
    <3> QED BY <1>3, <3>1, <3>2
  <2> QED BY <2>1, <2>2, <2>3
<1> QED BY <1>10, <1>11, <1>12, DecisionByTexts DEF c

-----------------------------------------------------------------------------
(***************************************************************************)
(* Decryption of what was encrypted                                        *)
(***************************************************************************)
\* The outcome on at the place p of a decryption: the value as it was (the comment of a map that
\* is the empty text has become that text, and Rebuilt makes a comment of it again), and what
\* encryption has hashed there.
Undone(meta, v, p, s, n, on) ==
  /\ on.ok = TRUE /\ on.hash = OnLeaf(meta, v, p, Encrypting(s, n)).hash
  /\ on.value = At(v, p) \/ (At(v, p) = Comment(Blank) /\ on.value = Blank /\ InRemark(v, p))

\* At every place, decryption undoes what encryption has done (DecryptLeaf, EncryptLeaf).
LEMMA DecryptedLeaf ==
  ASSUME NEW meta, NEW v, IsTree(v), NEW s, NEW n, NEW w, w = Walk(meta, v, Encrypting(s, n)), ~w.tangled,
         NEW p \in Places(v), NEW c, c = w.value, NEW on, on = OnLeaf(meta, c, p, Decrypting)
  PROVE  Undone(meta, v, p, s, n, on)
<1> DEFINE x == At(v, p)
           y == At(c, p)
           z == IF IsComment(y) THEN y.string ELSE y
           hash == Hashed(meta, x, ShouldBeEncrypted(meta, v, p))
<1>0. OnLeaf(meta, v, p, Encrypting(s, n)).hash = hash
  BY EncryptedOutcome
<1> SUFFICES on.ok = TRUE /\ on.hash = hash /\ (on.value = x \/ (x = Comment(Blank) /\ on.value = Blank /\ InRemark(v, p)))
  BY <1>0 DEF Undone
<1>1. p \in Nodes(v) /\ ~IsContainer(x) /\ x # Null
  BY DEF Places
<1>2. /\ IsComment(y) <=> IsComment(x)
      /\ ~ShouldBeEncrypted(meta, v, p) => y = x
      /\ ShouldBeEncrypted(meta, v, p) => \E iv :
           \/ y = Ciphertext(v, p, iv)
           \/ y = Comment(Ciphertext(v, p, iv)) /\ IsComment(x) /\ InRemark(v, p)
  BY <1>1, EncryptedTree
<1>3. Path(c, p) = Path(v, p) /\ (ShouldBeEncrypted(meta, c, p) <=> ShouldBeEncrypted(meta, v, p))
  BY <1>1, SameDecision
<1>4. on = DecryptLeaf(meta, c, p)
  BY DEF OnLeaf, Decrypting
<1>5. ~IsComment(Blank) /\ Hashed(meta, Blank, TRUE) = <<>>
  BY DEF Blank, Leaf, IsComment, Hashed
<1>6. CASE ~ShouldBeEncrypted(meta, v, p)
  <2>1. ~ShouldBeEncrypted(meta, c, p) /\ y = x
    BY <1>2, <1>3, <1>6
  <2>2. on = [value |-> y, hash |-> Hashed(meta, y, ShouldBeEncrypted(meta, c, p)), opened |-> <<>>, ok |-> TRUE]
    BY <1>4, <2>1 DEF DecryptLeaf
  <2>3. Hashed(meta, y, ShouldBeEncrypted(meta, c, p)) = Hashed(meta, x, ShouldBeEncrypted(meta, v, p))
    BY <1>6, <2>1 DEF Hashed
  <2> QED BY <2>1, <2>2, <2>3
<1>7. CASE ShouldBeEncrypted(meta, v, p)
  <2>1. ShouldBeEncrypted(meta, c, p)
    BY <1>3, <1>7
  <2>2. PICK iv : \/ y = Ciphertext(v, p, iv)
                  \/ y = Comment(Ciphertext(v, p, iv)) /\ IsComment(x) /\ InRemark(v, p)
    BY <1>2, <1>7
  <2> DEFINE t == Ciphertext(v, p, iv)
  <2>3. t # Blank => t = Sealed(x, Path(v, p), iv) /\ ~Empty(x)
    BY DEF Ciphertext
  <2>4. t = Blank => Empty(x)
    <3>1. Sealed(x, Path(v, p), iv) # Blank
      BY DEF Sealed, Blank, Leaf
    <3> QED BY <3>1 DEF Ciphertext
  <2>5. ~IsComment(t)
    BY DEF Ciphertext, Blank, Leaf, Sealed, IsComment
  <2>6. z = t
    <3>1. IsComment(Comment(t)) /\ Comment(t).string = t
      BY DEF Comment, IsComment
    <3> HIDE DEF t
    <3> QED BY <2>2, <2>5, <3>1 DEF t
  <2>7. (t.of = x /\ Opens(t, Path(c, p))) \/ t = Blank
    <3>1. Sealed(x, Path(v, p), iv).of = x /\ Opens(Sealed(x, Path(v, p), iv), Path(v, p))
      BY DEF Sealed, Opens
    <3> HIDE DEF t
    <3> QED BY <1>3, <2>3, <3>1
  <2> HIDE DEF t
  <2>8. Opens(t, Path(c, p))
    BY <2>7 DEF Opens
  <2> DEFINE opened == CipherDecrypt(t)
  <2>9. /\ on.ok = TRUE /\ on.value = opened
        /\ on.hash = Hashed(meta, opened, ShouldBeEncrypted(meta, c, p))
    <3> HIDE DEF opened
    <3>1. DecryptLeaf(meta, c, p) =
            [value |-> CipherDecrypt(z), ok |-> TRUE,
             hash |-> Hashed(meta, CipherDecrypt(z), ShouldBeEncrypted(meta, c, p)),
             opened |-> IF z = Blank THEN <<>> ELSE <<z>>]
      BY <2>1, <2>6, <2>8 DEF DecryptLeaf
    <3> QED BY <1>4, <2>6, <3>1 DEF opened
  <2>10. CASE t # Blank
    <3>1. opened = x
      BY <2>7, <2>10 DEF CipherDecrypt
    <3>2. Hashed(meta, x, ShouldBeEncrypted(meta, c, p)) = Hashed(meta, x, ShouldBeEncrypted(meta, v, p))
      BY <1>7, <2>1 DEF Hashed
    <3> HIDE DEF opened
    <3> QED BY <2>9, <3>1, <3>2
  <2>11. CASE t = Blank
    <3>1. opened = Blank /\ Empty(x)
      BY <2>4, <2>11 DEF CipherDecrypt
    <3>2. Hashed(meta, opened, ShouldBeEncrypted(meta, c, p)) = <<>>
      BY <1>5, <3>1 DEF Hashed
    <3>3. Hashed(meta, x, ShouldBeEncrypted(meta, v, p)) = <<>>
      BY <3>1 DEF Hashed, Empty, IsComment, Comment
    <3>4. CASE x = Blank
      BY <2>9, <3>1, <3>2, <3>3, <3>4
    <3>5. CASE x # Blank
      <4>1. x = Comment(Blank) /\ IsComment(x)
        BY <3>1, <3>5 DEF Empty, Comment, IsComment
      <4>2. InRemark(v, p)
        BY <1>2, <2>2, <2>5, <4>1 DEF t
      <4> QED BY <2>9, <3>1, <3>2, <3>3, <4>1, <4>2
    <3> QED BY <3>4, <3>5
  <2> QED BY <2>10, <2>11
<1> QED BY <1>6, <1>7

\* A container whose parts have become what they were.
LEMMA RebuiltTwice ==
  ASSUME NEW v, IsTree(v), NEW p \in Nodes(v), IsContainer(At(v, p)), NEW new, NEW old,
         \A i \in DOMAIN At(v, p).items :
           LET q == Append(p, i) IN
           old[q] = At(v, q) \/ (At(v, q) = Comment(Blank) /\ old[q] = Blank /\ InRemark(v, q))
  PROVE  Rebuilt(Rebuilt(At(v, p), p, new), p, old) = At(v, p)
<1> DEFINE w == At(v, p)
           r == Rebuilt(w, p, new)
<1>1. /\ w = [kind |-> w.kind, items |-> w.items] /\ w.items \in Seq(ToSet(w.items))
      /\ w.kind \in {"map", "list"}
      /\ w.kind = "map" => \A i \in DOMAIN w.items : w.items[i] = Item(w.items[i].key, w.items[i].value)
  BY DEF IsTree, IsContainer
<1>2. DOMAIN w.items = 1..Len(w.items)
  BY TreeStep
<1>3. \A i \in DOMAIN w.items : At(v, Append(p, i)) = Child(w, i)
  BY <1>2, TreeStep
<1>4. /\ r = [kind |-> w.kind, items |-> [i \in DOMAIN w.items |-> Replaced(w, i, new[Append(p, i)])]]
      /\ r.kind = w.kind /\ DOMAIN r.items = DOMAIN w.items
      /\ \A i \in DOMAIN w.items :
           /\ r.items[i] = Replaced(w, i, new[Append(p, i)])
           /\ InRemark(v, Append(p, i)) <=> w.kind = "map" /\ IsRemark(w.items[i])
           /\ w.kind = "map" =>
                /\ r.items[i] = Item(r.items[i].key, r.items[i].value)
                /\ IsRemark(r.items[i]) <=> IsRemark(w.items[i])
                /\ ~IsRemark(w.items[i]) => r.items[i].key = w.items[i].key
  BY ContainerRebuilt
<1> HIDE DEF w, r
<1>5. ASSUME NEW i \in DOMAIN w.items PROVE Replaced(r, i, old[Append(p, i)]) = w.items[i]
  <2> DEFINE q == Append(p, i)
             f == old[q]
             x == w.items[i]
             y == r.items[i]
  <2>1. f = Child(w, i) \/ (Child(w, i) = Comment(Blank) /\ f = Blank /\ InRemark(v, q))
    BY <1>3, <1>5 DEF w
  <2>2. CASE w.kind = "list"
    <3>1. Replaced(r, i, f) = f
      BY <1>4, <2>2 DEF Replaced
    <3>2. Child(w, i) = x /\ ~InRemark(v, q)
      BY <1>4, <2>2 DEF Child
    <3> QED BY <2>1, <3>1, <3>2
  <2>3. CASE w.kind = "map" /\ IsRemark(x)
    <3>1. /\ y = Item(y.key, y.value) /\ IsRemark(y) /\ x = Item(x.key, x.value)
          /\ r.kind = "map" /\ y = Replaced(w, i, new[q])
      BY <1>1, <1>4, <2>3
    <3>2. Child(w, i) = x.key /\ IsComment(x.key)
      BY <2>3 DEF Child, IsRemark
    <3>3. (IF IsComment(f) THEN f ELSE Comment(f)) = x.key
      <4>1. ~IsComment(Blank)
        BY DEF Blank, Leaf, IsComment
      <4> HIDE DEF f, x
      <4> QED BY <2>1, <3>2, <4>1
    <3>4. y.value = x.value
      <4> DEFINE k == IF IsComment(new[q]) THEN new[q] ELSE Comment(new[q])
      <4>1. y = [x EXCEPT !.key = k]
        BY <2>3, <3>1 DEF Replaced
      <4> HIDE DEF k, x, y
      <4> QED BY <3>1, <4>1 DEF Item
    <3>5. Replaced(r, i, f) = [y EXCEPT !.key = IF IsComment(f) THEN f ELSE Comment(f)]
      BY <3>1 DEF Replaced
    <3> HIDE DEF f, x, y
    <3>6. Replaced(r, i, f) = [y EXCEPT !.key = x.key]
      BY <3>3, <3>5
    <3> QED BY <3>1, <3>4, <3>6 DEF Item, x, f
  <2>4. CASE w.kind = "map" /\ ~IsRemark(x)
    <3>1. /\ y = Item(y.key, y.value) /\ ~IsRemark(y) /\ y.key = x.key /\ x = Item(x.key, x.value)
          /\ r.kind = "map" /\ ~InRemark(v, q)
      BY <1>1, <1>4, <2>4
    <3>2. f = x.value
      BY <2>1, <2>4, <3>1 DEF Child
    <3>3. Replaced(r, i, f) = [y EXCEPT !.value = f]
      BY <3>1 DEF Replaced
    <3> HIDE DEF f, x, y
    <3> QED BY <3>1, <3>2, <3>3 DEF Item, x, f
  <2> QED BY <1>1, <2>2, <2>3, <2>4
<1>6. Rebuilt(r, p, old) = [r EXCEPT !.items = w.items]
  <2>1. [i \in DOMAIN r.items |-> Replaced(r, i, old[Append(p, i)])] = [i \in DOMAIN w.items |-> w.items[i]]
    BY <1>4, <1>5
  <2>2. [i \in DOMAIN w.items |-> w.items[i]] = w.items
    BY <1>1
  <2> QED BY <2>1, <2>2 DEF Rebuilt
<1> DEFINE its == w.items
<1>7. [r EXCEPT !.items = its] = [kind |-> w.kind, items |-> its]
  <2> HIDE DEF its
  <2> QED BY <1>4
<1> QED BY <1>1, <1>6, <1>7 DEF w, r

\* The theorem about the walk: what was encrypted is decrypted to what it was made from, and
\* what is hashed on the way is the same.
LEMMA DecryptedTree ==
  ASSUME NEW meta, NEW v, IsTree(v), NEW s, NEW n, NEW w, w = Walk(meta, v, Encrypting(s, n)), ~w.tangled,
         NEW c, c = w.value, NEW d, d = Walk(meta, c, Decrypting)
  PROVE  d.value = v /\ d.ok /\ d.hash = w.hash
<1> DEFINE new == NewValues(meta, v, Encrypting(s, n))
           old == NewValues(meta, c, Decrypting)
           leaves == LeavesBelow(v)[<<>>]
           Good(p) == old[p] = At(v, p) \/ (At(v, p) = Comment(Blank) /\ old[p] = Blank /\ InRemark(v, p))
           T == {p \in Nodes(v) : Good(p)}
<1>1. Alike(v, c)
  BY EncryptedAlike
<1>2. Places(c) = Places(v) /\ LeavesBelow(c) = LeavesBelow(v)
  BY <1>1, SameLeaves
<1>3. leaves \in Seq(Places(v))
  BY LeavesArePlaces
<1>4. IsTree(c) /\ Nodes(c) = Nodes(v)
  BY <1>1 DEF Alike
<1>5. ASSUME NEW p \in Nodes(v), IsContainer(At(v, p)) => \A i \in DOMAIN At(v, p).items : Append(p, i) \in T
      PROVE  p \in T
  <2>1. old[p] = NewValuesOf(meta, c, Decrypting, old, p)
    BY <1>4, NewValuesStep
  <2>2. /\ IsContainer(At(c, p)) <=> IsContainer(At(v, p))
        /\ At(c, p) = Null <=> At(v, p) = Null
        /\ IsContainer(At(v, p)) => At(c, p) = Rebuilt(At(v, p), p, new)
    BY EncryptedTree
  <2> HIDE DEF old, new
  <2>3. CASE IsContainer(At(v, p))
    <3>1. old[p] = Rebuilt(At(c, p), p, old)
      <4>1. NewValuesOf(meta, c, Decrypting, old, p) = Rebuilt(At(c, p), p, old)
        BY <2>2, <2>3 DEF NewValuesOf, Rebuilt, IsContainer, Null
      <4> QED BY <2>1, <4>1
    <3>2. Rebuilt(Rebuilt(At(v, p), p, new), p, old) = At(v, p)
      <4>1. \A i \in DOMAIN At(v, p).items : Good(Append(p, i))
        BY <1>5, <2>3
      <4> QED BY <2>3, <4>1, RebuiltTwice
    <3> QED BY <2>2, <2>3, <3>1, <3>2
  <2>4. CASE ~IsContainer(At(v, p)) /\ At(v, p) = Null
    <3>1. NewValuesOf(meta, c, Decrypting, old, p) = Null
      BY <2>2, <2>4 DEF NewValuesOf
    <3> QED BY <2>1, <2>4, <3>1
  <2>5. CASE ~IsContainer(At(v, p)) /\ At(v, p) # Null
    <3>1. p \in Places(v)
      BY <2>5 DEF Places
    <3> DEFINE on == OnLeaf(meta, c, p, Decrypting)
    <3>2. NewValuesOf(meta, c, Decrypting, old, p) = on.value
      BY <2>2, <2>5 DEF NewValuesOf
    <3>3. on = OnLeaf(meta, c, p, Decrypting)
      OBVIOUS
    <3> HIDE DEF on
    <3>4. Undone(meta, v, p, s, n, on)
      BY <3>1, <3>3, DecryptedLeaf
    <3> QED BY <2>1, <3>2, <3>4 DEF Undone
  <2> QED BY <2>3, <2>4, <2>5
<1>6. old[<<>>] = v
  <2>1. Nodes(v) \subseteq T
    <3> HIDE DEF T
    <3> QED BY <1>5, FromBelow
  <2>2. <<>> \in Nodes(v) /\ At(v, <<>>) = v /\ ~InRemark(v, <<>>)
    BY PlacesOfATree, AtTheTop DEF InRemark
  <2> QED BY <2>1, <2>2
<1>7. ASSUME NEW i \in DOMAIN leaves
      PROVE  /\ OnLeaf(meta, c, leaves[i], Decrypting).ok = TRUE
             /\ OnLeaf(meta, c, leaves[i], Decrypting).hash = OnLeaf(meta, v, leaves[i], Encrypting(s, n)).hash
  <2> DEFINE p == leaves[i]
             on == OnLeaf(meta, c, p, Decrypting)
  <2>1. p \in Places(v)
    BY <1>3
  <2>2. on = OnLeaf(meta, c, p, Decrypting)
    OBVIOUS
  <2> HIDE DEF on, p
  <2>3. Undone(meta, v, p, s, n, on)
    BY <2>1, <2>2, DecryptedLeaf
  <2> QED BY <2>3 DEF Undone, on, p
<1>8. /\ d.value = old[<<>>]
      /\ d.hash = FlattenSeq([i \in DOMAIN leaves |-> OnLeaf(meta, c, leaves[i], Decrypting).hash])
      /\ d.ok = \A i \in DOMAIN leaves : OnLeaf(meta, c, leaves[i], Decrypting).ok
  BY <1>2 DEF Walk
<1>9. w.hash = FlattenSeq([i \in DOMAIN leaves |-> OnLeaf(meta, v, leaves[i], Encrypting(s, n)).hash])
  BY DEF Walk
<1>10. d.hash = w.hash
  <2> DEFINE h1 == [i \in DOMAIN leaves |-> OnLeaf(meta, c, leaves[i], Decrypting).hash]
             h2 == [i \in DOMAIN leaves |-> OnLeaf(meta, v, leaves[i], Encrypting(s, n)).hash]
  <2>1. h1 = h2
    BY <1>7
  <2>2. d.hash = FlattenSeq(h1) /\ w.hash = FlattenSeq(h2)
    BY <1>8, <1>9
  <2> HIDE DEF h1, h2
  <2> QED BY <2>1, <2>2
<1> QED BY <1>6, <1>7, <1>8, <1>10

-----------------------------------------------------------------------------
(***************************************************************************)
(* The decision, and what can be said of a place alone                     *)
(***************************************************************************)
\* Without the last of its elements, a concatenation is one still.
LEMMA FrontOfConcatenation ==
  ASSUME NEW S, NEW s \in Seq(S), NEW t \in Seq(S), NEW x \in S
  PROVE  Front(s \o Append(t, x)) = s \o t
<1> DEFINE u == s \o t
<1>1. u \in Seq(S) /\ Append(t, x) = t \o <<x>> /\ <<x>> \in Seq(S)
  BY ConcatProperties, AppendIsConcat
<1>2. s \o (t \o <<x>>) = u \o <<x>>
  BY <1>1, ConcatAssociative
<1>3. u \o <<x>> = Append(u, x)
  <2> HIDE DEF u
  <2> QED BY <1>1, AppendIsConcat
<1> HIDE DEF u
<1>4. Len(Append(u, x)) - 1 = Len(u) /\ SubSeq(Append(u, x), 1, Len(u)) = u
  BY <1>1, OneStepMore
<1>5. Front(Append(u, x)) = SubSeq(Append(u, x), 1, Len(Append(u, x)) - 1)
  BY DEF Front
<1> QED BY <1>1, <1>2, <1>3, <1>4, <1>5 DEF u

\* Of a child of a container those comments count that count for the container, and those right before it.
LEMMA OthersOfAChild ==
  ASSUME NEW v, IsTree(v), NEW p \in Nodes(v), NEW w, w = At(v, p), IsContainer(w), NEW i \in 1..Len(w.items)
  PROVE  \E r \in 0..(i - 1) :
           Run(w, i - 1, r) /\ Others(v, Append(p, i)) = Others(v, p) \o Behind(p, r, i - 1 - r)
<1> DEFINE q == Append(p, i)
           cs == Context(v, p).comments
           ct == Context(v, q).comments
<1>1. /\ p \in Seq(Nat) /\ Len(w.items) \in Nat /\ i \in Nat \ {0}
      /\ \A j \in 1..Len(w.items) : Append(p, j) \in Nodes(v)
      /\ At(v, q) = Child(w, i) /\ ct = cs \o Above(w, p, i)
  BY TreeStep
<1>2. Others(v, p) = cs
  BY DEF Others, IsComment, IsContainer
<1>3. PICK r \in 0..Upto(w, i) : Run(w, Upto(w, i), r) /\ Above(w, p, i) = Behind(p, r, Upto(w, i) - r)
  BY <1>1, AboveRun
<1>4. cs \in Seq(Nodes(v))
  BY CommentsOnTheStack
<1> HIDE DEF cs
<1>5. CASE ~IsComment(Child(w, i))
  <2>1. Upto(w, i) = i - 1
    BY <1>5 DEF Upto
  <2>2. Others(v, q) = ct
    BY <1>1, <1>5 DEF Others
  <2> QED BY <1>1, <1>2, <1>3, <2>1, <2>2
<1>6. CASE IsComment(Child(w, i))
  <2>1. Upto(w, i) = i
    BY <1>6 DEF Upto
  <2>2. r \in 0..(i - 1) /\ Run(w, i - 1, r)
    BY <1>1, <1>3, <1>6, <2>1 DEF Run
  <2> DEFINE m == i - 1 - r
             b == Behind(p, r, m)
  <2>3. m \in Nat /\ i - r = m + 1 /\ r + (m + 1) = i
    BY <1>1, <2>2
  <2>4. \A k \in 1..m : r + k \in 1..Len(w.items)
    BY <1>1, <2>2
  <2> HIDE DEF m
  <2>5. b \in Seq(Nodes(v)) /\ Len(b) = m /\ b = [k \in 1..m |-> Append(p, r + k)]
    BY <1>1, <2>3, <2>4 DEF Behind
  <2>6. Behind(p, r, m + 1) = Append(b, q)
    <3> HIDE DEF b
    <3>1. Append(b, q) = [k \in 1..(m + 1) |-> IF k = m + 1 THEN q ELSE b[k]]
      BY <2>3, <2>5
    <3>2. ASSUME NEW k \in 1..(m + 1) PROVE (IF k = m + 1 THEN q ELSE b[k]) = Append(p, r + k)
      <4>1. CASE k = m + 1
        BY <2>3, <4>1
      <4>2. CASE k # m + 1
        BY <2>3, <2>5, <4>2
      <4> QED BY <4>1, <4>2
    <3> QED BY <3>1, <3>2 DEF Behind
  <2>7. Others(v, q) = Front(ct)
    BY <1>1, <1>6 DEF Others
  <2>8. ct = cs \o Append(b, q) /\ q \in Nodes(v)
    BY <1>1, <1>3, <2>1, <2>3, <2>6
  <2> HIDE DEF b, q
  <2>9. Front(cs \o Append(b, q)) = cs \o b
    <3> DEFINE S == Nodes(v)
    <3>1. cs \in Seq(S) /\ b \in Seq(S) /\ q \in S
      BY <1>4, <2>5, <2>8
    <3> HIDE DEF S
    <3> QED BY <3>1, FrontOfConcatenation
  <2> QED BY <1>2, <2>2, <2>7, <2>8, <2>9 DEF b, m, q
<1> QED BY <1>5, <1>6

\* The comments right above the value at depth d on the way to p.
Block(v, p, d) ==
  LET h == SubSeq(p, 1, d - 1)
  IN {Append(h, j) : j \in {j \in 1..(p[d] - 1) : \A k \in j..(p[d] - 1) : IsComment(Child(At(v, h), k))}}

\* Those that govern a child are those that govern its container, and those right above it.
LEMMA GoverningAChild ==
  ASSUME NEW v, NEW p \in Seq(Nat), NEW i \in Nat, NEW r \in 0..(i - 1), Run(At(v, p), i - 1, r)
  PROVE  \A q : q \in Governing(v, Append(p, i)) <=>
                  q \in Governing(v, p) \/ \E j \in (r + 1)..(i - 1) : q = Append(p, j)
<1> DEFINE pi == Append(p, i)
           n == Len(p)
<1>1. /\ pi \in Seq(Nat) /\ Len(pi) = n + 1 /\ n \in Nat /\ pi[n + 1] = i
      /\ \A d \in 1..n : pi[d] = p[d] /\ SubSeq(pi, 1, d - 1) = SubSeq(p, 1, d - 1)
      /\ SubSeq(pi, 1, n) = p
  <2>1. /\ pi \in Seq(Nat) /\ Len(pi) = n + 1 /\ n \in Nat /\ pi[n + 1] = i
        /\ \A d \in 1..n : pi[d] = p[d]
        /\ \A d \in 0..n : SubSeq(pi, 1, d) = SubSeq(p, 1, d)
        /\ SubSeq(pi, 1, n) = p
    BY OneStepMore
  <2> HIDE DEF pi, n
  <2>2. \A d \in 1..n : d - 1 \in 0..n
    BY <2>1
  <2> QED BY <2>1, <2>2
<1>2. DOMAIN pi = 1..(n + 1) /\ DOMAIN p = 1..n
  BY <1>1
<1>3. \A q : q \in Governing(v, pi) <=> \E d \in 1..(n + 1) : q \in Block(v, pi, d)
  BY <1>2 DEF Governing, Block
<1>4. \A q : q \in Governing(v, p) <=> \E d \in 1..n : q \in Block(v, p, d)
  BY <1>2 DEF Governing, Block
<1>5. \A d \in 1..n : Block(v, pi, d) = Block(v, p, d)
  BY <1>1 DEF Block
<1>6. \A q : q \in Block(v, pi, n + 1) <=> \E j \in (r + 1)..(i - 1) : q = Append(p, j)
  <2> HIDE DEF pi, n
  <2>1. SubSeq(pi, 1, (n + 1) - 1) = p /\ pi[n + 1] = i
    BY <1>1
  <2>2. \A q : q \in Block(v, pi, n + 1) <=>
                \E j \in 1..(i - 1) : /\ \A k \in j..(i - 1) : IsComment(Child(At(v, p), k))
                                     /\ q = Append(p, j)
    BY <2>1 DEF Block
  <2>3. ASSUME NEW j \in 1..(i - 1)
        PROVE  (\A k \in j..(i - 1) : IsComment(Child(At(v, p), k))) <=> j \in (r + 1)..(i - 1)
    <3>1. CASE j \in (r + 1)..(i - 1)
      BY <3>1 DEF Run
    <3>2. CASE j \notin (r + 1)..(i - 1)
      <4>1. r # 0 /\ r \in j..(i - 1)
        BY <3>2
      <4>2. ~IsComment(Child(At(v, p), r))
        BY <4>1 DEF Run
      <4> QED BY <3>2, <4>1, <4>2
    <3> QED BY <3>1, <3>2
  <2>4. \A j \in (r + 1)..(i - 1) : j \in 1..(i - 1)
    OBVIOUS
  <2> QED BY <2>2, <2>3, <2>4
<1> HIDE DEF pi, n
<1>7. \A d : d \in 1..(n + 1) <=> d \in 1..n \/ d = n + 1
  BY <1>1
<1>8. ASSUME NEW q PROVE q \in Governing(v, pi) <=> q \in Governing(v, p) \/ q \in Block(v, pi, n + 1)
  BY <1>3, <1>4, <1>5, <1>7
<1> QED BY <1>6, <1>8 DEF pi

\* A comment is nearer when it is deeper, or further down in the same container.
Nearer(q, r) == Len(q) > Len(r) \/ (Len(q) = Len(r) /\ Last(q) > Last(r))

\* The comments in scope at p are in order o: those that govern it, the nearest last.
InOrderAt(v, p, o) ==
  /\ \A q : q \in Governing(v, p) <=> \E k \in 1..Len(o) : q = o[k]
  /\ \A k \in 1..Len(o) : Len(o[k]) \in 1..Len(p) /\ Last(o[k]) \in Nat
  /\ \A j, k \in 1..Len(o) : j < k => Nearer(o[k], o[j])

\* The comments right above a child are nearer to it than those above its container.
LEMMA OrderOfAChild ==
  ASSUME NEW v, NEW p \in Seq(Nat), NEW i \in Nat, NEW r \in 0..(i - 1), Run(At(v, p), i - 1, r),
         NEW S, NEW o \in Seq(S), NEW b \in Seq(S), b = Behind(p, r, i - 1 - r), InOrderAt(v, p, o)
  PROVE  InOrderAt(v, Append(p, i), o \o b)
<1> DEFINE m == i - 1 - r
           l == Len(o)
           ob == o \o b
           pi == Append(p, i)
<1>1. m \in Nat /\ Len(b) = m /\ l \in Nat /\ r \in Nat /\ \A k \in 1..m : b[k] = Append(p, r + k)
  BY DEF Behind
<1>2. /\ ob \in Seq(S) /\ Len(ob) = l + m
      /\ \A k \in 1..l : ob[k] = o[k]
      /\ \A k \in 1..m : ob[l + k] = b[k]
  <2>1. /\ o \o b \in Seq(S) /\ Len(o \o b) = Len(o) + Len(b) /\ Len(o) \in Nat /\ Len(b) \in Nat
        /\ DOMAIN o = 1..Len(o) /\ DOMAIN b = 1..Len(b) /\ DOMAIN (o \o b) = 1..(Len(o) + Len(b))
        /\ \A k \in 1..Len(o) : (o \o b)[k] = o[k] /\ SubSeq(o \o b, 1, k) = SubSeq(o, 1, k)
        /\ \A k \in 1..Len(b) : /\ (o \o b)[Len(o) + k] = b[k]
                                /\ SubSeq(o \o b, 1, Len(o) + k) = o \o SubSeq(b, 1, k)
    BY Concatenated
  <2> HIDE DEF ob
  <2> QED BY <1>1, <2>1 DEF ob
<1>3. Len(pi) = Len(p) + 1 /\ Len(p) \in Nat
  BY OneStepMore
<1> HIDE DEF m, l, ob, pi
<1>4. ASSUME NEW k \in 1..m
      PROVE  /\ ob[l + k] = Append(p, r + k) /\ Len(ob[l + k]) = Len(p) + 1
             /\ Last(ob[l + k]) = r + k
  <2>1. r + k \in Nat
    BY <1>1
  <2>2. Len(Append(p, r + k)) = Len(p) + 1 /\ Append(p, r + k)[Len(p) + 1] = r + k
    BY <2>1, OneStepMore
  <2>3. ob[l + k] = Append(p, r + k)
    BY <1>1, <1>2
  <2> QED BY <2>2, <2>3 DEF Last
<1>5. ASSUME NEW k \in 1..(l + m), k \notin 1..l
      PROVE  k - l \in 1..m /\ k = l + (k - l)
  BY <1>1, <1>5
<1>6. /\ \A k \in 1..l : Len(o[k]) \in 1..Len(p) /\ Last(o[k]) \in Nat
      /\ \A j, k \in 1..l : j < k => Nearer(o[k], o[j])
  BY DEF InOrderAt, l
<1>7. ASSUME NEW q PROVE q \in Governing(v, pi) <=> \E k \in 1..Len(ob) : q = ob[k]
  <2>1. q \in Governing(v, pi) <=> q \in Governing(v, p) \/ \E j \in (r + 1)..(i - 1) : q = Append(p, j)
    BY GoverningAChild DEF pi
  <2>2. q \in Governing(v, p) <=> \E k \in 1..l : q = o[k]
    BY DEF InOrderAt, l
  <2>3. (\E j \in (r + 1)..(i - 1) : q = Append(p, j)) <=> \E k \in 1..m : q = ob[l + k]
    <3>1. ASSUME NEW j \in (r + 1)..(i - 1) PROVE \E k \in 1..m : j = r + k
      <4>1. j - r \in 1..m /\ j = r + (j - r)
        BY DEF m
      <4> QED BY <4>1
    <3>2. ASSUME NEW k \in 1..m PROVE r + k \in (r + 1)..(i - 1)
      BY DEF m
    <3>3. ASSUME NEW j \in (r + 1)..(i - 1), q = Append(p, j) PROVE \E k \in 1..m : q = ob[l + k]
      BY <1>4, <3>1, <3>3
    <3>4. ASSUME NEW k \in 1..m, q = ob[l + k] PROVE \E j \in (r + 1)..(i - 1) : q = Append(p, j)
      BY <1>4, <3>2, <3>4
    <3> QED BY <3>3, <3>4
  <2>4. (\E k \in 1..Len(ob) : q = ob[k]) <=> (\E k \in 1..l : q = o[k]) \/ \E k \in 1..m : q = ob[l + k]
    <3>1. \A k \in 1..l : k \in 1..(l + m)
      BY <1>1
    <3>2. \A k \in 1..m : l + k \in 1..(l + m)
      BY <1>1
    <3>3. ASSUME NEW k \in 1..Len(ob), q = ob[k]
          PROVE  (\E j \in 1..l : q = o[j]) \/ \E j \in 1..m : q = ob[l + j]
      <4>1. CASE k \in 1..l
        BY <1>2, <3>3, <4>1
      <4>2. CASE k \notin 1..l
        <5> DEFINE d == k - l
        <5>1. d \in 1..m /\ k = l + d
          BY <1>2, <1>5, <4>2
        <5> HIDE DEF d
        <5> QED BY <3>3, <5>1
      <4> QED BY <4>1, <4>2
    <3>4. ASSUME NEW k \in 1..l, q = o[k] PROVE \E j \in 1..Len(ob) : q = ob[j]
      BY <1>2, <3>1, <3>4
    <3>5. ASSUME NEW k \in 1..m, q = ob[l + k] PROVE \E j \in 1..Len(ob) : q = ob[j]
      BY <1>2, <3>2, <3>5
    <3> QED BY <3>3, <3>4, <3>5
  <2> QED BY <2>1, <2>2, <2>3, <2>4
<1>8. ASSUME NEW k \in 1..Len(ob) PROVE Len(ob[k]) \in 1..Len(pi) /\ Last(ob[k]) \in Nat
  <2>1. CASE k \in 1..l
    <3>1. ob[k] = o[k] /\ Len(o[k]) \in 1..Len(p) /\ Last(o[k]) \in Nat
      BY <1>2, <1>6, <2>1
    <3>2. Len(p) \in Nat /\ \A z \in 1..Len(p) : z \in 1..(Len(p) + 1)
      BY <1>3
    <3> QED BY <1>3, <3>1, <3>2
  <2>2. CASE k \notin 1..l
    <3> DEFINE d == k - l
    <3>1. d \in 1..m /\ k = l + d
      BY <1>2, <1>5, <2>2
    <3> HIDE DEF d
    <3>2. Len(ob[k]) = Len(p) + 1 /\ Last(ob[k]) = r + d
      BY <1>4, <3>1
    <3>3. r + d \in Nat
      BY <1>1, <3>1
    <3> QED BY <1>3, <3>2, <3>3
  <2> QED BY <2>1, <2>2
<1>9. ASSUME NEW j \in 1..Len(ob), NEW k \in 1..Len(ob), j < k PROVE Nearer(ob[k], ob[j])
  <2>1. CASE k \in 1..l
    <3>1. j \in 1..l
      BY <1>1, <1>2, <1>9, <2>1
    <3> QED BY <1>2, <1>6, <1>9, <2>1, <3>1
  <2>2. CASE k \notin 1..l
    <3> DEFINE d == k - l
               e == j - l
    <3>1. d \in 1..m /\ k = l + d
      BY <1>2, <1>5, <2>2
    <3>2. CASE j \in 1..l
      <4> HIDE DEF d
      <4>1. Len(ob[k]) = Len(p) + 1
        BY <1>4, <3>1
      <4>2. Len(ob[j]) \in 1..Len(p)
        BY <1>2, <1>6, <3>2
      <4> QED BY <1>3, <4>1, <4>2 DEF Nearer
    <3>3. CASE j \notin 1..l
      <4>1. e \in 1..m /\ j = l + e
        BY <1>2, <1>5, <3>3
      <4>2. e < d
        BY <1>1, <1>9, <3>1, <4>1
      <4> HIDE DEF d, e
      <4>3. Len(ob[k]) = Len(p) + 1 /\ Last(ob[k]) = r + d
        BY <1>4, <3>1
      <4>4. Len(ob[j]) = Len(p) + 1 /\ Last(ob[j]) = r + e
        BY <1>4, <4>1
      <4>5. r + e < r + d
        BY <1>1, <3>1, <4>1, <4>2
      <4> QED BY <4>3, <4>4, <4>5 DEF Nearer
    <3> QED BY <3>2, <3>3
  <2> QED BY <2>1, <2>2
<1> QED BY <1>7, <1>8, <1>9 DEF InOrderAt, ob, pi

\* What is on the stack of comments when the walk comes to a place is what governs it.
LEMMA OthersGovern ==
  ASSUME NEW v, IsTree(v), NEW p \in Nodes(v)
  PROVE  InOrderAt(v, p, Others(v, p))
<1> DEFINE T == {q \in Nodes(v) : InOrderAt(v, q, Others(v, q))}
<1>1. <<>> \in T
  <2>1. Others(v, <<>>) = <<>>
    BY AtTheTop DEF Others, Front
  <2>2. Governing(v, <<>>) = {} /\ Len(<<>>) = 0
    BY DEF Governing
  <2>3. InOrderAt(v, <<>>, <<>>)
    BY <2>2 DEF InOrderAt
  <2> QED BY <2>1, <2>3, PlacesOfATree
<1>2. ASSUME NEW q \in Nodes(v), q \in T, IsContainer(At(v, q)), NEW i \in DOMAIN At(v, q).items
      PROVE  Append(q, i) \in T
  <2> DEFINE w == At(v, q)
             o == Others(v, q)
  <2>1. /\ q \in Seq(Nat) /\ Len(w.items) \in Nat /\ DOMAIN w.items = 1..Len(w.items)
        /\ \A j \in 1..Len(w.items) : j \in Nat \ {0} /\ Append(q, j) \in Nodes(v)
    BY <1>2, TreeStep
  <2>2. i \in 1..Len(w.items) /\ w = At(v, q)
    BY <1>2, <2>1
  <2> HIDE DEF w
  <2>3. PICK r \in 0..(i - 1) :
          Run(w, i - 1, r) /\ Others(v, Append(q, i)) = o \o Behind(q, r, i - 1 - r)
    <3>1. IsContainer(w)
      BY <1>2, <2>2
    <3>2. \E r \in 0..(i - 1) :
            Run(w, i - 1, r) /\ Others(v, Append(q, i)) = Others(v, q) \o Behind(q, r, i - 1 - r)
      <4> HIDE DEF T, o
      <4> QED BY <2>2, <3>1, OthersOfAChild, ZenonT(60)
    <3> QED BY <3>2
  <2> DEFINE b == Behind(q, r, i - 1 - r)
  <2>4. o \in Seq(Nodes(v))
    BY OthersBefore
  <2>5. b \in Seq(Nodes(v))
    <3>1. i - 1 - r \in Nat /\ \A k \in 1..(i - 1 - r) : r + k \in 1..Len(w.items)
      BY <2>1, <2>2
    <3>2. \A k \in 1..(i - 1 - r) : Append(q, r + k) \in Nodes(v)
      BY <2>1, <3>1
    <3>3. b = [k \in 1..(i - 1 - r) |-> Append(q, r + k)]
      BY DEF Behind
    <3> DEFINE m == i - 1 - r
    <3>4. m \in Nat /\ b = [k \in 1..m |-> Append(q, r + k)] /\ \A k \in 1..m : Append(q, r + k) \in Nodes(v)
      BY <3>1, <3>2, <3>3
    <3> HIDE DEF b, m
    <3> QED BY <3>4
  <2>6. InOrderAt(v, q, o) /\ b = Behind(q, r, i - 1 - r) /\ i \in Nat
    BY <1>2, <2>1, <2>2
  <2>7. Run(At(v, q), i - 1, r)
    BY <2>2, <2>3
  <2> HIDE DEF o, b, T
  <2>8. InOrderAt(v, Append(q, i), o \o b)
    BY <2>1, <2>4, <2>5, <2>6, <2>7, OrderOfAChild
  <2> QED BY <2>1, <2>2, <2>3, <2>8 DEF T, b
<1>3. Nodes(v) \subseteq T
  <2> HIDE DEF T
  <2> QED BY <1>1, <1>2, FromAbove
<1> QED BY <1>3

\* A key on the way to a place is marked; a name in a path is.
KeyOnTheWay(v, q) == \E d \in 1..Len(q) : Components(v, q)[d] \in {Key(name) : name \in MarkedNames}
NameIn(s) == \E i \in 1..Len(s) : s[i] \in MarkedNames

\* The path that the walk carries has a marked name if the way to the place goes through a marked key:
\* it has the names of the keys on the way, and of comments and elements nothing.
LEMMA NamesOnTheWay ==
  ASSUME NEW v, IsTree(v), NEW p \in Nodes(v)
  PROVE  (\E d \in DOMAIN p : Components(v, p)[d] \in {Key(name) : name \in MarkedNames})
           <=> \E i \in DOMAIN Path(v, p) : Path(v, p)[i] \in MarkedNames
<1> DEFINE Marked == {Key(name) : name \in MarkedNames}
           S == {Component(At(v, q), i).name : q \in Nodes(v), i \in Nat}
           T == {q \in Nodes(v) : Path(v, q) \in Seq(S) /\ (KeyOnTheWay(v, q) <=> NameIn(Path(v, q)))}
<1>1. <<>> \in T
  <2>1. Path(v, <<>>) = <<>> /\ Len(<<>>) = 0 /\ 1..0 = {}
    BY AtTheTop DEF Path
  <2> HIDE DEF S
  <2>2. <<>> \in Seq(S) /\ ~KeyOnTheWay(v, <<>>) /\ ~NameIn(<<>>)
    BY <2>1 DEF KeyOnTheWay, NameIn
  <2> QED BY <2>1, <2>2, PlacesOfATree
<1>2. ASSUME NEW q \in Nodes(v), q \in T, IsContainer(At(v, q)), NEW i \in DOMAIN At(v, q).items
      PROVE  Append(q, i) \in T
  <2> DEFINE w == At(v, q)
             qi == Append(q, i)
             n == Len(q)
             s == Path(v, q)
             x == w.items[i].key.name
  <2>1. /\ q \in Seq(Nat) /\ i \in Nat /\ qi \in Nodes(v)
        /\ Context(v, qi) = Inside(Context(v, q), w, q, i)
    BY <1>2, TreeStep
  <2>2. /\ qi \in Seq(Nat) /\ Len(qi) = n + 1 /\ n \in Nat /\ qi[n + 1] = i
        /\ \A d \in 1..n : qi[d] = q[d]
        /\ \A d \in 0..n : SubSeq(qi, 1, d) = SubSeq(q, 1, d)
        /\ SubSeq(qi, 1, n) = q
    BY <2>1, OneStepMore
  <2>3. ASSUME NEW d \in 1..n PROVE Components(v, qi)[d] = Components(v, q)[d]
    <3>1. d - 1 \in 0..n /\ d \in DOMAIN q /\ d \in DOMAIN qi
      BY <2>1, <2>2
    <3>2. SubSeq(qi, 1, d - 1) = SubSeq(q, 1, d - 1) /\ qi[d] = q[d]
      BY <2>2, <3>1
    <3> HIDE DEF qi
    <3> QED BY <3>1, <3>2 DEF Components
  <2>4. Components(v, qi)[n + 1] = Component(w, i)
    <3>1. n + 1 \in DOMAIN qi /\ (n + 1) - 1 = n
      BY <2>2
    <3> HIDE DEF qi, n
    <3> QED BY <2>2, <3>1 DEF Components
  <2>5. KeyOnTheWay(v, qi) <=> KeyOnTheWay(v, q) \/ Component(w, i) \in Marked
    <3>1. \A d : d \in 1..(n + 1) <=> d \in 1..n \/ d = n + 1
      BY <2>2
    <3> HIDE DEF qi, w
    <3> QED BY <2>2, <2>3, <2>4, <3>1 DEF KeyOnTheWay
  <2>6. Path(v, qi) = IF w.kind = "map" /\ ~IsRemark(w.items[i]) THEN Append(s, x) ELSE s
    BY <2>1 DEF Path, Inside
  <2>7. ASSUME w.kind = "map" /\ ~IsRemark(w.items[i])
        PROVE  Path(v, qi) \in Seq(S) /\ (KeyOnTheWay(v, qi) <=> NameIn(Path(v, qi)))
    <3>1. Component(w, i) = w.items[i].key /\ w.items[i].key = Key(x)
      BY <1>2, <2>7 DEF Component, IsTree
    <3>2. x \in S /\ x = w.items[i].key.name
      BY <2>1, <2>7, <3>1 DEF Component
    <3>3. Component(w, i) \in Marked <=> x \in MarkedNames
      BY <3>1 DEF Key
    <3> HIDE DEF S, x, s, qi, w
    <3>4. s \in Seq(S) /\ (KeyOnTheWay(v, q) <=> NameIn(s))
      BY <1>2 DEF s
    <3>5. /\ Append(s, x) \in Seq(S) /\ Len(Append(s, x)) = Len(s) + 1 /\ Len(s) \in Nat
          /\ \A k \in 1..Len(s) : Append(s, x)[k] = s[k]
          /\ Append(s, x)[Len(s) + 1] = x
      BY <3>2, <3>4, OneStepMore
    <3>6. NameIn(Append(s, x)) <=> NameIn(s) \/ x \in MarkedNames
      <4>1. \A d : d \in 1..(Len(s) + 1) <=> d \in 1..Len(s) \/ d = Len(s) + 1
        BY <3>5
      <4> QED BY <3>5, <4>1 DEF NameIn
    <3>7. Path(v, qi) = Append(s, x)
      BY <2>6, <2>7
    <3> QED BY <2>5, <3>3, <3>4, <3>5, <3>6, <3>7
  <2>8. ASSUME ~(w.kind = "map" /\ ~IsRemark(w.items[i]))
        PROVE  Path(v, qi) \in Seq(S) /\ (KeyOnTheWay(v, qi) <=> NameIn(Path(v, qi)))
    <3>1. Component(w, i) \notin Marked
      <4>1. CASE w.kind = "list"
        BY <4>1 DEF Component, Key, Index
      <4>2. CASE w.kind # "list"
        <5>1. IsComment(Component(w, i))
          BY <1>2, <2>8, <4>2 DEF Component, IsContainer, IsRemark
        <5>2. \A name : ~IsComment(Key(name))
          BY DEF Key, IsComment
        <5> HIDE DEF w
        <5> QED BY <5>1, <5>2
      <4> QED BY <4>1, <4>2
    <3>2. Path(v, qi) = s
      BY <2>6, <2>8
    <3> HIDE DEF S, s, qi, w, Marked
    <3>3. s \in Seq(S) /\ (KeyOnTheWay(v, q) <=> NameIn(s))
      BY <1>2 DEF s
    <3> QED BY <2>5, <3>1, <3>2, <3>3
  <2>9. Path(v, qi) \in Seq(S) /\ (KeyOnTheWay(v, qi) <=> NameIn(Path(v, qi)))
    BY <2>7, <2>8
  <2> HIDE DEF S
  <2> QED BY <2>1, <2>9
<1>3. Nodes(v) \subseteq T
  <2> HIDE DEF T
  <2> QED BY <1>1, <1>2, FromAbove
<1>4. Path(v, p) \in Seq(S) /\ (KeyOnTheWay(v, p) <=> NameIn(Path(v, p)))
  <2> HIDE DEF S
  <2> QED BY <1>3
<1>5. DOMAIN p = 1..Len(p)
  BY PlacesOfATree
<1>6. Path(v, p) \in Seq(S) => DOMAIN Path(v, p) = 1..Len(Path(v, p))
  <2> HIDE DEF S
  <2> QED OBVIOUS
<1> HIDE DEF S
<1> QED BY <1>4, <1>5, <1>6 DEF KeyOnTheWay, NameIn

\* The comment at q is a directive.
Directs(v, q) == Directive(At(v, q).string)

\* The closest of some comments.
Closest(B) == CHOOSE q \in B : \A r \in B : Closer(q, r)

\* The closest of the directives that govern a place is the last of those on the stack.
LEMMA ClosestIsLast ==
  ASSUME NEW v, NEW p \in Seq(Nat), NEW S, NEW o \in Seq(S), InOrderAt(v, p, o),
         NEW D, D # {}, \A k : k \in D <=> k \in 1..Len(o) /\ Directs(v, o[k]),
         NEW B, \A q : q \in B <=> q \in Governing(v, p) /\ Directs(v, q)
  PROVE  Max(D) \in D /\ o[Max(D)] = Closest(B)
<1> DEFINE m == Max(D)
           n == Len(o)
<1>1. n \in Nat /\ D \subseteq 1..n
  OBVIOUS
<1>2. m \in D /\ \A k \in D : m >= k
  <2> HIDE DEF n
  <2> QED BY <1>1, TheLast
<1> HIDE DEF m, n
<1>3. /\ \A q : q \in Governing(v, p) <=> \E k \in 1..n : q = o[k]
      /\ \A k \in 1..n : Len(o[k]) \in Nat /\ Last(o[k]) \in Nat
      /\ \A j, k \in 1..n : j < k => Nearer(o[k], o[j])
  BY DEF InOrderAt, n
<1>4. \A q : q \in B <=> \E k \in D : q = o[k]
  BY <1>3 DEF n
<1>5. m \in 1..n /\ o[m] \in B
  BY <1>1, <1>2, <1>4
<1>6. ASSUME NEW r \in B PROVE Closer(o[m], r)
  <2>1. PICK k \in D : r = o[k]
    BY <1>4
  <2>2. k \in 1..n /\ m >= k
    BY <1>1, <1>2
  <2>3. CASE k = m
    BY <1>3, <1>5, <2>1, <2>3 DEF Closer
  <2>4. CASE k # m
    <3>1. k < m
      BY <1>5, <2>2, <2>4
    <3>2. Nearer(o[m], o[k])
      BY <1>3, <1>5, <2>2, <3>1
    <3>3. /\ Len(o[k]) \in Nat /\ Last(o[k]) \in Nat
          /\ Len(o[m]) \in Nat /\ Last(o[m]) \in Nat
      BY <1>3, <1>5, <2>2
    <3> QED BY <2>1, <3>2, <3>3 DEF Closer, Nearer
  <2> QED BY <2>3, <2>4
<1>7. ASSUME NEW q \in B, \A r \in B : Closer(q, r) PROVE q = o[m]
  <2>1. PICK k \in D : q = o[k]
    BY <1>4
  <2>2. k \in 1..n /\ m >= k
    BY <1>1, <1>2
  <2>3. CASE k # m
    <3>1. k < m
      BY <1>5, <2>2, <2>3
    <3>2. Nearer(o[m], o[k])
      BY <1>3, <1>5, <2>2, <3>1
    <3>3. Closer(o[k], o[m])
      BY <1>5, <1>7, <2>1
    <3>4. /\ Len(o[k]) \in Nat /\ Last(o[k]) \in Nat
          /\ Len(o[m]) \in Nat /\ Last(o[m]) \in Nat
      BY <1>3, <1>5, <2>2
    <3> QED BY <3>2, <3>3, <3>4 DEF Closer, Nearer
  <2> QED BY <2>1, <2>3
<1>8. \E q \in B : \A r \in B : Closer(q, r)
  BY <1>5, <1>6
<1>9. Closest(B) = o[m]
  <2> DEFINE c == CHOOSE q \in B : \A r \in B : Closer(q, r)
  <2>1. c \in B /\ \A r \in B : Closer(c, r)
    BY <1>8
  <2> HIDE DEF c
  <2>2. c = o[m]
    BY <1>7, <2>1
  <2> QED BY <2>2 DEF c, Closest
<1> QED BY <1>2, <1>9 DEF m

\* shouldBeEncrypted decides as Meant does: with the comments on its stack and the path that
\* it is given, it finds the closest directive above the place, and the marked names on the way.
LEMMA DecisionIsMeant ==
  ASSUME NEW v, IsTree(v), NEW p \in Nodes(v), rule \in Rules
  PROVE  ShouldBeEncrypted(rule, v, p) <=> Meant(v, p)
<1> DEFINE o == Others(v, p)
           n == Len(o)
           t == Texts(v, p)
           D == {k \in 1..n : Directive(At(v, o[k]).string)}
           B == {q \in Governing(v, p) : Directive(At(v, q).string)}
           found == \E k \in DOMAIN t : t[k] \in MarkedTexts
           below == \E i \in DOMAIN Path(v, p) : Path(v, p)[i] \in MarkedNames
           marked == \E q \in Governing(v, p) : At(v, q).string \in MarkedTexts
           named == \E d \in DOMAIN p : Components(v, p)[d] \in {Key(name) : name \in MarkedNames}
           closest == Closest(B)
           plain == /\ rule.names = "marked" => named
                    /\ rule.names = "unmarked" => ~named
                    /\ rule.comments = "marked" => marked
                    /\ rule.comments = "unmarked" => ~marked
<1>1. o \in Seq(Nodes(v)) /\ n \in Nat /\ DOMAIN o = 1..n
  BY OthersBefore
<1>2. InOrderAt(v, p, o) /\ p \in Seq(Nat)
  BY OthersGovern, PlacesOfATree
<1>3. DOMAIN t = 1..n /\ \A k \in 1..n : t[k] = At(v, o[k]).string
  BY <1>1 DEF Texts, String
<1>4. \A q : q \in Governing(v, p) <=> \E k \in 1..n : q = o[k]
  <2> HIDE DEF o
  <2> QED BY <1>2 DEF InOrderAt
<1>5. {k \in DOMAIN t : Directive(t[k])} = D
  <2> HIDE DEF o, n, t
  <2> QED BY <1>3
<1>6. Meant(v, p) <=> /\ IsComment(At(v, p)) => rule.comments = "marked" /\ ~Directive(String(v, p))
                      /\ IF B # {} THEN At(v, closest).string = On ELSE plain
  BY DEF Meant, String, Closest
<1>7. ShouldBeEncrypted(rule, v, p) <=>
        /\ IsComment(At(v, p)) => rule.comments = "marked" /\ ~Directive(String(v, p))
        /\ IF D = {} THEN ByComment(rule, Path(v, p), t) ELSE t[Max(D)] = On
  <2>1. ByDirective(rule, Path(v, p), t) <=>
          IF D = {} THEN ByComment(rule, Path(v, p), t) ELSE t[Max(D)] = On
    <3> HIDE DEF D, t
    <3> QED BY <1>5 DEF ByDirective
  <2> HIDE DEF D
  <2> QED BY <2>1, DecisionByTexts
<1>8. D = {} <=> B = {}
  <2> HIDE DEF o, n
  <2> QED BY <1>4
<1>9. D # {} => t[Max(D)] = At(v, closest).string
  <2>1. ASSUME D # {} PROVE t[Max(D)] = At(v, closest).string
    <3>1. /\ \A k : k \in D <=> k \in 1..Len(o) /\ Directs(v, o[k])
          /\ \A q : q \in B <=> q \in Governing(v, p) /\ Directs(v, q)
          /\ D \subseteq 1..n
      BY DEF Directs
    <3> HIDE DEF o, D, B, n
    <3>2. Max(D) \in D /\ o[Max(D)] = Closest(B)
      BY <1>1, <1>2, <2>1, <3>1, ClosestIsLast
    <3> QED BY <1>3, <3>1, <3>2
  <2> QED BY <2>1
<1>10. found <=> marked
  <2> HIDE DEF o, n, t
  <2> QED BY <1>3, <1>4
<1>11. named <=> below
  BY NamesOnTheWay
<1>12. ByComment(rule, Path(v, p), t) <=> plain
  <2>1. /\ rule.names \in {"none", "marked", "unmarked"}
        /\ rule.comments \in {"none", "marked", "unmarked"}
        /\ rule.names = "none" \/ rule.comments = "none"
    BY TreeAssumption
  <2>2. ByComment(rule, Path(v, p), t) <=>
          /\ rule.comments = "none" => ByName(rule, Path(v, p))
          /\ rule.comments = "marked" => found
          /\ rule.comments = "unmarked" => ByName(rule, Path(v, p)) /\ ~found
    <3> HIDE DEF t
    <3> QED BY <2>1 DEF ByComment
  <2>3. ByName(rule, Path(v, p)) <=>
          (rule.names = "marked" => below) /\ (rule.names = "unmarked" => ~below)
    BY <2>1 DEF ByName
  <2> HIDE DEF found, below, marked, named
  <2> QED BY <1>10, <1>11, <2>1, <2>2, <2>3
<1> HIDE DEF D, B, t, closest, plain
<1> QED BY <1>6, <1>7, <1>8, <1>9, <1>12

\* Encryption seals what is meant (Tree.Encrypt, shouldBeEncrypted).
LEMMA SealedIsMeant ==
  ASSUME NEW v, IsTree(v), rule \in Rules, NEW s, NEW n,
         NEW c, c = Walk(rule, v, Encrypting(s, n)).value,
         NEW p \in Places(v), ~Empty(At(v, p)), ~IsSealed(At(v, p))
  PROVE  IsSealed(At(c, p)) <=> Meant(v, p)
<1>1. /\ ~ShouldBeEncrypted(rule, v, p) => At(c, p) = At(v, p)
      /\ ShouldBeEncrypted(rule, v, p) => \E iv :
           \/ At(c, p) = Ciphertext(v, p, iv)
           \/ At(c, p) = Comment(Ciphertext(v, p, iv)) /\ IsComment(At(v, p)) /\ InRemark(v, p)
  BY EncryptedTree
<1>2. ASSUME ShouldBeEncrypted(rule, v, p) PROVE IsSealed(At(c, p))
  <2>1. PICK iv : At(c, p) = Ciphertext(v, p, iv) \/ At(c, p) = Comment(Ciphertext(v, p, iv))
    BY <1>1, <1>2
  <2>2. Ciphertext(v, p, iv).kind = "sealed"
    BY DEF Ciphertext, Sealed
  <2> QED BY <2>1, <2>2 DEF IsSealed, IsComment, Comment
<1>3. p \in Nodes(v)
  BY DEF Places
<1> QED BY <1>1, <1>2, <1>3, DecisionIsMeant

-----------------------------------------------------------------------------
(***************************************************************************)
(* Following a path                                                        *)
(***************************************************************************)
\* The values that set and unset are called with, after so many components.
ReachedFor(v, path, old) ==
  /\ old[0] = Found(v)
  /\ \A d \in 1..Len(path) :
       old[d] = IF old[d - 1].ok /\ Position(old[d - 1].value, path[d]) # 0
                THEN Found(Part(old[d - 1].value, Position(old[d - 1].value, path[d])))
                ELSE Failed

\* Reached is that function.
LEMMA ReachedSteps ==
  ASSUME NEW v, NEW path, Len(path) \in Nat
  PROVE  ReachedFor(v, path, Reached(v, path))
<1> DEFINE n == Len(path)
           old == Reached(v, path)
           More(r, d) == IF r.ok /\ Position(r.value, path[d]) # 0
                         THEN Found(Part(r.value, Position(r.value, path[d]))) ELSE Failed
           For(f, m) == f = [d \in 0..m |-> IF d = 0 THEN Found(v) ELSE More(f[d - 1], d)]
           T == {m \in 0..n : \E f : For(f, m)}
<1> HIDE DEF More
<1>1. 0 \in T
  <2> DEFINE f == [d \in 0..0 |-> Found(v)]
  <2>1. f = [d \in 0..0 |-> IF d = 0 THEN Found(v) ELSE More(f[d - 1], d)]
    OBVIOUS
  <2> HIDE DEF f
  <2> QED BY <2>1
<1>2. ASSUME NEW m \in 1..n, m - 1 \in T PROVE m \in T
  <2>1. PICK f : For(f, m - 1)
    BY <1>2
  <2> DEFINE g == [d \in 0..m |-> IF d = m THEN More(f[m - 1], m) ELSE f[d]]
  <2>2. \A d \in 0..m : g[d] = IF d = 0 THEN Found(v) ELSE More(g[d - 1], d)
    <3> TAKE d \in 0..m
    <3>1. CASE d = m
      <4>1. g[m] = More(f[m - 1], m) /\ m # 0 /\ m - 1 # m /\ m - 1 \in 0..m
        OBVIOUS
      <4> QED BY <3>1, <4>1
    <3>2. CASE d # m /\ d # 0
      <4>1. d \in 0..(m - 1) /\ d - 1 \in 0..m /\ d - 1 # m
        BY <3>2
      <4>2. f[d] = More(f[d - 1], d)
        BY <2>1, <3>2, <4>1
      <4> QED BY <3>2, <4>1, <4>2
    <3>3. CASE d = 0
      <4>1. f[0] = Found(v)
        BY <2>1
      <4> QED BY <3>3, <4>1
    <3> QED BY <3>1, <3>2, <3>3
  <2>3. g = [d \in 0..m |-> IF d = 0 THEN Found(v) ELSE More(g[d - 1], d)]
    <3>1. g = [d \in 0..m |-> g[d]]
      OBVIOUS
    <3> HIDE DEF g
    <3> QED BY <2>2, <3>1
  <2> HIDE DEF g
  <2> QED BY <2>3
<1>3. PICK f : For(f, n)
  <2> HIDE DEF T
  <2>1. 0..n \subseteq T
    BY <1>1, <1>2, CountingUp
  <2> QED BY <2>1 DEF T
<1>4. old = CHOOSE g : For(g, n)
  BY DEF Reached, More
<1>5. For(old, n)
  <2> HIDE DEF For
  <2> QED BY <1>3, <1>4
<1>6. /\ old[0] = Found(v)
      /\ \A d \in 1..n : old[d] = More(old[d - 1], d)
  <2>1. 0 \in 0..n /\ \A d \in 1..n : d \in 0..n /\ d # 0
    OBVIOUS
  <2> QED BY <1>5, <2>1
<1> QED BY <1>6 DEF More, ReachedFor

\* What Truncate has found after so many components.
FoundFor(v, path, found) ==
  found = [d \in 0..Len(path) |->
             IF d = 0 THEN Found(v)
             ELSE IF found[d - 1].ok THEN Step(found[d - 1].value, path[d]) ELSE Failed]

\* The function in Truncate exists.
LEMMA FoundExists ==
  ASSUME NEW v, NEW path, Len(path) \in Nat
  PROVE  \E found : FoundFor(v, path, found) /\ Truncate(v, path) = found[Len(path)]
<1> DEFINE n == Len(path)
           More(r, d) == IF r.ok THEN Step(r.value, path[d]) ELSE Failed
           For(f, m) == f = [d \in 0..m |-> IF d = 0 THEN Found(v) ELSE More(f[d - 1], d)]
           T == {m \in 0..n : \E f : For(f, m)}
<1> HIDE DEF More
<1>1. 0 \in T
  <2> DEFINE f == [d \in 0..0 |-> Found(v)]
  <2>1. f = [d \in 0..0 |-> IF d = 0 THEN Found(v) ELSE More(f[d - 1], d)]
    OBVIOUS
  <2> HIDE DEF f
  <2> QED BY <2>1
<1>2. ASSUME NEW m \in 1..n, m - 1 \in T PROVE m \in T
  <2>1. PICK f : For(f, m - 1)
    BY <1>2
  <2> DEFINE g == [d \in 0..m |-> IF d = m THEN More(f[m - 1], m) ELSE f[d]]
  <2>2. \A d \in 0..m : g[d] = IF d = 0 THEN Found(v) ELSE More(g[d - 1], d)
    <3> TAKE d \in 0..m
    <3>1. CASE d = m
      <4>1. g[m] = More(f[m - 1], m) /\ m # 0 /\ m - 1 # m /\ m - 1 \in 0..m
        OBVIOUS
      <4> QED BY <3>1, <4>1
    <3>2. CASE d # m /\ d # 0
      <4>1. d \in 0..(m - 1) /\ d - 1 \in 0..m /\ d - 1 # m
        BY <3>2
      <4>2. f[d] = More(f[d - 1], d)
        BY <2>1, <3>2, <4>1
      <4> QED BY <3>2, <4>1, <4>2
    <3>3. CASE d = 0
      <4>1. f[0] = Found(v)
        BY <2>1
      <4> QED BY <3>3, <4>1
    <3> QED BY <3>1, <3>2, <3>3
  <2>3. g = [d \in 0..m |-> IF d = 0 THEN Found(v) ELSE More(g[d - 1], d)]
    <3>1. g = [d \in 0..m |-> g[d]]
      OBVIOUS
    <3> HIDE DEF g
    <3> QED BY <2>2, <3>1
  <2> HIDE DEF g
  <2> QED BY <2>3
<1>3. n \in T
  <2> HIDE DEF T
  <2>1. 0..n \subseteq T
    BY <1>1, <1>2, CountingUp
  <2> QED BY <2>1
<1>4. PICK f : FoundFor(v, path, f)
  BY <1>3 DEF FoundFor, More
<1> DEFINE found == CHOOSE found : FoundFor(v, path, found)
<1>5. FoundFor(v, path, found)
  BY <1>4
<1>6. Truncate(v, path) = found[Len(path)]
  BY DEF Truncate, FoundFor
<1> QED BY <1>5, <1>6

\* The containers that set makes for what is left of the path.
LEMMA ChainSteps ==
  ASSUME NEW path, NEW leaf, NEW n, n = Len(path), n \in Nat, NEW rest, rest = Chain(path, leaf)
  PROVE  rest[n] = leaf /\ \A d \in 0..(n - 1) : rest[d] = Around(path[d + 1], rest[d + 1])
<1> DEFINE More(r, d) == IF d = n THEN leaf ELSE Around(path[d + 1], r)
           For(f, m) == f = [d \in m..n |-> More(f[d + 1], d)]
           T == {m \in 0..n : \E f : For(f, m)}
<1>0. \A y, z : More(y, n) = More(z, n)
  OBVIOUS
<1> HIDE DEF More
<1>1. n \in T
  <2> DEFINE f == [d \in n..n |-> More(0, n)]
  <2>1. \A d \in n..n : f[d] = More(f[d + 1], d)
    <3>1. \A d \in n..n : d = n /\ f[d] = More(0, n)
      OBVIOUS
    <3> HIDE DEF f
    <3> QED BY <1>0, <3>1
  <2>2. f = [d \in n..n |-> More(f[d + 1], d)]
    <3>1. f = [d \in n..n |-> f[d]]
      OBVIOUS
    <3> HIDE DEF f
    <3> QED BY <2>1, <3>1
  <2> HIDE DEF f
  <2> QED BY <2>2
<1>2. ASSUME NEW m \in 0..(n - 1), m + 1 \in T PROVE m \in T
  <2>1. PICK f : For(f, m + 1)
    BY <1>2
  <2> DEFINE g == [d \in m..n |-> IF d = m THEN More(f[m + 1], m) ELSE f[d]]
  <2>2. \A d \in m..n : g[d] = More(g[d + 1], d)
    <3> TAKE d \in m..n
    <3>1. CASE d = m
      <4>1. g[m] = More(f[m + 1], m) /\ m + 1 # m /\ m + 1 \in m..n
        OBVIOUS
      <4>2. g[m + 1] = f[m + 1]
        BY <4>1
      <4> QED BY <3>1, <4>1, <4>2
    <3>2. CASE d # m /\ d # n
      <4>1. d \in (m + 1)..n /\ d + 1 \in m..n /\ d + 1 # m
        BY <3>2
      <4>2. f[d] = More(f[d + 1], d)
        BY <2>1, <4>1
      <4> QED BY <3>2, <4>1, <4>2
    <3>3. CASE d # m /\ d = n
      <4>1. d \in (m + 1)..n
        BY <3>3
      <4>2. f[d] = More(f[d + 1], d) /\ g[d] = f[d]
        BY <2>1, <3>3, <4>1
      <4> HIDE DEF g
      <4> QED BY <1>0, <3>3, <4>2
    <3> QED BY <3>1, <3>2, <3>3
  <2>3. g = [d \in m..n |-> More(g[d + 1], d)]
    <3>1. g = [d \in m..n |-> g[d]]
      OBVIOUS
    <3> HIDE DEF g
    <3> QED BY <2>2, <3>1
  <2> HIDE DEF g
  <2> QED BY <2>3
<1>3. PICK f : For(f, 0)
  <2> HIDE DEF T
  <2>1. 0..n \subseteq T
    BY <1>1, <1>2, CountingDown
  <2> QED BY <2>1 DEF T
<1>4. rest = CHOOSE g : For(g, 0)
  BY DEF Chain, More
<1>5. For(rest, 0)
  <2> HIDE DEF For
  <2> QED BY <1>3, <1>4
<1>6. \A d \in 0..n : rest[d] = More(rest[d + 1], d)
  BY <1>5
<1>7. n \in 0..n /\ \A d \in 0..(n - 1) : d \in 0..n /\ d # n
  OBVIOUS
<1> QED BY <1>6, <1>7 DEF More

\* The values that set returns.
LEMMA SetSteps ==
  ASSUME NEW v, NEW path, NEW leaf, path # <<>>, NEW n, n = Len(path), n \in Nat,
         NEW old, old = Reached(v, path), NEW rest, rest = Chain(path, leaf)
  PROVE  \E new :
           /\ SetIn(v, path, leaf) = new[0] /\ new[n] = Updated(leaf, old[n].value # leaf)
           /\ \A d \in 0..(n - 1) :
                LET w == old[d].value IN
                /\ w.kind = "map" => new[d] = SetInMap(w, path[d + 1], rest[d + 1], new[d + 1])
                /\ w.kind = "list" => new[d] = SetInList(w, path[d + 1], rest[d + 1], new[d + 1])
                /\ ~IsContainer(w) => new[d] = Updated(rest[d], w # rest[d])
<1> DEFINE More(r, d) == SetAt(old[d].value, path, d, leaf, rest, r)
           For(f, m) == f = [d \in m..n |-> More(f[d + 1], d)]
           T == {m \in 0..n : \E f : For(f, m)}
<1>0. \A y, z : More(y, n) = More(z, n)
  BY DEF SetAt
<1> HIDE DEF More
<1>1. n \in T
  <2> DEFINE f == [d \in n..n |-> More(0, n)]
  <2>1. \A d \in n..n : f[d] = More(f[d + 1], d)
    <3>1. \A d \in n..n : d = n /\ f[d] = More(0, n)
      OBVIOUS
    <3> HIDE DEF f
    <3> QED BY <1>0, <3>1
  <2>2. f = [d \in n..n |-> More(f[d + 1], d)]
    <3>1. f = [d \in n..n |-> f[d]]
      OBVIOUS
    <3> HIDE DEF f
    <3> QED BY <2>1, <3>1
  <2> HIDE DEF f
  <2> QED BY <2>2
<1>2. ASSUME NEW m \in 0..(n - 1), m + 1 \in T PROVE m \in T
  <2>1. PICK f : For(f, m + 1)
    BY <1>2
  <2> DEFINE g == [d \in m..n |-> IF d = m THEN More(f[m + 1], m) ELSE f[d]]
  <2>2. \A d \in m..n : g[d] = More(g[d + 1], d)
    <3> TAKE d \in m..n
    <3>1. CASE d = m
      <4>1. g[m] = More(f[m + 1], m) /\ m + 1 # m /\ m + 1 \in m..n
        OBVIOUS
      <4>2. g[m + 1] = f[m + 1]
        BY <4>1
      <4> QED BY <3>1, <4>1, <4>2
    <3>2. CASE d # m /\ d # n
      <4>1. d \in (m + 1)..n /\ d + 1 \in m..n /\ d + 1 # m
        BY <3>2
      <4>2. f[d] = More(f[d + 1], d)
        BY <2>1, <4>1
      <4> QED BY <3>2, <4>1, <4>2
    <3>3. CASE d # m /\ d = n
      <4>1. d \in (m + 1)..n
        BY <3>3
      <4>2. f[d] = More(f[d + 1], d) /\ g[d] = f[d]
        BY <2>1, <3>3, <4>1
      <4> HIDE DEF g
      <4> QED BY <1>0, <3>3, <4>2
    <3> QED BY <3>1, <3>2, <3>3
  <2>3. g = [d \in m..n |-> More(g[d + 1], d)]
    <3>1. g = [d \in m..n |-> g[d]]
      OBVIOUS
    <3> HIDE DEF g
    <3> QED BY <2>2, <3>1
  <2> HIDE DEF g
  <2> QED BY <2>3
<1>3. PICK f : For(f, 0)
  <2> HIDE DEF T
  <2>1. 0..n \subseteq T
    BY <1>1, <1>2, CountingDown
  <2> QED BY <2>1 DEF T
<1> DEFINE new == CHOOSE g : For(g, 0)
<1>4. SetIn(v, path, leaf) = new[0]
  BY DEF SetIn, More
<1>5. For(new, 0)
  <2> HIDE DEF For
  <2> QED BY <1>3
<1>6. \A d \in 0..n : new[d] = More(new[d + 1], d)
  <2> HIDE DEF new
  <2> QED BY <1>5
<1> HIDE DEF new
<1>7. n \in 0..n /\ \A d \in 0..(n - 1) : d \in 0..n /\ d < n /\ d # n
  OBVIOUS
<1>8. new[n] = Updated(leaf, old[n].value # leaf)
  BY <1>6, <1>7 DEF More, SetAt
<1>9. ASSUME NEW d \in 0..(n - 1), NEW w, w = old[d].value
      PROVE  /\ w.kind = "map" => new[d] = SetInMap(w, path[d + 1], rest[d + 1], new[d + 1])
             /\ w.kind = "list" => new[d] = SetInList(w, path[d + 1], rest[d + 1], new[d + 1])
             /\ ~IsContainer(w) => new[d] = Updated(rest[d], w # rest[d])
  <2>1. d < n /\ d # n /\ new[d] = More(new[d + 1], d)
    BY <1>6, <1>7
  <2> QED BY <1>9, <2>1 DEF More, SetAt, IsContainer
<1> QED BY <1>4, <1>8, <1>9

\* The container w with x at the end, and without what is at i.
Added(w, x) == [kind |-> w.kind, items |-> Append(w.items, x)]
Without(w, i) == [w EXCEPT !.items = RemoveAt(@, i)]

\* The values that unset returns, from those it is called with.
UnsetFor(path, n, old, new) ==
  \A d \in 0..n :
    LET w == old[d].value
        i == Position(w, path[d + 1])
    IN /\ i = 0 => new[d] = Failed
       /\ i # 0 /\ d = n => new[d] = Updated(Without(w, i), TRUE)
       /\ i # 0 /\ d # n => new[d] = PutBack(w, i, new[d + 1])

\* UnsetIn is the first of them.
LEMMA UnsetSteps ==
  ASSUME NEW v, NEW path, path # <<>>, NEW n, n = Len(path) - 1, n \in Nat,
         NEW old, old = Reached(v, path)
  PROVE  \E new : UnsetIn(v, path) = new[0] /\ UnsetFor(path, n, old, new)
<1> DEFINE More(r, d) == LET w == old[d].value
                             i == Position(w, path[d + 1])
             IN CASE i = 0 -> Failed
                  [] i # 0 /\ d = n -> Updated([w EXCEPT !.items = RemoveAt(@, i)], TRUE)
                  [] OTHER -> PutBack(w, i, r)
           For(f, m) == f = [d \in m..n |-> More(f[d + 1], d)]
           T == {m \in 0..n : \E f : For(f, m)}
<1>0. \A y, z : More(y, n) = More(z, n)
  OBVIOUS
<1> HIDE DEF More
<1>1. n \in T
  <2> DEFINE f == [d \in n..n |-> More(0, n)]
  <2>1. \A d \in n..n : f[d] = More(f[d + 1], d)
    <3>1. \A d \in n..n : d = n /\ f[d] = More(0, n)
      OBVIOUS
    <3> HIDE DEF f
    <3> QED BY <1>0, <3>1
  <2>2. f = [d \in n..n |-> More(f[d + 1], d)]
    <3>1. f = [d \in n..n |-> f[d]]
      OBVIOUS
    <3> HIDE DEF f
    <3> QED BY <2>1, <3>1
  <2> HIDE DEF f
  <2> QED BY <2>2
<1>2. ASSUME NEW m \in 0..(n - 1), m + 1 \in T PROVE m \in T
  <2>1. PICK f : For(f, m + 1)
    BY <1>2
  <2> DEFINE g == [d \in m..n |-> IF d = m THEN More(f[m + 1], m) ELSE f[d]]
  <2>2. \A d \in m..n : g[d] = More(g[d + 1], d)
    <3> TAKE d \in m..n
    <3>1. CASE d = m
      <4>1. g[m] = More(f[m + 1], m) /\ m + 1 # m /\ m + 1 \in m..n
        OBVIOUS
      <4>2. g[m + 1] = f[m + 1]
        BY <4>1
      <4> QED BY <3>1, <4>1, <4>2
    <3>2. CASE d # m /\ d # n
      <4>1. d \in (m + 1)..n /\ d + 1 \in m..n /\ d + 1 # m
        BY <3>2
      <4>2. f[d] = More(f[d + 1], d)
        BY <2>1, <4>1
      <4> QED BY <3>2, <4>1, <4>2
    <3>3. CASE d # m /\ d = n
      <4>1. d \in (m + 1)..n
        BY <3>3
      <4>2. f[d] = More(f[d + 1], d) /\ g[d] = f[d]
        BY <2>1, <3>3, <4>1
      <4> HIDE DEF g
      <4> QED BY <1>0, <3>3, <4>2
    <3> QED BY <3>1, <3>2, <3>3
  <2>3. g = [d \in m..n |-> More(g[d + 1], d)]
    <3>1. g = [d \in m..n |-> g[d]]
      OBVIOUS
    <3> HIDE DEF g
    <3> QED BY <2>2, <3>1
  <2> HIDE DEF g
  <2> QED BY <2>3
<1>3. PICK f : For(f, 0)
  <2> HIDE DEF T
  <2>1. 0..n \subseteq T
    BY <1>1, <1>2, CountingDown, SMTT(30)
  <2> QED BY <2>1 DEF T
<1> DEFINE new == CHOOSE g : For(g, 0)
<1>4. UnsetIn(v, path) = new[0]
  BY DEF UnsetIn, More
<1>5. For(new, 0)
  <2> HIDE DEF For
  <2> QED BY <1>3
<1>6. \A d \in 0..n : new[d] = More(new[d + 1], d)
  <2> HIDE DEF new
  <2> QED BY <1>5
<1> HIDE DEF new
<1> QED BY <1>4, <1>6 DEF More, UnsetFor, Without

\* Truncate of the empty path is the document, and of a longer one a step from what it found before.
LEMMA TruncateStep ==
  ASSUME NEW v, NEW S, NEW path \in Seq(S), NEW c \in S
  PROVE  /\ Truncate(v, <<>>) = Found(v)
         /\ Truncate(v, Append(path, c)) = IF Truncate(v, path).ok THEN Step(Truncate(v, path).value, c)
                                           ELSE Failed
<1>1. Truncate(v, <<>>) = Found(v)
  <2>1. Len(<<>>) = 0
    OBVIOUS
  <2>2. PICK found : FoundFor(v, <<>>, found) /\ Truncate(v, <<>>) = found[0]
    BY <2>1, FoundExists
  <2> QED BY <2>1, <2>2 DEF FoundFor
<1> DEFINE q == Append(path, c)
           n == Len(path)
<1>2. n \in Nat /\ Len(q) = n + 1 /\ q[n + 1] = c /\ \A d \in 1..n : q[d] = path[d]
  BY OneStepMore
<1>3. PICK f : FoundFor(v, path, f) /\ Truncate(v, path) = f[n]
  BY <1>2, FoundExists
<1> HIDE DEF q
<1>4. PICK g : FoundFor(v, q, g) /\ Truncate(v, q) = g[n + 1]
  <2>1. Len(q) \in Nat
    BY <1>2
  <2>2. \E g : FoundFor(v, q, g) /\ Truncate(v, q) = g[Len(q)]
    BY <2>1, FoundExists
  <2> QED BY <1>2, <2>2
<1> HIDE DEF n
<1> DEFINE T == {d \in 0..n : f[d] = g[d]}
<1>5. 0 \in T
  BY <1>2, <1>3, <1>4 DEF FoundFor, n
<1>6. ASSUME NEW d \in 1..n, d - 1 \in T PROVE d \in T
  <2>1. d \in 0..n /\ d \in 0..(n + 1) /\ d # 0
    BY <1>2
  <2>2. /\ f[d] = IF f[d - 1].ok THEN Step(f[d - 1].value, path[d]) ELSE Failed
        /\ g[d] = IF g[d - 1].ok THEN Step(g[d - 1].value, q[d]) ELSE Failed
    BY <1>2, <1>3, <1>4, <2>1 DEF FoundFor, n
  <2> QED BY <1>2, <1>6, <2>1, <2>2
<1>7. f[n] = g[n]
  <2> HIDE DEF T
  <2>1. 0..n \subseteq T
    BY <1>2, <1>5, <1>6, CountingUp
  <2>2. n \in T
    BY <1>2, <2>1
  <2> QED BY <2>2 DEF T
<1>8. g[n + 1] = IF g[n].ok THEN Step(g[n].value, c) ELSE Failed
  <2>1. n + 1 \in 0..(n + 1) /\ n + 1 # 0 /\ (n + 1) - 1 = n
    BY <1>2
  <2> QED BY <1>2, <1>4, <2>1 DEF FoundFor
<1> QED BY <1>1, <1>3, <1>4, <1>7, <1>8 DEF q

\* What Truncate finds after so many components of a path.
To(v, path, d) == Truncate(v, SubSeq(path, 1, d))

\* Truncate goes one step for each component.
StepsOf(v, path) ==
  LET n == Len(path) IN
  /\ To(v, path, 0) = Found(v) /\ To(v, path, n) = Truncate(v, path)
  /\ \A d \in 1..n :
       To(v, path, d) = IF To(v, path, d - 1).ok THEN Step(To(v, path, d - 1).value, path[d]) ELSE Failed

LEMMA TruncateSteps ==
  ASSUME NEW v, NEW S, NEW path \in Seq(S)
  PROVE  StepsOf(v, path)
<1> DEFINE n == Len(path)
<1>1. SubSeq(path, 1, 0) = <<>> /\ SubSeq(path, 1, n) = path /\ n \in Nat
  OBVIOUS
<1>2. To(v, path, 0) = Found(v)
  <2>1. Truncate(v, <<>>) = Found(v)
    <3>1. Len(<<>>) = 0
      OBVIOUS
    <3>2. PICK found : FoundFor(v, <<>>, found) /\ Truncate(v, <<>>) = found[0]
      BY <3>1, FoundExists
    <3> QED BY <3>1, <3>2 DEF FoundFor
  <2> QED BY <1>1, <2>1 DEF To
<1>3. ASSUME NEW d \in 1..n
      PROVE  To(v, path, d) = IF To(v, path, d - 1).ok THEN Step(To(v, path, d - 1).value, path[d])
                              ELSE Failed
  <2> DEFINE p == SubSeq(path, 1, d)
             q == SubSeq(path, 1, d - 1)
             c == path[d]
  <2>1. p = [k \in 1..d |-> path[k]] /\ \A k \in 1..d : path[k] \in S
    BY <1>1, ElementOfSeq
  <2>2. p \in Seq(S) /\ Len(p) = d /\ p[d] = c /\ c \in S
    BY <1>1, <2>1
  <2>3. SubSeq(p, 1, d - 1) = q
    <3>1. SubSeq(p, 1, d - 1) = [k \in 1..(d - 1) |-> p[k]] /\ q = [k \in 1..(d - 1) |-> path[k]]
      <4> HIDE DEF p
      <4> QED BY <1>1, <2>2
    <3>2. \A k \in 1..(d - 1) : p[k] = path[k]
      BY <2>1
    <3> HIDE DEF p, q
    <3> QED BY <3>1, <3>2
  <2> HIDE DEF p, q, c
  <2>4. p # <<>>
    BY <2>2
  <2>5. p = Append(SubSeq(p, 1, Len(p) - 1), p[Len(p)]) /\ SubSeq(p, 1, Len(p) - 1) \in Seq(S)
    BY <2>2, <2>4, LastStep
  <2>6. p = Append(q, c) /\ q \in Seq(S)
    BY <2>2, <2>3, <2>5
  <2>7. Truncate(v, p) = IF Truncate(v, q).ok THEN Step(Truncate(v, q).value, c) ELSE Failed
    BY <2>2, <2>6, TruncateStep
  <2> QED BY <2>7 DEF p, q, c, To
<1> QED BY <1>1, <1>2, <1>3 DEF To, StepsOf

-----------------------------------------------------------------------------
(***************************************************************************)
(* Documents and their parts                                               *)
(***************************************************************************)
\* What IsTree asks of a container.
Proper(w) ==
  IsContainer(w) =>
    /\ w = [kind |-> w.kind, items |-> w.items] /\ w.items \in Seq(ToSet(w.items))
    /\ w.kind = "map" =>
         \A i \in DOMAIN w.items :
           /\ w.items[i] = Item(w.items[i].key, w.items[i].value)
           /\ IsRemark(w.items[i]) \/ w.items[i].key = Key(w.items[i].key.name)

\* A ciphertext of one of the values T, as CipherEncrypt makes it.
GenuineIn(s, T) ==
  s = Sealed(s.of, s.path, s.iv) /\ s.of \in T /\ ~IsContainer(s.of) /\ s.of # Null

\* What is asked of a value besides: that it is not sealed, or that it is as the cipher makes it,
\* and if it is a comment, of a comment.
Fine(w, how, T) ==
  /\ how = "plain" => ~IsSealed(w)
  /\ how = "genuine" /\ w.kind = "sealed" => GenuineIn(w, T)
  /\ how = "genuine" /\ IsComment(w) /\ w.string.kind = "sealed" =>
       GenuineIn(w.string, T) /\ IsComment(w.string.of)

\* A set of values, with all they hold, that are proper and, if so asked, plain or genuine.
Holds(T, how) ==
  \A w \in T : /\ Proper(w) /\ Fine(w, how, T)
               /\ IsContainer(w) => \A i \in 1..Len(w.items) : Child(w, i) \in T

\* A value that is proper, and plain or genuine, through and through.
Sound(v, how) == \E T : v \in T /\ Holds(T, how)

\* What is in a sound container is sound.
LEMMA SoundInside ==
  ASSUME NEW w, NEW how, Sound(w, how)
  PROVE  /\ Proper(w) /\ (how = "plain" => ~IsSealed(w))
         /\ IsContainer(w) => /\ w.items \in Seq(ToSet(w.items)) /\ Len(w.items) \in Nat
                              /\ DOMAIN w.items = 1..Len(w.items)
                              /\ \A i \in 1..Len(w.items) : Sound(Child(w, i), how)
<1>1. PICK T : w \in T /\ Holds(T, how)
  BY DEF Sound
<1>2. Proper(w) /\ (how = "plain" => ~IsSealed(w))
  BY <1>1 DEF Holds, Fine
<1>3. ASSUME IsContainer(w), NEW i \in 1..Len(w.items) PROVE Sound(Child(w, i), how)
  BY <1>1, <1>3 DEF Holds, Sound
<1>4. IsContainer(w) => w.items \in Seq(ToSet(w.items))
  BY <1>2 DEF Proper
<1>5. IsContainer(w) => Len(w.items) \in Nat /\ DOMAIN w.items = 1..Len(w.items)
  BY <1>4, LenProperties
<1> QED BY <1>2, <1>3, <1>4, <1>5

\* A proper container of sound values is sound.
LEMMA SoundAround ==
  ASSUME NEW w, NEW how, Proper(w), IsContainer(w), \A i \in 1..Len(w.items) : Sound(Child(w, i), how)
  PROVE  Sound(w, how)
<1> DEFINE C == {Child(w, i) : i \in 1..Len(w.items)}
           Of(x) == CHOOSE T : x \in T /\ Holds(T, how)
           U == {w} \cup UNION {Of(x) : x \in C}
<1>1. ASSUME NEW x \in C PROVE x \in Of(x) /\ Holds(Of(x), how) /\ Of(x) \subseteq U
  <2>1. Sound(x, how)
    OBVIOUS
  <2>2. \E T : x \in T /\ Holds(T, how)
    BY <2>1 DEF Sound
  <2> QED BY <2>2
<1>2. ASSUME NEW i \in 1..Len(w.items) PROVE Child(w, i) \in U
  <2>1. Child(w, i) \in C
    OBVIOUS
  <2> HIDE DEF C, Of, U
  <2> QED BY <1>1, <2>1
<1> HIDE DEF Of
<1>3. \A y \in U : y = w \/ \E x \in C : y \in Of(x)
  OBVIOUS
<1>4. w \in U
  OBVIOUS
<1> HIDE DEF C, U
<1>5. ASSUME NEW y \in U
      PROVE  /\ Proper(y) /\ Fine(y, how, U)
             /\ IsContainer(y) => \A i \in 1..Len(y.items) : Child(y, i) \in U
  <2>1. CASE y = w
    <3>1. Fine(w, how, U)
      BY DEF Fine, IsContainer, IsSealed, IsComment
    <3> QED BY <1>2, <2>1, <3>1
  <2>2. ASSUME NEW x \in C, y \in Of(x)
        PROVE  /\ Proper(y) /\ Fine(y, how, U)
               /\ IsContainer(y) => \A i \in 1..Len(y.items) : Child(y, i) \in U
    <3> DEFINE T == Of(x)
    <3>1. y \in T /\ Holds(T, how) /\ T \subseteq U
      BY <1>1, <2>2
    <3> HIDE DEF T
    <3>2. Fine(y, how, T)
      BY <3>1 DEF Holds
    <3>3. Fine(y, how, U)
      BY <3>1, <3>2 DEF Fine, GenuineIn
    <3> QED BY <3>1, <3>3 DEF Holds
  <2> QED BY <1>3, <2>1, <2>2
<1> QED BY <1>4, <1>5 DEF Sound, Holds

\* A tree is sound, and plain and genuine if nothing at its places is sealed.
LEMMA SoundTree ==
  ASSUME NEW v, IsTree(v), NEW how, how \in {"plain", "genuine"} => \A p \in Places(v) : ~IsSealed(At(v, p))
  PROVE  Sound(v, how)
<1> DEFINE T == {At(v, p) : p \in Nodes(v)}
<1>1. <<>> \in Nodes(v) /\ At(v, <<>>) = v
  BY PlacesOfATree, AtTheTop
<1>2. ASSUME NEW p \in Nodes(v), NEW w, w = At(v, p)
      PROVE  /\ Proper(w) /\ Fine(w, how, T)
             /\ IsContainer(w) => \A i \in 1..Len(w.items) : Child(w, i) \in T
  <2>1. Proper(w)
    BY <1>2 DEF IsTree, Proper
  <2>2. how \in {"plain", "genuine"} => ~IsSealed(w)
    <3>1. ASSUME p \notin Places(v) PROVE ~IsSealed(w)
      BY <1>2, <3>1 DEF Places, IsSealed, IsContainer, IsComment, Null
    <3> QED BY <1>2, <3>1
  <2>3. ASSUME IsContainer(w), NEW i \in 1..Len(w.items) PROVE Child(w, i) \in T
    <3>1. Append(p, i) \in Nodes(v) /\ At(v, Append(p, i)) = Child(w, i)
      BY <1>2, <2>3, TreeStep
    <3> QED BY <3>1
  <2>4. Fine(w, how, T)
    <3> HIDE DEF T
    <3> QED BY <2>2 DEF Fine, IsSealed
  <2> QED BY <2>1, <2>3, <2>4
<1>3. v \in T
  BY <1>1
<1>4. Holds(T, how)
  BY <1>2 DEF Holds
<1> HIDE DEF T
<1> QED BY <1>3, <1>4 DEF Sound

\* In a plain tree nothing is sealed, at any place.
LEMMA PlainPlaces ==
  ASSUME NEW v, IsTree(v), Sound(v, "plain")
  PROVE  \A p \in Places(v) : ~IsSealed(At(v, p))
<1> DEFINE T == {p \in Nodes(v) : Sound(At(v, p), "plain")}
<1>1. <<>> \in T
  BY PlacesOfATree, AtTheTop
<1>2. ASSUME NEW p \in Nodes(v), p \in T, IsContainer(At(v, p)), NEW i \in DOMAIN At(v, p).items
      PROVE  Append(p, i) \in T
  <2> DEFINE w == At(v, p)
  <2>1. i \in 1..Len(w.items) /\ Append(p, i) \in Nodes(v) /\ At(v, Append(p, i)) = Child(w, i)
    BY <1>2, TreeStep
  <2>2. Sound(w, "plain") /\ IsContainer(w)
    BY <1>2
  <2> HIDE DEF w
  <2>3. Sound(Child(w, i), "plain")
    BY <2>1, <2>2, SoundInside
  <2> QED BY <2>1, <2>3
<1>3. Nodes(v) \subseteq T
  <2> HIDE DEF T
  <2> QED BY <1>1, <1>2, FromAbove
<1>4. ASSUME NEW p \in Places(v) PROVE ~IsSealed(At(v, p))
  <2>1. Sound(At(v, p), "plain")
    BY <1>3 DEF Places
  <2> QED BY <2>1, SoundInside
<1> QED BY <1>4

\* A set of positions has a first one.
LEMMA TheFirst ==
  ASSUME NEW n \in Nat, NEW D, D \subseteq 1..n, D # {}
  PROVE  First(D) \in D /\ \A y \in D : First(D) <= y
<1> DEFINE T == {m \in 0..n : \A x \in D : x <= m => \E z \in D : \A y \in D : z <= y}
<1>1. 0 \in T
  OBVIOUS
<1>2. ASSUME NEW m \in 1..n, m - 1 \in T PROVE m \in T
  <2>1. CASE \E x \in D : x <= m - 1
    BY <1>2, <2>1
  <2>2. CASE ~\E x \in D : x <= m - 1
    <3>1. \A y \in D : y >= m
      BY <2>2
    <3>2. ASSUME NEW x \in D, x <= m PROVE \E z \in D : \A y \in D : z <= y
      BY <3>1, <3>2
    <3> QED BY <3>2
  <2> QED BY <2>1, <2>2
<1>3. n \in T
  <2> HIDE DEF T
  <2>1. 0..n \subseteq T
    BY <1>1, <1>2, CountingUp
  <2> QED BY <2>1
<1>4. \E z \in D : \A y \in D : z <= y
  <2>1. \A x \in D : x <= n
    OBVIOUS
  <2> QED BY <1>3, <2>1
<1> QED BY <1>4 DEF First

\* Where set and unset find a component.
LEMMA FoundAt ==
  ASSUME NEW w, Proper(w), NEW c, IsComponent(c), NEW i, i = Position(w, c), i # 0
  PROVE  /\ IsContainer(w) /\ Len(w.items) \in Nat /\ DOMAIN w.items = 1..Len(w.items)
         /\ i \in 1..Len(w.items) /\ Part(w, i) = Child(w, i)
         /\ w.kind = "list" => c.kind = "index" /\ i = c.at + 1
         /\ w.kind = "map" => /\ c.kind = "key" /\ w.items[i].key = c /\ ~IsRemark(w.items[i])
                              /\ i = First(Having(w, c)) /\ Having(w, c) # {}
<1>1. IsContainer(w)
  BY DEF Position, IsContainer
<1>2. /\ w.items \in Seq(ToSet(w.items))
      /\ w.kind = "map" => \A j \in DOMAIN w.items :
           IsRemark(w.items[j]) \/ w.items[j].key = Key(w.items[j].key.name)
  BY <1>1 DEF Proper
<1>3. Len(w.items) \in Nat /\ DOMAIN w.items = 1..Len(w.items)
  BY <1>2, LenProperties
<1>4. CASE w.kind = "list"
  BY <1>1, <1>3, <1>4 DEF Position, Part, Child
<1>5. CASE w.kind = "map"
  <2>1. i = First(Having(w, c)) /\ Having(w, c) # {}
    BY <1>5 DEF Position
  <2>2. Having(w, c) \subseteq 1..Len(w.items)
    BY <1>3 DEF Having
  <2>3. i \in Having(w, c)
    BY <1>3, <2>1, <2>2, TheFirst
  <2>4. i \in 1..Len(w.items) /\ w.items[i].key = c
    BY <1>3, <2>3 DEF Having
  <2>5. ~IsComment(c)
    BY DEF IsComponent, Key, Index, IsComment
  <2>6. ~IsRemark(w.items[i]) /\ c = Key(w.items[i].key.name)
    BY <1>2, <1>3, <1>5, <2>4, <2>5 DEF IsRemark
  <2>7. c.kind = "key"
    BY <2>6 DEF Key
  <2>8. Part(w, i) = Child(w, i)
    BY <1>5, <2>6 DEF Part, Child
  <2> QED BY <1>1, <1>3, <1>5, <2>1, <2>4, <2>6, <2>7, <2>8
<1> QED BY <1>1, <1>4, <1>5 DEF IsContainer

\* A function on the first n numbers is a sequence.
LEMMA SequenceOf ==
  ASSUME NEW n \in Nat, NEW t, NEW S, t = [j \in 1..n |-> t[j]], \A j \in 1..n : t[j] \in S
  PROVE  t \in Seq(S) /\ Len(t) = n
<1>1. t \in [1..n -> S]
  BY Zenon
<1>2. t \in Seq(S)
  BY <1>1
<1> QED BY <1>1, <1>2, LenProperties

\* A function on the first n numbers is a sequence of its elements.
LEMMA SequenceOfItsOwn ==
  ASSUME NEW n \in Nat, NEW t, t = [j \in 1..n |-> t[j]]
  PROVE  t \in Seq(ToSet(t)) /\ Len(t) = n
<1> DEFINE S == ToSet(t)
<1>1. DOMAIN t = 1..n
  OBVIOUS
<1>2. \A j \in 1..n : t[j] \in S
  BY <1>1 DEF ToSet
<1> HIDE DEF S
<1>3. t \in Seq(S) /\ Len(t) = n
  BY <1>2, SequenceOf
<1> QED BY <1>3 DEF S

\* A part put back: the rest of the container is as it was.
LEMMA PutBackParts ==
  ASSUME NEW w, Proper(w), IsContainer(w), NEW n, n = Len(w.items), NEW i \in 1..n,
         w.kind = "map" => ~IsRemark(w.items[i]),
         NEW r, r.ok, NEW x, x = r.value, NEW u, u = PutBack(w, i, r).value
  PROVE  /\ PutBack(w, i, r) = Updated(u, r.changed)
         /\ IsContainer(u) /\ u.kind = w.kind /\ Proper(u) /\ Len(u.items) = n
         /\ DOMAIN u.items = 1..n /\ n \in Nat
         /\ \A j \in 1..n : j # i => u.items[j] = w.items[j]
         /\ w.kind = "list" => u.items[i] = x
         /\ w.kind = "map" => u.items[i] = Item(w.items[i].key, x)
<1> DEFINE y == IF w.kind = "list" THEN x ELSE Item(w.items[i].key, x)
           t == [w.items EXCEPT ![i] = y]
<1>1. /\ w = [kind |-> w.kind, items |-> w.items] /\ w.items \in Seq(ToSet(w.items))
      /\ w.kind = "map" =>
           \A j \in DOMAIN w.items :
             /\ w.items[j] = Item(w.items[j].key, w.items[j].value)
             /\ IsRemark(w.items[j]) \/ w.items[j].key = Key(w.items[j].key.name)
  BY DEF Proper
<1>2. n \in Nat /\ DOMAIN w.items = 1..n
  BY <1>1, LenProperties
<1>3. /\ t \in Seq(ToSet(t)) /\ Len(t) = n /\ DOMAIN t = 1..n
      /\ t[i] = y /\ \A j \in 1..n : j # i => t[j] = w.items[j]
  <2> HIDE DEF y
  <2>1. t = [j \in 1..n |-> IF j = i THEN y ELSE w.items[j]]
    BY <1>1, <1>2
  <2>2. DOMAIN t = 1..n /\ t[i] = y /\ \A j \in 1..n : j # i => t[j] = w.items[j]
    BY <2>1
  <2>3. t = [j \in 1..n |-> t[j]]
    BY <2>1, <2>2
  <2> HIDE DEF t
  <2>4. t \in Seq(ToSet(t)) /\ Len(t) = n
    BY <1>2, <2>3, SequenceOfItsOwn
  <2> QED BY <2>2, <2>4
<1> HIDE DEF t
<1>4. PutBack(w, i, r) = Updated(u, r.changed) /\ u = [kind |-> w.kind, items |-> t]
  <2>1. CASE w.kind = "list"
    <3>1. PutBack(w, i, r) = Updated([w EXCEPT !.items[i] = r.value], r.changed)
      BY <2>1 DEF PutBack
    <3>2. [w EXCEPT !.items[i] = r.value] = [w EXCEPT !.items = [w.items EXCEPT ![i] = r.value]]
      BY <1>1
    <3>3. [w EXCEPT !.items[i] = r.value] = [kind |-> w.kind, items |-> t]
      <4>1. t = [w.items EXCEPT ![i] = r.value]
        BY <2>1 DEF t
      <4>2. [w EXCEPT !.items[i] = r.value] = [w EXCEPT !.items = t]
        BY <3>2, <4>1
      <4>3. [w EXCEPT !.items = t] = [kind |-> w.kind, items |-> t]
        BY <1>1
      <4> QED BY <4>2, <4>3
    <3> QED BY <3>1, <3>3 DEF Updated
  <2>2. CASE w.kind = "map"
    <3>1. PutBack(w, i, r) = Updated([w EXCEPT !.items[i].value = r.value], r.changed)
      BY <2>2 DEF PutBack
    <3>2. [w EXCEPT !.items[i].value = r.value]
            = [w EXCEPT !.items = [w.items EXCEPT ![i] = [w.items[i] EXCEPT !.value = r.value]]]
      BY <1>1
    <3>3. [w.items[i] EXCEPT !.value = r.value] = y
      <4> DEFINE item == w.items[i]
      <4>1. item = [key |-> item.key, value |-> item.value]
        BY <1>1, <1>2, <2>2 DEF Item
      <4>2. y = Item(item.key, r.value)
        BY <2>2
      <4> HIDE DEF item, y
      <4>3. [item EXCEPT !.value = r.value] = y
        BY <4>1, <4>2 DEF Item
      <4> QED BY <4>3 DEF item
    <3>4. [w EXCEPT !.items[i].value = r.value] = [kind |-> w.kind, items |-> t]
      <4> HIDE DEF y
      <4>1. t = [w.items EXCEPT ![i] = [w.items[i] EXCEPT !.value = r.value]]
        BY <3>3 DEF t
      <4>2. [w EXCEPT !.items[i].value = r.value] = [w EXCEPT !.items = t]
        BY <3>2, <4>1
      <4>3. [w EXCEPT !.items = t] = [kind |-> w.kind, items |-> t]
        BY <1>1
      <4> QED BY <4>2, <4>3
    <3> QED BY <3>1, <3>4 DEF Updated
  <2> QED BY <2>1, <2>2 DEF IsContainer
<1>5. u.kind = w.kind /\ u.items = t /\ u = [kind |-> u.kind, items |-> u.items]
  BY <1>4
<1>6. w.kind = "list" => t[i] = x
  BY <1>3
<1>7. w.kind = "map" => t[i] = Item(w.items[i].key, x)
  BY <1>3
<1>8. ASSUME w.kind = "map", NEW j \in 1..n
      PROVE  t[j] = Item(t[j].key, t[j].value) /\ (IsRemark(t[j]) \/ t[j].key = Key(t[j].key.name))
  <2>1. CASE j = i
    <3>1. t[j] = Item(w.items[i].key, x) /\ w.items[i].key = Key(w.items[i].key.name)
      BY <1>1, <1>2, <1>7, <1>8, <2>1
    <3>2. t[j].key = w.items[i].key /\ t[j].value = x
      BY <3>1 DEF Item
    <3> QED BY <3>1, <3>2
  <2>2. CASE j # i
    BY <1>1, <1>2, <1>3, <1>8, <2>2
  <2> QED BY <2>1, <2>2
<1>9. Proper(u) /\ IsContainer(u)
  <2>1. IsContainer(u)
    BY <1>5 DEF IsContainer
  <2> HIDE DEF y
  <2> QED BY <1>3, <1>5, <1>8, <2>1 DEF Proper
<1> QED BY <1>2, <1>3, <1>4, <1>5, <1>6, <1>7, <1>9

\* An item of a map that is no comment.
IsItem(x) == x = Item(x.key, x.value) /\ x.key = Key(x.key.name)

\* A container u that has what w has, and x at the end.
Longer(w, x, u) ==
  LET n == Len(w.items) IN
  /\ IsContainer(u) /\ u.kind = w.kind /\ Proper(u) /\ Len(u.items) = n + 1 /\ n \in Nat
  /\ DOMAIN u.items = 1..(n + 1)
  /\ u.items[n + 1] = x /\ \A j \in 1..n : u.items[j] = w.items[j]

\* A container u that has what w has, but for what is at i.
Shorter(w, i, u) ==
  LET n == Len(w.items) IN
  /\ IsContainer(u) /\ u.kind = w.kind /\ Proper(u) /\ Len(u.items) = n - 1 /\ n \in Nat
  /\ DOMAIN u.items = 1..(n - 1)
  /\ \A j \in 1..(n - 1) : u.items[j] = IF j < i THEN w.items[j] ELSE w.items[j + 1]

\* An item, or an element, added at the end.
LEMMA AddedParts ==
  ASSUME NEW w, Proper(w), IsContainer(w), NEW x, w.kind = "map" => IsItem(x)
  PROVE  Longer(w, x, Added(w, x))
<1> DEFINE u == Added(w, x)
           n == Len(w.items)
           s == w.items
           t == Append(s, x)
           S == ToSet(s) \cup {x}
<1>0. u = [kind |-> w.kind, items |-> t]
  BY DEF Added
<1>1. /\ s \in Seq(ToSet(s))
      /\ w.kind = "map" =>
           \A j \in DOMAIN s : s[j] = Item(s[j].key, s[j].value) /\ (IsRemark(s[j]) \/ s[j].key = Key(s[j].key.name))
  BY DEF Proper
<1>10. n = Len(s)
  OBVIOUS
<1> HIDE DEF s, n, u
<1>2. n \in Nat /\ DOMAIN s = 1..n /\ n = Len(s)
  BY <1>1, <1>10, LenProperties
<1>3. s \in Seq(S) /\ x \in S
  BY <1>1, SeqMonotonic
<1> HIDE DEF S, t
<1>4. Len(t) = n + 1 /\ t[n + 1] = x /\ (\A j \in 1..n : t[j] = s[j]) /\ t \in Seq(S)
  BY <1>2, <1>3, OneStepMore DEF t
<1>5. DOMAIN t = 1..(n + 1)
  BY <1>2, <1>4, LenProperties
<1>6. t \in Seq(ToSet(t))
  <2> DEFINE m == n + 1
  <2>1. t = [j \in 1..m |-> t[j]] /\ m \in Nat
    BY <1>2, <1>4, <1>5
  <2> HIDE DEF m
  <2> QED BY <2>1, SequenceOfItsOwn
<1>7. u.kind = w.kind /\ u.items = t /\ u = [kind |-> u.kind, items |-> u.items] /\ IsContainer(u)
  BY <1>0 DEF t, IsContainer
<1>8. ASSUME w.kind = "map", NEW j \in 1..(n + 1)
      PROVE  t[j] = Item(t[j].key, t[j].value) /\ (IsRemark(t[j]) \/ t[j].key = Key(t[j].key.name))
  <2>1. CASE j = n + 1
    <3>1. x = Item(x.key, x.value) /\ x.key = Key(x.key.name) /\ t[j] = x
      BY <1>4, <1>8, <2>1 DEF IsItem
    <3> QED BY <3>1
  <2>2. CASE j # n + 1
    <3>1. j \in 1..n
      BY <1>2, <2>2
    <3> QED BY <1>1, <1>2, <1>4, <1>8, <3>1
  <2> QED BY <2>1, <2>2
<1>9. Proper(u)
  BY <1>5, <1>6, <1>7, <1>8 DEF Proper
<1> QED BY <1>2, <1>4, <1>5, <1>7, <1>9 DEF Longer, u, s, n

\* An item, or an element, removed.
LEMMA WithoutParts ==
  ASSUME NEW w, Proper(w), IsContainer(w), NEW i \in 1..Len(w.items)
  PROVE  Shorter(w, i, Without(w, i))
<1> DEFINE u == Without(w, i)
           n == Len(w.items)
           s == w.items
           t == RemoveAt(s, i)
           a == SubSeq(s, 1, i - 1)
           b == SubSeq(s, i + 1, n)
           S == ToSet(s)
<1>1. /\ w = [kind |-> w.kind, items |-> s] /\ s \in Seq(S)
      /\ w.kind = "map" =>
           \A j \in DOMAIN s : s[j] = Item(s[j].key, s[j].value) /\ (IsRemark(s[j]) \/ s[j].key = Key(s[j].key.name))
  BY DEF Proper
<1>13. u = [w EXCEPT !.items = t]
  BY DEF Without
<1>2. u = [kind |-> w.kind, items |-> t] /\ t = a \o b
  <2>1. t = a \o b
    BY DEF RemoveAt
  <2> HIDE DEF a, b, s, t, u
  <2> QED BY <1>1, <1>13, <2>1
<1>3. n = Len(s) /\ i \in 1..n
  OBVIOUS
<1> HIDE DEF S, n, s, t, u
<1>4. n \in Nat /\ DOMAIN s = 1..n /\ \A j \in 1..n : s[j] \in S
  BY <1>1, <1>3, LenProperties, ElementOfSeq
<1>5. a = [j \in 1..(i - 1) |-> s[j]] /\ b = [j \in 1..(n - i) |-> s[j + i]]
  <2>1. a = [j \in 1..(i - 1) |-> s[j]]
    BY <1>1, <1>4
  <2>2. b = [j \in 1..(n - i) |-> s[(i + 1) + j - 1]]
    BY <1>1, <1>4
  <2>3. \A j \in 1..(n - i) : (i + 1) + j - 1 = j + i
    BY <1>4
  <2> HIDE DEF b
  <2>4. b = [j \in 1..(n - i) |-> s[j + i]]
    BY <2>2, <2>3
  <2> QED BY <2>1, <2>4
<1> HIDE DEF a, b
<1>6. a \in Seq(S) /\ Len(a) = i - 1 /\ b \in Seq(S) /\ Len(b) = n - i
  <2>1. i - 1 \in Nat /\ n - i \in Nat
    BY <1>3, <1>4
  <2>2. (\A j \in 1..(i - 1) : s[j] \in S) /\ (\A j \in 1..(n - i) : s[j + i] \in S)
    BY <1>3, <1>4
  <2> DEFINE k == i - 1
             l == n - i
  <2>3. a = [j \in 1..k |-> a[j]] /\ \A j \in 1..k : a[j] \in S
    BY <1>5, <2>2
  <2>4. b = [j \in 1..l |-> b[j]] /\ \A j \in 1..l : b[j] \in S
    BY <1>5, <2>2
  <2>5. k \in Nat /\ l \in Nat
    BY <2>1
  <2> HIDE DEF k, l
  <2>6. a \in Seq(S) /\ Len(a) = k
    BY <2>3, <2>5, SequenceOf
  <2>7. b \in Seq(S) /\ Len(b) = l
    BY <2>4, <2>5, SequenceOf
  <2> QED BY <2>6, <2>7 DEF k, l
<1>7. t = [j \in 1..(n - 1) |-> IF j < i THEN s[j] ELSE s[j + 1]]
  <2>1. /\ DOMAIN t = 1..(Len(a) + Len(b))
        /\ \A k \in 1..Len(a) : t[k] = a[k]
        /\ \A k \in 1..Len(b) : t[Len(a) + k] = b[k]
        /\ t = [j \in DOMAIN t |-> t[j]]
    <3>0. a \in Seq(S) /\ b \in Seq(S)
      BY <1>6
    <3>1. /\ t \in Seq(S) /\ DOMAIN t = 1..(Len(a) + Len(b))
          /\ \A k \in 1..Len(a) : t[k] = a[k]
          /\ \A k \in 1..Len(b) : t[Len(a) + k] = b[k]
      <4>1. /\ (a \o b) \in Seq(S) /\ DOMAIN (a \o b) = 1..(Len(a) + Len(b))
            /\ \A k \in 1..Len(a) : (a \o b)[k] = a[k]
            /\ \A k \in 1..Len(b) : (a \o b)[Len(a) + k] = b[k]
        BY <3>0
      <4> QED BY <1>2, <4>1
    <3>2. t = [j \in DOMAIN t |-> t[j]]
      BY <3>1
    <3> QED BY <3>1, <3>2
  <2>2. Len(a) + Len(b) = n - 1
    BY <1>4, <1>6
  <2>3. ASSUME NEW j \in 1..(n - 1) PROVE t[j] = IF j < i THEN s[j] ELSE s[j + 1]
    <3>1. CASE j < i
      <4>1. j \in 1..(i - 1)
        BY <1>4, <3>1
      <4>2. t[j] = a[j] /\ a[j] = s[j]
        BY <1>5, <1>6, <2>1, <4>1
      <4> QED BY <3>1, <4>2
    <3>2. CASE ~(j < i)
      <4> DEFINE k == j - (i - 1)
      <4>1. k \in 1..(n - i) /\ k + i = j + 1 /\ (i - 1) + k = j
        BY <1>4, <3>2
      <4> HIDE DEF k
      <4>2. t[(i - 1) + k] = b[k] /\ b[k] = s[k + i]
        BY <1>5, <1>6, <2>1, <4>1
      <4> QED BY <3>2, <4>1, <4>2
    <3> QED BY <3>1, <3>2
  <2> QED BY <2>1, <2>2, <2>3
<1>8. DOMAIN t = 1..(n - 1) /\ \A j \in 1..(n - 1) : t[j] = IF j < i THEN s[j] ELSE s[j + 1]
  BY <1>7
<1>9. t \in Seq(ToSet(t)) /\ Len(t) = n - 1
  <2> DEFINE m == n - 1
  <2>1. t = [j \in 1..m |-> t[j]] /\ m \in Nat
    BY <1>3, <1>4, <1>7, <1>8
  <2> HIDE DEF m
  <2>2. t \in Seq(ToSet(t)) /\ Len(t) = m
    BY <2>1, SequenceOfItsOwn
  <2> QED BY <2>2 DEF m
<1>10. u.kind = w.kind /\ u.items = t /\ u = [kind |-> u.kind, items |-> u.items] /\ IsContainer(u)
  <2>1. u.kind = w.kind /\ u.items = t
    BY <1>2
  <2> QED BY <1>2, <2>1 DEF IsContainer
<1>11. ASSUME w.kind = "map", NEW j \in 1..(n - 1)
       PROVE  t[j] = Item(t[j].key, t[j].value) /\ (IsRemark(t[j]) \/ t[j].key = Key(t[j].key.name))
  <2>1. j \in 1..n /\ j + 1 \in 1..n /\ (t[j] = s[j] \/ t[j] = s[j + 1])
    BY <1>4, <1>8
  <2> QED BY <1>1, <1>4, <1>11, <2>1
<1>12. Proper(u)
  BY <1>8, <1>9, <1>10, <1>11 DEF Proper
<1> QED BY <1>4, <1>8, <1>9, <1>10, <1>12 DEF Shorter, u, s, n

\* The values that set and unset come to are parts of the document.
LEMMA ReachedParts ==
  ASSUME NEW v, NEW how, Sound(v, how), NEW path, NEW n, n = Len(path), n \in Nat,
         \A d \in 1..n : IsComponent(path[d]), NEW old, old = Reached(v, path)
  PROVE  \A d \in 0..n : (old[d] = Found(old[d].value) /\ Sound(old[d].value, how)) \/ old[d] = Failed
<1> DEFINE T == {d \in 0..n : (old[d] = Found(old[d].value) /\ Sound(old[d].value, how)) \/ old[d] = Failed}
<1>0. ReachedFor(v, path, old)
  BY ReachedSteps
<1>1. /\ old[0] = Found(v)
      /\ \A d \in 1..n :
           old[d] = IF old[d - 1].ok /\ Position(old[d - 1].value, path[d]) # 0
                    THEN Found(Part(old[d - 1].value, Position(old[d - 1].value, path[d])))
                    ELSE Failed
  BY <1>0 DEF ReachedFor
<1>2. 0 \in T
  <2>1. old[0].value = v
    BY <1>1 DEF Found
  <2> QED BY <1>1, <2>1
<1>3. ASSUME NEW d \in 1..n, d - 1 \in T PROVE d \in T
  <2> DEFINE w == old[d - 1].value
             i == Position(w, path[d])
  <2>1. CASE old[d - 1].ok /\ i # 0
    <3>1. old[d] = Found(Part(w, i))
      BY <1>1, <2>1
    <3>2. Sound(w, how)
      BY <1>3, <2>1 DEF Failed
    <3>3. i \in 1..Len(w.items) /\ IsContainer(w) /\ Part(w, i) = Child(w, i)
      <4>1. Proper(w) /\ IsComponent(path[d])
        BY <3>2, SoundInside
      <4> HIDE DEF w
      <4> QED BY <2>1, <4>1, FoundAt
    <3> HIDE DEF w, i
    <3>4. Sound(Child(w, i), how)
      BY <3>2, <3>3, SoundInside
    <3>5. old[d].value = Child(w, i)
      BY <3>1, <3>3 DEF Found
    <3> QED BY <3>1, <3>3, <3>4, <3>5
  <2>2. CASE ~(old[d - 1].ok /\ i # 0)
    <3>1. old[d] = Failed
      BY <1>1, <2>2
    <3> QED BY <3>1
  <2> QED BY <2>1, <2>2
<1>4. 0..n \subseteq T
  <2> HIDE DEF T
  <2> QED BY <1>2, <1>3, CountingUp
<1> QED BY <1>4

\* What set makes of a container: it puts back what it made of a part, adds one, or does nothing.
SetCase(w, c, i, x, inner, r) ==
  \/ i # 0 /\ inner.ok /\ r = PutBack(w, i, inner)
  \/ /\ i = 0 /\ r = Updated(Added(w, x), TRUE)
     /\ w.kind = "map" => c.kind = "key"
     /\ w.kind = "list" => c.kind = "index" /\ c.at >= Len(w.items)
  \/ i = 0 /\ w.kind = "map" /\ c.kind = "index" /\ r = Updated(w, TRUE)

\* SetInMap and SetInList do one of these, unless they fail.
LEMMA SetCases ==
  ASSUME NEW w, Proper(w), IsContainer(w), NEW c, IsComponent(c), NEW rest, NEW inner,
         NEW r, r.ok, w.kind = "map" => r = SetInMap(w, c, rest, inner),
         w.kind = "list" => r = SetInList(w, c, rest, inner),
         NEW i, i = Position(w, c), NEW x, x = IF w.kind = "map" THEN Item(c, rest) ELSE rest
  PROVE  SetCase(w, c, i, x, inner, r)
<1>1. w.items \in Seq(ToSet(w.items))
  BY DEF Proper
<1>2. Len(w.items) \in Nat /\ DOMAIN w.items = 1..Len(w.items)
  BY <1>1, LenProperties
<1>3. ASSUME NEW j, r = PutBack(w, j, inner) PROVE inner.ok
  BY <1>3 DEF PutBack, Failed, IsContainer
<1>4. c.kind = "key" \/ (c.kind = "index" /\ c.at \in Int)
  BY DEF IsComponent, Key, Index
<1>5. CASE w.kind = "map"
  <2>1. r = SetInMap(w, c, rest, inner)
    BY <1>5
  <2>2. CASE i # 0
    BY <1>3, <2>1, <2>2 DEF SetInMap, SetCase
  <2>3. CASE i = 0 /\ c.kind = "key"
    <3>1. r = Updated(MapOf(Append(w.items, Item(c, rest))), TRUE)
      BY <2>1, <2>3 DEF SetInMap
    <3>2. x = Item(c, rest)
      BY <1>5
    <3> QED BY <1>5, <2>3, <3>1, <3>2 DEF MapOf, Added, SetCase
  <2>4. CASE i = 0 /\ c.kind # "key"
    BY <1>4, <1>5, <2>1, <2>4 DEF SetInMap, SetCase
  <2> QED BY <2>2, <2>3, <2>4
<1>6. CASE w.kind = "list"
  <2>1. r = SetInList(w, c, rest, inner)
    BY <1>6
  <2>2. c.kind = "index" /\ c.at \in Int /\ c.at >= 0
    <3>1. ASSUME c.kind = "key" PROVE FALSE
      <4>1. r = Failed
        BY <2>1, <3>1 DEF SetInList
      <4> QED BY <4>1 DEF Failed
    <3>2. ASSUME c.kind = "index", c.at \in Int, c.at < 0 PROVE FALSE
      <4>1. ~(c.at >= Len(w.items))
        BY <1>2, <3>2
      <4>2. r = Failed
        BY <2>1, <3>2, <4>1 DEF SetInList
      <4> QED BY <4>2 DEF Failed
    <3> QED BY <1>4, <3>1, <3>2
  <2>3. CASE c.at >= Len(w.items)
    <3>1. r = Updated(ListOf(Append(w.items, rest)), TRUE)
      BY <2>1, <2>2, <2>3 DEF SetInList
    <3>2. x = rest
      BY <1>6
    <3>3. i = 0
      <4>1. c.at + 1 \notin DOMAIN w.items
        BY <1>2, <2>2, <2>3
      <4> QED BY <1>6, <4>1 DEF Position
    <3> QED BY <1>6, <2>2, <2>3, <3>1, <3>2, <3>3 DEF ListOf, Added, SetCase
  <2>4. CASE ~(c.at >= Len(w.items))
    <3>1. c.at + 1 \in DOMAIN w.items /\ c.at + 1 # 0
      BY <1>2, <2>2, <2>4
    <3>2. i = c.at + 1
      BY <1>6, <2>2, <3>1 DEF Position
    <3>3. r = PutBack(w, c.at + 1, inner)
      BY <2>1, <2>2, <2>4 DEF SetInList
    <3> QED BY <1>3, <3>1, <3>2, <3>3 DEF SetCase
  <2> QED BY <2>3, <2>4
<1> QED BY <1>5, <1>6 DEF IsContainer

\* A sound value put back, or added, leaves the container sound.
LEMMA PutBackSound ==
  ASSUME NEW w, NEW how, Sound(w, how), NEW c, IsComponent(c), NEW i, i = Position(w, c), i # 0,
         NEW r, r.ok, NEW x, x = r.value, Sound(x, how), NEW u, u = PutBack(w, i, r).value
  PROVE  PutBack(w, i, r).ok = TRUE /\ Sound(u, how)
<1> DEFINE n == Len(w.items)
<1>1. /\ Proper(w) /\ (how = "plain" => ~IsSealed(w))
      /\ IsContainer(w) => \A j \in 1..n : Sound(Child(w, j), how)
  BY SoundInside
<1>2. /\ IsContainer(w) /\ i \in 1..n /\ n \in Nat
      /\ w.kind = "map" => ~IsRemark(w.items[i])
  BY <1>1, FoundAt
<1> HIDE DEF n
<1>3. /\ PutBack(w, i, r) = Updated(u, r.changed)
      /\ IsContainer(u) /\ u.kind = w.kind /\ Proper(u) /\ Len(u.items) = n
      /\ \A j \in 1..n : j # i => u.items[j] = w.items[j]
      /\ w.kind = "list" => u.items[i] = x
      /\ w.kind = "map" => u.items[i] = Item(w.items[i].key, x)
  BY <1>1, <1>2, PutBackParts DEF n
<1>4. ASSUME NEW j \in 1..n PROVE Sound(Child(u, j), how)
  <2>1. CASE j = i
    <3>1. Child(u, j) = x
      <4>1. CASE w.kind = "list"
        BY <1>3, <2>1, <4>1 DEF Child
      <4>2. CASE w.kind = "map"
        BY <1>2, <1>3, <2>1, <4>2 DEF Child, IsRemark, Item
      <4> QED BY <1>2, <4>1, <4>2 DEF IsContainer
    <3> QED BY <3>1
  <2>2. CASE j # i
    <3>1. Child(u, j) = Child(w, j)
      BY <1>3, <2>2 DEF Child
    <3> QED BY <1>1, <1>2, <3>1
  <2> QED BY <2>1, <2>2
<1>6. Sound(u, how)
  BY <1>3, <1>4, SoundAround
<1> QED BY <1>3, <1>6 DEF Updated

\* The containers that set makes are sound.
LEMMA AroundSound ==
  ASSUME NEW how, NEW c, IsComponent(c), NEW x, Sound(x, how), NEW u, u = Around(c, x)
  PROVE  Sound(u, how)
<1> DEFINE y == IF c.kind = "index" THEN x ELSE Item(c, x)
           kind == IF c.kind = "index" THEN "list" ELSE "map"
<1>1. u = [kind |-> kind, items |-> <<y>>]
  BY DEF Around, ListOf, MapOf
<1> HIDE DEF y, kind
<1>2. u.kind = kind /\ u.items = <<y>> /\ u = [kind |-> u.kind, items |-> u.items] /\ IsContainer(u)
  BY <1>1 DEF IsContainer, kind
<1>3. <<y>> \in Seq(ToSet(<<y>>)) /\ DOMAIN <<y>> = 1..1 /\ Len(<<y>>) = 1 /\ <<y>>[1] = y
  <2> DEFINE t == <<y>>
  <2>1. DOMAIN t = 1..1 /\ t[1] = y /\ Len(t) = 1
    OBVIOUS
  <2>2. t = [j \in 1..1 |-> t[j]]
    OBVIOUS
  <2> HIDE DEF t
  <2>3. t \in Seq(ToSet(t)) /\ Len(t) = 1
    BY <2>2, SequenceOfItsOwn
  <2> QED BY <2>1, <2>3 DEF t
<1>4. ASSUME u.kind = "map" PROVE y = Item(y.key, y.value) /\ y.key = Key(y.key.name) /\ y.value = x
  <2>1. c.kind # "index" /\ y = Item(c, x)
    BY <1>2, <1>4 DEF kind, y
  <2>2. c = Key(c.name)
    BY <2>1 DEF IsComponent, Index
  <2> QED BY <2>1, <2>2 DEF Item
<1>5. u.kind = "list" => y = x
  BY <1>2 DEF kind, y
<1>6. Proper(u)
  <2>1. \A i \in DOMAIN u.items : i = 1
    BY <1>2, <1>3
  <2> QED BY <1>2, <1>3, <1>4, <2>1 DEF Proper
<1>7. ASSUME NEW i \in 1..Len(u.items) PROVE Sound(Child(u, i), how)
  <2>1. i = 1 /\ u.items[i] = y
    BY <1>2, <1>3
  <2>2. Child(u, i) = x
    <3>1. CASE u.kind = "list"
      BY <1>5, <2>1, <3>1 DEF Child
    <3>2. CASE u.kind = "map"
      <4>1. ~IsRemark(y)
        BY <1>4, <3>2 DEF IsRemark, IsComment, Key
      <4> QED BY <1>4, <2>1, <3>2, <4>1 DEF Child
    <3> QED BY <1>2, <3>1, <3>2 DEF IsContainer
  <2> QED BY <2>2
<1> QED BY <1>2, <1>6, <1>7, SoundAround

\* A sound value added at the end leaves the container sound.
LEMMA AddedSound ==
  ASSUME NEW w, NEW how, Sound(w, how), IsContainer(w), NEW c, IsComponent(c), NEW rest, Sound(rest, how),
         NEW x, x = IF w.kind = "map" THEN Item(c, rest) ELSE rest, w.kind = "map" => c.kind = "key"
  PROVE  Sound(Added(w, x), how)
<1> DEFINE u == Added(w, x)
           n == Len(w.items)
<1>1. /\ Proper(w) /\ (how = "plain" => ~IsSealed(w))
      /\ \A j \in 1..n : Sound(Child(w, j), how)
  BY SoundInside
<1>2. w.kind = "map" => x = Item(x.key, x.value) /\ x.key = c /\ x.value = rest /\ x.key = Key(x.key.name)
  <2>1. ASSUME w.kind = "map" PROVE c = Key(c.name)
    BY <2>1 DEF IsComponent, Index
  <2> QED BY <2>1 DEF Item
<1>3. /\ IsContainer(u) /\ u.kind = w.kind /\ Proper(u) /\ Len(u.items) = n + 1 /\ n \in Nat
      /\ u.items[n + 1] = x /\ \A j \in 1..n : u.items[j] = w.items[j]
  <2>1. Longer(w, x, u)
    BY <1>1, <1>2, AddedParts DEF IsItem
  <2> QED BY <2>1 DEF Longer
<1> HIDE DEF u, n
<1>4. ASSUME NEW j \in 1..(n + 1) PROVE Sound(Child(u, j), how)
  <2>1. CASE j = n + 1
    <3>1. Child(u, j) = rest
      <4>1. CASE w.kind = "list"
        BY <1>3, <2>1, <4>1 DEF Child
      <4>2. CASE w.kind = "map"
        <5>1. ~IsRemark(x)
          BY <1>2, <4>2 DEF IsRemark, IsComment, Key
        <5> QED BY <1>2, <1>3, <2>1, <4>2, <5>1 DEF Child
      <4> QED BY <4>1, <4>2 DEF IsContainer
    <3> QED BY <3>1
  <2>2. CASE j # n + 1
    <3>1. j \in 1..n
      BY <1>3, <2>2
    <3>2. Child(u, j) = Child(w, j)
      BY <1>3, <3>1 DEF Child
    <3> QED BY <1>1, <3>1, <3>2
  <2> QED BY <2>1, <2>2
<1>6. Sound(u, how)
  BY <1>3, <1>4, SoundAround
<1> QED BY <1>6 DEF u

\* A part removed leaves the container sound.
LEMMA WithoutSound ==
  ASSUME NEW w, NEW how, Sound(w, how), IsContainer(w), NEW i \in 1..Len(w.items)
  PROVE  Sound(Without(w, i), how)
<1> DEFINE u == Without(w, i)
           n == Len(w.items)
<1>1. /\ Proper(w) /\ (how = "plain" => ~IsSealed(w))
      /\ \A j \in 1..n : Sound(Child(w, j), how)
  BY SoundInside
<1>2. /\ IsContainer(u) /\ u.kind = w.kind /\ Proper(u) /\ Len(u.items) = n - 1 /\ n \in Nat
      /\ \A j \in 1..(n - 1) : u.items[j] = IF j < i THEN w.items[j] ELSE w.items[j + 1]
  <2>1. Shorter(w, i, u)
    BY <1>1, WithoutParts
  <2> QED BY <2>1 DEF Shorter
<1> HIDE DEF u, n
<1>3. ASSUME NEW j \in 1..(n - 1) PROVE Sound(Child(u, j), how)
  <2> DEFINE k == IF j < i THEN j ELSE j + 1
  <2>1. k \in 1..n /\ u.items[j] = w.items[k]
    BY <1>2
  <2> HIDE DEF k
  <2>2. Child(u, j) = Child(w, k)
    BY <1>2, <2>1 DEF Child, IsContainer
  <2> QED BY <1>1, <2>1, <2>2
<1>5. Sound(u, how)
  BY <1>2, <1>3, SoundAround
<1> QED BY <1>5 DEF u

\* All containers that set makes for a path are sound.
LEMMA ChainSound ==
  ASSUME NEW path, NEW n, n = Len(path), n \in Nat, \A d \in 1..n : IsComponent(path[d]),
         NEW leaf, NEW how, Sound(leaf, how), NEW rest, rest = Chain(path, leaf)
  PROVE  \A d \in 0..n : Sound(rest[d], how)
<1> DEFINE T == {d \in 0..n : Sound(rest[d], how)}
<1>1. rest[n] = leaf /\ \A d \in 0..(n - 1) : rest[d] = Around(path[d + 1], rest[d + 1])
  BY ChainSteps
<1>2. n \in T
  BY <1>1
<1>3. ASSUME NEW d \in 0..(n - 1), d + 1 \in T PROVE d \in T
  <2>1. Sound(rest[d + 1], how) /\ IsComponent(path[d + 1]) /\ rest[d] = Around(path[d + 1], rest[d + 1])
    BY <1>1, <1>3
  <2>2. Sound(rest[d], how)
    BY <2>1, AroundSound
  <2> QED BY <2>2
<1>4. 0..n \subseteq T
  <2> HIDE DEF T
  <2> QED BY <1>2, <1>3, CountingDown
<1> QED BY <1>4

\* set leaves a sound document sound.
LEMMA SetSound ==
  ASSUME NEW v, NEW how, Sound(v, how), NEW path, path # <<>>, NEW n, n = Len(path), n \in Nat,
         \A d \in 1..n : IsComponent(path[d]), NEW leaf, Sound(leaf, how),
         NEW r, r = SetIn(v, path, leaf), r.ok
  PROVE  Sound(r.value, how)
<1> DEFINE old == Reached(v, path)
           rest == Chain(path, leaf)
<1>1. PICK new :
           /\ SetIn(v, path, leaf) = new[0] /\ new[n] = Updated(leaf, old[n].value # leaf)
           /\ \A d \in 0..(n - 1) :
                LET w == old[d].value IN
                /\ w.kind = "map" => new[d] = SetInMap(w, path[d + 1], rest[d + 1], new[d + 1])
                /\ w.kind = "list" => new[d] = SetInList(w, path[d + 1], rest[d + 1], new[d + 1])
                /\ ~IsContainer(w) => new[d] = Updated(rest[d], w # rest[d])
  BY SetSteps
<1>2. \A d \in 0..n : (old[d] = Found(old[d].value) /\ Sound(old[d].value, how)) \/ old[d] = Failed
  BY ReachedParts
<1>3. \A d \in 0..n : Sound(rest[d], how)
  BY ChainSound
<1>4. ReachedFor(v, path, old)
  BY ReachedSteps
<1> HIDE DEF old, rest
<1> DEFINE T == {d \in 0..n : old[d].ok /\ new[d].ok => Sound(new[d].value, how)}
<1>5. n \in T
  BY <1>1 DEF Updated
<1>6. ASSUME NEW d \in 0..(n - 1), d + 1 \in T PROVE d \in T
  <2> SUFFICES ASSUME old[d].ok, new[d].ok PROVE Sound(new[d].value, how)
    OBVIOUS
  <2> DEFINE w == old[d].value
             c == path[d + 1]
             i == Position(w, c)
             s == rest[d + 1]
             t == new[d + 1]
             x == IF w.kind = "map" THEN Item(c, s) ELSE s
  <2>1. d \in 0..n /\ d + 1 \in 0..n /\ d + 1 \in 1..n /\ (d + 1) - 1 = d
    OBVIOUS
  <2>2. Sound(w, how) /\ IsComponent(c) /\ Sound(s, how)
    BY <1>2, <1>3, <2>1 DEF Failed
  <2>3. CASE ~IsContainer(w)
    <3>1. new[d] = Updated(rest[d], w # rest[d])
      BY <1>1, <2>3
    <3>2. new[d].value = rest[d]
      BY <3>1 DEF Updated
    <3> QED BY <1>3, <2>1, <3>2
  <2>4. CASE IsContainer(w)
    <3>1. /\ w.kind = "map" => new[d] = SetInMap(w, c, s, t)
          /\ w.kind = "list" => new[d] = SetInList(w, c, s, t)
      BY <1>1
    <3>2. Proper(w)
      BY <2>2, SoundInside
    <3>3. i # 0 => old[d + 1].ok
      <4>1. old[d + 1] = IF old[d].ok /\ i # 0 THEN Found(Part(w, i)) ELSE Failed
        BY <1>4, <2>1 DEF ReachedFor
      <4> HIDE DEF w, i
      <4> QED BY <4>1 DEF Found
    <3>4. t.ok /\ i # 0 => Sound(t.value, how)
      BY <1>6, <3>3
    <3> HIDE DEF w, c, i, s, t
    <3> DEFINE q == new[d]
    <3>5. /\ q.ok
          /\ w.kind = "map" => q = SetInMap(w, c, s, t)
          /\ w.kind = "list" => q = SetInList(w, c, s, t)
          /\ i = Position(w, c) /\ x = IF w.kind = "map" THEN Item(c, s) ELSE s
      BY <3>1 DEF i
    <3> HIDE DEF q, x
    <3>6. SetCase(w, c, i, x, t, q)
      BY <2>2, <2>4, <3>2, <3>5, SetCases
    <3>7. CASE i # 0 /\ t.ok /\ q = PutBack(w, i, t)
      <4> DEFINE u == PutBack(w, i, t).value
                 y == t.value
      <4>1. u = PutBack(w, i, t).value /\ y = t.value /\ Sound(y, how)
        BY <3>4, <3>7
      <4> HIDE DEF u, y
      <4>2. Sound(u, how)
        BY <2>2, <3>5, <3>7, <4>1, PutBackSound
      <4> QED BY <3>7, <4>1, <4>2 DEF q
    <3>8. CASE /\ q = Updated(Added(w, x), TRUE)
               /\ w.kind = "map" => c.kind = "key"
      <4>1. q.value = Added(w, x)
        BY <3>8 DEF Updated
      <4>2. Sound(Added(w, x), how)
        BY <2>2, <2>4, <3>5, <3>8, AddedSound
      <4> QED BY <4>1, <4>2 DEF q
    <3>9. CASE q = Updated(w, TRUE)
      BY <2>2, <3>9 DEF q, Updated
    <3> QED BY <3>6, <3>7, <3>8, <3>9 DEF SetCase
  <2> QED BY <2>3, <2>4
<1>7. 0..n \subseteq T
  <2> HIDE DEF T
  <2> QED BY <1>5, <1>6, CountingDown
<1>8. old[0].ok /\ 0 \in 0..n
  BY <1>4 DEF ReachedFor, Found
<1> QED BY <1>1, <1>7, <1>8

\* unset leaves a sound document sound.
LEMMA UnsetSound ==
  ASSUME NEW v, NEW how, Sound(v, how), NEW path, path # <<>>, NEW n, n = Len(path) - 1, n \in Nat,
         \A d \in 1..(n + 1) : IsComponent(path[d]), NEW r, r = UnsetIn(v, path), r.ok
  PROVE  Sound(r.value, how)
<1> DEFINE old == Reached(v, path)
<1>1. PICK new : UnsetIn(v, path) = new[0] /\ UnsetFor(path, n, old, new)
  BY UnsetSteps
<1>2. \A d \in 0..(n + 1) : (old[d] = Found(old[d].value) /\ Sound(old[d].value, how)) \/ old[d] = Failed
  <2> DEFINE m == n + 1
  <2>1. m = Len(path) /\ m \in Nat /\ \A d \in 1..m : IsComponent(path[d])
    OBVIOUS
  <2> HIDE DEF m, old
  <2>2. old = Reached(v, path)
    BY DEF old
  <2>3. \A d \in 0..m : (old[d] = Found(old[d].value) /\ Sound(old[d].value, how)) \/ old[d] = Failed
    BY <2>1, <2>2, ReachedParts
  <2> QED BY <2>3 DEF m
<1>3. ReachedFor(v, path, old) /\ Len(path) = n + 1
  <2>1. Len(path) \in Nat /\ Len(path) = n + 1
    OBVIOUS
  <2> QED BY <2>1, ReachedSteps
<1> HIDE DEF old
<1> DEFINE T == {d \in 0..n : old[d].ok /\ new[d].ok => Sound(new[d].value, how)}
<1>4. ASSUME NEW d \in 0..n, d # n => d + 1 \in T PROVE d \in T
  <2> SUFFICES ASSUME old[d].ok, new[d].ok PROVE Sound(new[d].value, how)
    OBVIOUS
  <2> DEFINE w == old[d].value
             c == path[d + 1]
             i == Position(w, c)
             t == new[d + 1]
             q == new[d]
  <2>1. d \in 0..(n + 1) /\ d + 1 \in 1..(n + 1) /\ (d + 1) - 1 = d
    OBVIOUS
  <2>2. Sound(w, how) /\ IsComponent(c)
    BY <1>2, <2>1 DEF Failed
  <2>3. /\ i = 0 => q = Failed
        /\ i # 0 /\ d = n => q = Updated(Without(w, i), TRUE)
        /\ i # 0 /\ d # n => q = PutBack(w, i, t)
    BY <1>1 DEF UnsetFor
  <2>4. i # 0 => old[d + 1].ok
    <3>1. old[d + 1] = IF old[d].ok /\ i # 0 THEN Found(Part(w, i)) ELSE Failed
      BY <1>3, <2>1 DEF ReachedFor
    <3> HIDE DEF w, i
    <3> QED BY <3>1 DEF Found
  <2>5. t.ok /\ i # 0 /\ d # n => Sound(t.value, how)
    BY <1>4, <2>4
  <2>6. q.ok /\ i = Position(w, c)
    OBVIOUS
  <2> HIDE DEF w, c, i, t, q
  <2>7. i # 0
    BY <2>3, <2>6 DEF Failed
  <2>8. Proper(w)
    BY <2>2, SoundInside
  <2>9. IsContainer(w) /\ i \in 1..Len(w.items)
    BY <2>2, <2>6, <2>7, <2>8, FoundAt
  <2>10. CASE d = n
    <3>1. q.value = Without(w, i)
      BY <2>3, <2>7, <2>10 DEF Updated
    <3>2. Sound(Without(w, i), how)
      BY <2>2, <2>9, WithoutSound
    <3> QED BY <3>1, <3>2 DEF q
  <2>11. CASE d # n
    <3> DEFINE u == PutBack(w, i, t).value
               y == t.value
    <3>1. q = PutBack(w, i, t)
      BY <2>3, <2>7, <2>11
    <3>2. t.ok
      BY <2>6, <3>1 DEF PutBack, Failed
    <3>3. u = PutBack(w, i, t).value /\ y = t.value /\ Sound(y, how)
      BY <2>5, <2>7, <2>11, <3>2
    <3> HIDE DEF u, y
    <3>4. Sound(u, how)
      BY <2>2, <2>6, <2>7, <3>2, <3>3, PutBackSound
    <3> QED BY <3>1, <3>3, <3>4 DEF q
  <2> QED BY <2>10, <2>11
<1>5. n \in T
  BY <1>4
<1>6. ASSUME NEW d \in 0..(n - 1), d + 1 \in T PROVE d \in T
  <2>1. d \in 0..n
    OBVIOUS
  <2> HIDE DEF T
  <2> QED BY <1>4, <1>6, <2>1
<1>7. 0..n \subseteq T
  <2> HIDE DEF T
  <2> QED BY <1>5, <1>6, CountingDown
<1>8. old[0].ok /\ 0 \in 0..n
  BY <1>3 DEF ReachedFor, Found
<1> QED BY <1>1, <1>7, <1>8

-----------------------------------------------------------------------------
(***************************************************************************)
(* What an edit does to what Truncate finds                                *)
(***************************************************************************)
\* Where a component is found in a map: at the first item that has it for its key.
FirstAt(w, c, i) ==
  LET n == Len(w.items) IN
  /\ n \in Nat /\ DOMAIN w.items = 1..n
  /\ i = 0 => \A k \in 1..n : w.items[k].key # c
  /\ i # 0 => i \in 1..n /\ w.items[i].key = c /\ \A k \in 1..n : w.items[k].key = c => i <= k
  /\ \A j \in 1..n : w.items[j].key = c /\ (\A k \in 1..n : w.items[k].key = c => j <= k) => i = j

\* That is what Position does.
LEMMA PositionInMap ==
  ASSUME NEW w, Proper(w), w.kind = "map", NEW c
  PROVE  FirstAt(w, c, Position(w, c))
<1> DEFINE D == Having(w, c)
           n == Len(w.items)
           i == Position(w, c)
<1>1. n \in Nat /\ DOMAIN w.items = 1..n
  <2>1. w.items \in Seq(ToSet(w.items))
    BY DEF Proper, IsContainer
  <2> QED BY <2>1, LenProperties
<1>2. D \subseteq 1..n /\ \A k \in 1..n : k \in D <=> w.items[k].key = c
  BY <1>1 DEF Having
<1>3. i = IF D = {} THEN 0 ELSE First(D)
  BY DEF Position
<1> HIDE DEF D, n, i
<1>4. D # {} => First(D) \in D /\ \A y \in D : First(D) <= y
  BY <1>1, <1>2, TheFirst
<1>5. i = 0 <=> D = {}
  BY <1>1, <1>2, <1>3, <1>4
<1>6. ASSUME i # 0 PROVE i \in 1..n /\ w.items[i].key = c /\ \A k \in 1..n : w.items[k].key = c => i <= k
  BY <1>2, <1>3, <1>4, <1>5, <1>6
<1>7. ASSUME NEW j \in 1..n, w.items[j].key = c, \A k \in 1..n : w.items[k].key = c => j <= k
      PROVE  i = j
  <2>1. j \in D /\ i # 0
    BY <1>2, <1>5, <1>7
  <2>2. i <= j /\ j <= i /\ i \in 1..n
    BY <1>6, <1>7, <2>1
  <2> QED BY <1>1, <2>2
<1>8. i = 0 => \A k \in 1..n : w.items[k].key # c
  BY <1>2, <1>5
<1> QED BY <1>1, <1>6, <1>7, <1>8 DEF FirstAt, n, i

\* What set and unset find Truncate finds too.
LEMMA StepFound ==
  ASSUME NEW w, Proper(w), NEW c, IsComponent(c), NEW i, i = Position(w, c), i # 0
  PROVE  Step(w, c) = Found(Part(w, i))
<1>1. /\ IsContainer(w) /\ DOMAIN w.items = 1..Len(w.items) /\ i \in 1..Len(w.items)
      /\ w.kind = "list" => c.kind = "index" /\ i = c.at + 1
      /\ w.kind = "map" => c.kind = "key" /\ i = First(Having(w, c)) /\ Having(w, c) # {}
  BY FoundAt
<1>2. CASE w.kind = "list"
  BY <1>1, <1>2 DEF Step, Part, IsContainer
<1>3. CASE w.kind = "map"
  BY <1>1, <1>3 DEF Step, Part, IsContainer
<1> QED BY <1>1, <1>2, <1>3 DEF IsContainer

\* What Truncate finds set and unset find too, unless it is an item.
LEMMA StepIsFound ==
  ASSUME NEW w, Proper(w), NEW c, IsComponent(c), Step(w, c).ok, c.kind = "index" => w.kind = "list"
  PROVE  IsContainer(w) /\ Position(w, c) # 0
<1>1. c.kind \in {"key", "index"} /\ (c.kind = "index" => c.at \in Int)
  BY DEF IsComponent
<1>2. CASE c.kind = "key"
  <2>1. w.kind = "map" /\ Having(w, c) # {}
    BY <1>2 DEF Step, Failed
  <2> DEFINE n == Len(w.items)
             i == Position(w, c)
  <2>2. i = First(Having(w, c))
    BY <2>1 DEF Position
  <2>3. w.items \in Seq(ToSet(w.items))
    BY <2>1 DEF Proper, IsContainer
  <2>4. n \in Nat /\ Having(w, c) \subseteq 1..n
    BY <2>3, LenProperties DEF Having
  <2> HIDE DEF n
  <2>5. i \in 1..n
    BY <2>1, <2>2, <2>4, TheFirst
  <2> QED BY <2>1, <2>4, <2>5 DEF IsContainer
<1>3. CASE c.kind = "index"
  <2>1. w.kind = "list"
    BY <1>3
  <2>2. c.at + 1 \in DOMAIN w.items
    BY <1>3 DEF Step, Failed
  <2>3. w.items \in Seq(ToSet(w.items))
    BY <2>1 DEF Proper, IsContainer
  <2>4. c.at + 1 # 0
    BY <2>2, <2>3, LenProperties
  <2>5. Position(w, c) = c.at + 1
    BY <1>3, <2>1, <2>2 DEF Position
  <2> QED BY <2>1, <2>4, <2>5 DEF IsContainer
<1> QED BY <1>1, <1>2, <1>3

\* When a part is put back, all components are found where they were.
LEMMA PutBackFound ==
  ASSUME NEW w, Proper(w), NEW c, IsComponent(c), NEW i, i = Position(w, c), i # 0,
         NEW r, r.ok, NEW x, x = r.value, NEW u, u = PutBack(w, i, r).value
  PROVE  /\ Proper(u) /\ IsContainer(u) /\ Step(u, c) = Found(x)
         /\ \A e : IsComponent(e) /\ e # c /\ Step(w, e).ok /\ (e.kind = "index" => w.kind = "list")
                   => Step(u, e) = Step(w, e)
<1> DEFINE n == Len(w.items)
<1>1. /\ IsContainer(w) /\ n \in Nat /\ DOMAIN w.items = 1..n /\ i \in 1..n
      /\ w.kind = "list" => c.kind = "index" /\ i = c.at + 1
      /\ w.kind = "map" => c.kind = "key" /\ w.items[i].key = c /\ ~IsRemark(w.items[i])
  BY FoundAt
<1> HIDE DEF n
<1>2. /\ IsContainer(u) /\ u.kind = w.kind /\ Proper(u) /\ Len(u.items) = n /\ DOMAIN u.items = 1..n
      /\ \A j \in 1..n : j # i => u.items[j] = w.items[j]
      /\ w.kind = "list" => u.items[i] = x
      /\ w.kind = "map" => u.items[i] = Item(w.items[i].key, x)
  BY <1>1, PutBackParts DEF n
<1>3. ASSUME NEW e PROVE Position(u, e) = Position(w, e)
  <2>1. CASE w.kind = "list"
    BY <1>1, <1>2, <2>1 DEF Position
  <2>2. CASE w.kind = "map"
    <3>1. \A j \in 1..n : u.items[j].key = w.items[j].key
      BY <1>2, <2>2 DEF Item
    <3>2. Having(u, e) = Having(w, e)
      BY <1>1, <1>2, <3>1 DEF Having
    <3> QED BY <1>2, <2>2, <3>2 DEF Position
  <2> QED BY <1>1, <2>1, <2>2 DEF IsContainer
<1>4. Step(u, c) = Found(x)
  <2>1. i = Position(u, c)
    BY <1>3
  <2>2. Step(u, c) = Found(Part(u, i))
    BY <1>2, <2>1, StepFound
  <2>3. Part(u, i) = x
    <3>1. CASE w.kind = "list"
      BY <1>2, <3>1 DEF Part
    <3>2. CASE w.kind = "map"
      BY <1>2, <3>2 DEF Part, Item
    <3> QED BY <1>1, <3>1, <3>2 DEF IsContainer
  <2> QED BY <2>2, <2>3
<1>5. ASSUME NEW e, IsComponent(e), e # c, Step(w, e).ok, e.kind = "index" => w.kind = "list"
      PROVE  Step(u, e) = Step(w, e)
  <2> DEFINE j == Position(w, e)
  <2>1. j # 0 /\ j = Position(u, e) /\ j = Position(w, e)
    BY <1>3, <1>5, StepIsFound
  <2> HIDE DEF j
  <2>2. Step(u, e) = Found(Part(u, j)) /\ Step(w, e) = Found(Part(w, j))
    <3>1. Step(u, e) = Found(Part(u, j))
      <4>1. Proper(u) /\ IsComponent(e) /\ j = Position(u, e) /\ j # 0
        BY <1>2, <1>5, <2>1
      <4> QED BY <4>1, StepFound
    <3>2. Step(w, e) = Found(Part(w, j))
      BY <1>5, <2>1, StepFound
    <3> QED BY <3>1, <3>2
  <2>3. /\ j \in 1..n
        /\ w.kind = "list" => e.kind = "index" /\ j = e.at + 1
        /\ w.kind = "map" => w.items[j].key = e
    BY <1>5, <2>1, FoundAt DEF n
  <2>4. j # i
    <3>1. CASE w.kind = "list"
      <4>1. e = Index(e.at) /\ c = Index(c.at) /\ e.at \in Int /\ c.at \in Int
        BY <1>1, <1>5, <2>3, <3>1 DEF IsComponent
      <4>2. e.at # c.at
        BY <1>5, <4>1
      <4> QED BY <1>1, <2>3, <3>1, <4>1, <4>2
    <3>2. CASE w.kind = "map"
      BY <1>1, <1>5, <2>3, <3>2
    <3> QED BY <1>1, <3>1, <3>2 DEF IsContainer
  <2>5. Part(u, j) = Part(w, j)
    BY <1>2, <2>3, <2>4 DEF Part
  <2> QED BY <2>2, <2>5
<1> QED BY <1>2, <1>4, <1>5

\* What is added at the end of a container, for a component that is not in it.
Adds(w, c, n, x, rest) ==
  /\ Position(w, c) = 0 /\ (w.kind = "map" => x = Item(c, rest)) /\ (w.kind = "list" => x = rest)
  /\ (w.kind = "map" => c.kind = "key") /\ (w.kind = "list" => c.kind = "index" /\ c.at >= n)

\* All other components lead from u to where they lead from w.
SameElse(w, c, u) ==
  \A e : IsComponent(e) /\ e # c /\ Step(w, e).ok /\ (e.kind = "index" => w.kind = "list")
        => Step(u, e) = Step(w, e)

\* What is added at the end is found there, if an index points there, and all else where it was.
LEMMA AddedFound ==
  ASSUME NEW w, Proper(w), IsContainer(w), NEW c, IsComponent(c), NEW n, n = Len(w.items),
         NEW rest, NEW x, Adds(w, c, n, x, rest), NEW u, u = Added(w, x)
  PROVE  /\ (w.kind = "list" => c.at <= n) => Step(u, c) = Found(rest)
         /\ SameElse(w, c, u)
<1>0. /\ Position(w, c) = 0 /\ (w.kind = "map" => x = Item(c, rest)) /\ (w.kind = "list" => x = rest)
      /\ (w.kind = "map" => c.kind = "key") /\ (w.kind = "list" => c.kind = "index" /\ c.at >= n)
  BY DEF Adds
<1>1. w.kind = "map" => x = Item(c, rest) /\ x.key = c /\ x.value = rest /\ IsItem(x)
  <2>1. ASSUME w.kind = "map" PROVE c = Key(c.name)
    BY <1>0, <2>1 DEF IsComponent
  <2> QED BY <1>0, <2>1 DEF Item, IsItem
<1>2. /\ IsContainer(u) /\ u.kind = w.kind /\ Proper(u) /\ Len(u.items) = n + 1 /\ n \in Nat
      /\ DOMAIN u.items = 1..(n + 1)
      /\ u.items[n + 1] = x /\ \A j \in 1..n : u.items[j] = w.items[j]
  <2>1. Longer(w, x, u)
    BY <1>1, AddedParts
  <2> QED BY <2>1 DEF Longer
<1>3. DOMAIN w.items = 1..n
  <2>1. w.items \in Seq(ToSet(w.items))
    BY DEF Proper
  <2> QED BY <2>1, LenProperties
<1>4. ASSUME w.kind = "list" => c.at <= n PROVE Step(u, c) = Found(rest)
  <2>1. Position(u, c) = n + 1
    <3>1. CASE w.kind = "list"
      <4>1. c.kind = "index" /\ c.at \in Int /\ c.at = n
        BY <1>0, <1>2, <1>4, <3>1 DEF IsComponent, Index, Key
      <4>2. c.at + 1 \in DOMAIN u.items
        BY <1>0, <1>2, <4>1
      <4> QED BY <1>0, <1>2, <3>1, <4>1, <4>2 DEF Position
    <3>2. CASE w.kind = "map"
      <4>1. \A k \in 1..n : w.items[k].key # c
        BY <1>0, <1>2, <3>2, PositionInMap DEF FirstAt
      <4>2. \A k \in 1..(n + 1) : k # n + 1 => k \in 1..n
        BY <1>2
      <4>3. \A k \in 1..(n + 1) : u.items[k].key = c => n + 1 <= k
        BY <1>0, <1>2, <4>1, <4>2
      <4> DEFINE m == n + 1
                 i == Position(u, c)
      <4>4. /\ m = Len(u.items) /\ m \in 1..m /\ u.items[m].key = c /\ i = Position(u, c)
            /\ \A k \in 1..m : u.items[k].key = c => m <= k
        BY <1>1, <1>2, <3>2, <4>3
      <4> HIDE DEF m, i
      <4>5. i = m
        <5>1. FirstAt(u, c, i)
          BY <1>0, <1>2, <3>2, <4>4, PositionInMap
        <5> QED BY <4>4, <5>1 DEF FirstAt
      <4> QED BY <4>5 DEF m, i
    <3> QED BY <3>1, <3>2 DEF IsContainer
  <2> DEFINE i == Position(u, c)
  <2>2. i # 0 /\ i = Position(u, c) /\ i = n + 1
    BY <1>0, <1>2, <2>1
  <2> HIDE DEF i
  <2>3. Step(u, c) = Found(Part(u, i))
    BY <1>0, <1>2, <2>2, StepFound
  <2>4. Part(u, n + 1) = rest
    BY <1>0, <1>1, <1>2 DEF Part, IsContainer
  <2> QED BY <2>2, <2>3, <2>4
<1>5. ASSUME NEW e, IsComponent(e), e # c, Step(w, e).ok, e.kind = "index" => w.kind = "list"
      PROVE  Step(u, e) = Step(w, e)
  <2> DEFINE j == Position(w, e)
  <2>1. j # 0 /\ j = Position(w, e)
    BY <1>5, StepIsFound
  <2> HIDE DEF j
  <2>2. /\ j \in 1..n
        /\ w.kind = "list" => e.kind = "index" /\ j = e.at + 1
        /\ w.kind = "map" => w.items[j].key = e
    BY <1>5, <2>1, FoundAt
  <2>3. Position(u, e) = j
    <3>1. CASE w.kind = "list"
      <4>1. e.at + 1 \in DOMAIN u.items
        BY <1>0, <1>2, <2>2, <3>1
      <4> QED BY <1>0, <1>2, <2>2, <3>1, <4>1 DEF Position
    <3>2. CASE w.kind = "map"
      <4>1. \A k \in 1..n : w.items[k].key = e => j <= k
        BY <2>1, <3>2, PositionInMap DEF FirstAt
      <4>2. \A k \in 1..(n + 1) : k # n + 1 => k \in 1..n
        BY <1>2
      <4>3. \A k \in 1..(n + 1) : u.items[k].key = e => j <= k
        BY <1>0, <1>2, <2>2, <4>1, <4>2
      <4> DEFINE m == n + 1
                 i == Position(u, e)
      <4>4. /\ m = Len(u.items) /\ j \in 1..m /\ u.items[j].key = e /\ i = Position(u, e)
            /\ \A k \in 1..m : u.items[k].key = e => j <= k
        BY <1>0, <1>2, <2>2, <3>2, <4>3
      <4> HIDE DEF m, i
      <4>5. i = j
        <5>1. FirstAt(u, e, i)
          BY <1>0, <1>2, <3>2, <4>4, PositionInMap
        <5> QED BY <4>4, <5>1 DEF FirstAt
      <4> QED BY <4>5 DEF i
    <3> QED BY <3>1, <3>2 DEF IsContainer
  <2>4. Step(u, e) = Found(Part(u, j))
    BY <1>0, <1>2, <1>5, <2>1, <2>3, StepFound
  <2>5. Step(w, e) = Found(Part(w, j))
    BY <1>5, <2>1, StepFound
  <2>6. Part(u, j) = Part(w, j)
    BY <1>0, <1>2, <2>2 DEF Part
  <2> QED BY <2>4, <2>5, <2>6
<1> QED BY <1>4, <1>5 DEF SameElse

LEMMA WithoutFound ==
  ASSUME NEW w, Proper(w), w.kind = "map", NEW c, IsComponent(c), NEW i, i = Position(w, c), i # 0,
         NEW u, u = Without(w, i)
  PROVE  /\ (\A j, k \in Having(w, c) : j = k) => ~Step(u, c).ok
         /\ \A e : IsComponent(e) /\ e # c /\ Step(w, e).ok /\ e.kind # "index" => Step(u, e) = Step(w, e)
<1> DEFINE n == Len(w.items)
<1>1. n \in Nat /\ DOMAIN w.items = 1..n /\ i \in 1..n /\ w.items[i].key = c /\ IsContainer(w)
  BY PositionInMap DEF FirstAt, IsContainer
<1>2. /\ IsContainer(u) /\ u.kind = w.kind /\ Proper(u) /\ Len(u.items) = n - 1
      /\ DOMAIN u.items = 1..(n - 1)
      /\ \A j \in 1..(n - 1) : u.items[j] = IF j < i THEN w.items[j] ELSE w.items[j + 1]
  <2>1. Shorter(w, i, u)
    BY <1>1, WithoutParts
  <2> QED BY <2>1 DEF Shorter
<1>3. n = Len(w.items)
  OBVIOUS
<1> HIDE DEF n
<1>4. ASSUME \A j, k \in Having(w, c) : j = k PROVE ~Step(u, c).ok
  <2>1. \A k \in 1..n : w.items[k].key = c => k = i
    BY <1>1, <1>4 DEF Having
  <2>2. ASSUME NEW j \in 1..(n - 1), u.items[j].key = c PROVE FALSE
    <3>1. CASE j < i
      BY <1>1, <1>2, <2>1, <2>2, <3>1
    <3>2. CASE ~(j < i)
      <4>1. j + 1 \in 1..n /\ j + 1 # i /\ u.items[j] = w.items[j + 1]
        BY <1>1, <1>2, <3>2
      <4> QED BY <2>1, <2>2, <4>1
    <3> QED BY <3>1, <3>2
  <2>3. Having(u, c) = {}
    BY <1>2, <2>2 DEF Having
  <2>4. c.kind = "key"
    BY FoundAt
  <2> QED BY <2>3, <2>4 DEF Step, Failed
<1>5. ASSUME NEW e, IsComponent(e), e # c, Step(w, e).ok, e.kind # "index" PROVE Step(u, e) = Step(w, e)
  <2> DEFINE j == Position(w, e)
  <2>1. j # 0 /\ j = Position(w, e)
    BY <1>5, StepIsFound
  <2> HIDE DEF j
  <2>2. j \in 1..n /\ w.items[j].key = e /\ \A k \in 1..n : w.items[k].key = e => j <= k
    BY <1>3, <2>1, PositionInMap DEF FirstAt
  <2> DEFINE l == IF j < i THEN j ELSE j - 1
             m == n - 1
             z == Position(u, e)
  <2>3. j # i
    BY <1>1, <1>5, <2>2
  <2>4. l \in 1..m /\ u.items[l] = w.items[j]
    <3>1. l \in 1..(n - 1)
      BY <1>1, <2>2, <2>3
    <3>2. u.items[l] = IF l < i THEN w.items[l] ELSE w.items[l + 1]
      <4> HIDE DEF l
      <4> QED BY <1>2, <3>1
    <3>3. (l < i /\ l = j) \/ (~(l < i) /\ l + 1 = j)
      BY <1>1, <2>2, <2>3
    <3> HIDE DEF l
    <3> QED BY <3>1, <3>2, <3>3
  <2>5. ASSUME NEW k \in 1..m, u.items[k].key = e PROVE l <= k
    <3> DEFINE k2 == IF k < i THEN k ELSE k + 1
    <3>1. k2 \in 1..n /\ w.items[k2] = u.items[k]
      BY <1>1, <1>2
    <3>2. j <= k2
      <4> HIDE DEF k2
      <4> QED BY <2>2, <2>5, <3>1
    <3> QED BY <1>1, <2>2, <2>3, <3>2
  <2>6. m = Len(u.items) /\ z = Position(u, e) /\ u.items[l].key = e
    BY <1>2, <2>2, <2>4
  <2> HIDE DEF l, m, z
  <2>7. z = l
    <3>1. FirstAt(u, e, z)
      BY <1>2, <2>6, PositionInMap
    <3> QED BY <2>4, <2>5, <2>6, <3>1 DEF FirstAt
  <2>8. l # 0
    BY <1>1, <2>4 DEF m
  <2>9. Step(u, e) = Found(Part(u, l))
    <3>1. Proper(u) /\ IsComponent(e) /\ l = Position(u, e) /\ l # 0
      BY <1>2, <1>5, <2>6, <2>7, <2>8
    <3> QED BY <3>1, StepFound
  <2>10. Step(w, e) = Found(Part(w, j))
    BY <1>5, <2>1, StepFound
  <2>11. Part(u, l) = Part(w, j)
    BY <1>2, <2>4 DEF Part
  <2> QED BY <2>9, <2>10, <2>11
<1> QED BY <1>4, <1>5

\* Where a part is put back, all along the first m components of a path, Truncate finds what set
\* and unset were called with in the document before, and what they return in the one after.
PutBackUpTo(path, m, old, new) ==
  \A d \in 0..(m - 1) :
    LET i == Position(old[d].value, path[d + 1]) IN
    i # 0 /\ new[d + 1].ok /\ new[d] = PutBack(old[d].value, i, new[d + 1])

FoundUpTo(v, u, path, m, old, new) ==
  \A d \in 0..m : /\ old[d].ok /\ old[d] = Found(old[d].value) /\ To(v, path, d) = old[d]
                  /\ To(u, path, d) = Found(new[d].value)

LEMMA GoingDown ==
  ASSUME NEW v, NEW how, Sound(v, how), NEW S, NEW path \in Seq(S), NEW n, n = Len(path),
         \A d \in 1..n : IsComponent(path[d]), NEW old, old = Reached(v, path), NEW new,
         NEW m \in 0..n, PutBackUpTo(path, m, old, new), NEW u, u = new[0].value
  PROVE  FoundUpTo(v, u, path, m, old, new)
<1>1. n \in Nat
  OBVIOUS
<1>2. ReachedFor(v, path, old)
  BY <1>1, ReachedSteps
<1>3. \A d \in 0..n : (old[d] = Found(old[d].value) /\ Sound(old[d].value, how)) \/ old[d] = Failed
  BY <1>1, ReachedParts
<1>0. StepsOf(v, path) /\ StepsOf(u, path)
  BY TruncateSteps
<1>4. /\ To(v, path, 0) = Found(v)
      /\ \A d \in 1..n :
           To(v, path, d) = IF To(v, path, d - 1).ok THEN Step(To(v, path, d - 1).value, path[d]) ELSE Failed
  BY <1>0 DEF StepsOf
<1>5. /\ To(u, path, 0) = Found(u)
      /\ \A d \in 1..n :
           To(u, path, d) = IF To(u, path, d - 1).ok THEN Step(To(u, path, d - 1).value, path[d]) ELSE Failed
  BY <1>0 DEF StepsOf
<1> DEFINE T == {d \in 0..m : /\ old[d].ok /\ old[d] = Found(old[d].value) /\ To(v, path, d) = old[d]
                              /\ To(u, path, d) = Found(new[d].value)}
<1>6. 0 \in T
  <2>1. old[0] = Found(v) /\ Found(v).ok /\ Found(v).value = v
    BY <1>2 DEF ReachedFor, Found
  <2> QED BY <1>1, <1>4, <1>5, <2>1
<1>7. ASSUME NEW d \in 1..m, d - 1 \in T PROVE d \in T
  <2> DEFINE w == old[d - 1].value
             c == path[d]
             i == Position(w, c)
             x == new[d].value
             r == new[d]
             y == new[d - 1].value
  <2>0. d \in 1..n /\ d - 1 \in 0..(m - 1) /\ (d - 1) + 1 = d /\ d - 1 \in 0..n /\ d \in 0..n
    BY <1>1
  <2>1. i # 0 /\ r.ok /\ new[d - 1] = PutBack(w, i, r)
    BY <2>0 DEF PutBackUpTo
  <2>2. /\ old[d - 1].ok /\ To(v, path, d - 1) = Found(w) /\ To(u, path, d - 1) = Found(y)
        /\ old[d - 1] = Found(w)
    BY <1>7
  <2>3. Sound(w, how) /\ IsComponent(c)
    BY <1>3, <2>0, <2>2 DEF Failed
  <2>4. /\ To(v, path, d) = Step(w, c) /\ To(u, path, d) = Step(y, c)
    <3>1. Found(w).ok /\ Found(w).value = w /\ Found(y).ok /\ Found(y).value = y
      BY DEF Found
    <3> HIDE DEF w, y
    <3> QED BY <1>4, <1>5, <2>0, <2>2, <3>1
  <2>5. old[d] = Found(Part(w, i))
    BY <1>2, <2>0, <2>1, <2>2 DEF ReachedFor
  <2>6. i = Position(w, c) /\ x = r.value /\ y = PutBack(w, i, r).value
    BY <2>1
  <2> HIDE DEF w, c, i, x, r, y
  <2>7. Proper(w)
    BY <2>3, SoundInside
  <2>8. Step(w, c) = Found(Part(w, i))
    BY <2>1, <2>3, <2>6, <2>7, StepFound
  <2>9. Step(y, c) = Found(x)
    BY <2>1, <2>3, <2>6, <2>7, PutBackFound
  <2>10. old[d].ok /\ old[d] = Found(old[d].value)
    BY <2>5 DEF Found
  <2> QED BY <2>4, <2>5, <2>8, <2>9, <2>10 DEF x, r
<1>8. 0..m \subseteq T
  <2>1. m \in Nat
    BY <1>1
  <2> HIDE DEF T
  <2> QED BY <1>6, <1>7, <2>1, CountingUp
<1> QED BY <1>8 DEF FoundUpTo

\* Where Truncate has found nothing, it finds nothing behind it.
LEMMA NothingBehind ==
  ASSUME NEW v, NEW S, NEW path \in Seq(S), NEW n, n = Len(path), NEW e \in 0..n, ~To(v, path, e).ok
  PROVE  \A d \in e..n : ~To(v, path, d).ok
<1>0. StepsOf(v, path)
  BY TruncateSteps
<1>1. n \in Nat /\ \A d \in 1..n :
        To(v, path, d) = IF To(v, path, d - 1).ok THEN Step(To(v, path, d - 1).value, path[d]) ELSE Failed
  BY <1>0 DEF StepsOf
<1> DEFINE T == {d \in 0..n : d >= e => ~To(v, path, d).ok}
<1>2. 0 \in T
  BY <1>1
<1>3. ASSUME NEW d \in 1..n, d - 1 \in T PROVE d \in T
  <2>1. CASE d = e
    BY <2>1
  <2>2. CASE d > e
    <3>1. ~To(v, path, d - 1).ok
      BY <1>1, <1>3, <2>2
    <3>2. To(v, path, d) = Failed
      BY <1>1, <3>1
    <3> QED BY <3>2 DEF Failed
  <2>3. CASE d < e
    BY <1>1, <2>3
  <2> QED BY <1>1, <2>1, <2>2, <2>3
<1>4. 0..n \subseteq T
  <2> HIDE DEF T
  <2> QED BY <1>1, <1>2, <1>3, CountingUp
<1>5. \A d \in e..n : d \in 0..n /\ d >= e
  BY <1>1
<1> QED BY <1>4, <1>5

\* When set says that nothing has changed, nothing has.
LEMMA SetUnchanged ==
  ASSUME NEW v, NEW how, Sound(v, how), NEW path, path # <<>>, NEW n, n = Len(path), n \in Nat,
         \A d \in 1..n : IsComponent(path[d]), NEW leaf,
         NEW r, r = SetIn(v, path, leaf), r.ok, ~r.changed
  PROVE  r.value = v
<1> DEFINE old == Reached(v, path)
           rest == Chain(path, leaf)
<1>1. PICK new :
           /\ SetIn(v, path, leaf) = new[0] /\ new[n] = Updated(leaf, old[n].value # leaf)
           /\ \A d \in 0..(n - 1) :
                LET w == old[d].value IN
                /\ w.kind = "map" => new[d] = SetInMap(w, path[d + 1], rest[d + 1], new[d + 1])
                /\ w.kind = "list" => new[d] = SetInList(w, path[d + 1], rest[d + 1], new[d + 1])
                /\ ~IsContainer(w) => new[d] = Updated(rest[d], w # rest[d])
  BY SetSteps
<1>2. \A d \in 0..n : (old[d] = Found(old[d].value) /\ Sound(old[d].value, how)) \/ old[d] = Failed
  BY ReachedParts
<1>3. ReachedFor(v, path, old)
  BY ReachedSteps
<1> HIDE DEF old, rest
<1> DEFINE T == {d \in 0..n : old[d].ok /\ new[d].ok /\ ~new[d].changed => new[d].value = old[d].value}
<1>4. n \in T
  <2> DEFINE a == old[n].value
             q == new[n]
  <2>1. q = Updated(leaf, a # leaf)
    BY <1>1
  <2> HIDE DEF a, q
  <2>2. ~q.changed => q.value = a
    <3>1. ASSUME ~q.changed PROVE q.value = a
      BY <2>1, <3>1, Zenon DEF Updated
    <3> QED BY <3>1
  <2> QED BY <2>2 DEF a, q
<1>5. ASSUME NEW d \in 0..(n - 1), d + 1 \in T PROVE d \in T
  <2> SUFFICES ASSUME old[d].ok, new[d].ok, ~new[d].changed PROVE new[d].value = old[d].value
    OBVIOUS
  <2> DEFINE w == old[d].value
             c == path[d + 1]
             i == Position(w, c)
             s == rest[d + 1]
             t == new[d + 1]
             x == IF w.kind = "map" THEN Item(c, s) ELSE s
             q == new[d]
             z == old[d + 1].value
  <2>1. d \in 0..n /\ d + 1 \in 0..n /\ d + 1 \in 1..n /\ (d + 1) - 1 = d
    OBVIOUS
  <2>2. Sound(w, how) /\ IsComponent(c)
    BY <1>2, <2>1 DEF Failed
  <2>3. CASE ~IsContainer(w)
    <3>1. q = Updated(rest[d], w # rest[d])
      BY <1>1, <2>3
    <3> DEFINE y == rest[d]
    <3>2. q = Updated(y, w # y) /\ ~q.changed
      BY <3>1
    <3> HIDE DEF q, y, w
    <3>3. q.value = w
      BY <3>2, Zenon DEF Updated
    <3> QED BY <3>3 DEF q, w
  <2>4. CASE IsContainer(w)
    <3>1. /\ w.kind = "map" => q = SetInMap(w, c, s, t)
          /\ w.kind = "list" => q = SetInList(w, c, s, t)
      BY <1>1
    <3>2. Proper(w)
      BY <2>2, SoundInside
    <3>3. i # 0 => old[d + 1].ok /\ z = Part(w, i)
      <4>1. old[d + 1] = IF old[d].ok /\ i # 0 THEN Found(Part(w, i)) ELSE Failed
        BY <1>3, <2>1 DEF ReachedFor
      <4> HIDE DEF w, i
      <4> QED BY <4>1 DEF Found
    <3>4. t.ok /\ ~t.changed /\ i # 0 => t.value = z
      BY <1>5, <3>3
    <3>5. /\ q.ok /\ ~q.changed /\ i = Position(w, c) /\ x = IF w.kind = "map" THEN Item(c, s) ELSE s
      OBVIOUS
    <3> HIDE DEF w, c, i, s, t, q, x, z
    <3>6. SetCase(w, c, i, x, t, q)
      BY <2>2, <2>4, <3>1, <3>2, <3>5, SetCases
    <3>7. i # 0 /\ t.ok /\ q = PutBack(w, i, t)
      BY <3>5, <3>6 DEF SetCase, Updated
    <3> DEFINE u == PutBack(w, i, t).value
               y == t.value
               k == Len(w.items)
    <3>8. /\ i \in 1..k /\ DOMAIN w.items = 1..k
          /\ w.kind = "map" => ~IsRemark(w.items[i])
          /\ k = Len(w.items) /\ y = t.value /\ u = PutBack(w, i, t).value
      BY <2>2, <3>2, <3>5, <3>7, FoundAt
    <3> HIDE DEF u, y, k
    <3>9. /\ PutBack(w, i, t) = Updated(u, t.changed) /\ u.kind = w.kind /\ Proper(u) /\ IsContainer(u)
          /\ DOMAIN u.items = 1..k
          /\ \A j \in 1..k : j # i => u.items[j] = w.items[j]
          /\ w.kind = "list" => u.items[i] = y
          /\ w.kind = "map" => u.items[i] = Item(w.items[i].key, y)
      BY <2>4, <3>2, <3>7, <3>8, PutBackParts
    <3>10. q.changed = t.changed /\ q.value = u
      BY <3>7, <3>9 DEF Updated
    <3>11. y = Part(w, i)
      BY <3>3, <3>4, <3>5, <3>7, <3>8, <3>10
    <3>12. u.items[i] = w.items[i]
      <4>1. CASE w.kind = "list"
        BY <3>9, <3>11, <4>1 DEF Part
      <4>2. CASE w.kind = "map"
        <5>1. w.items[i] = Item(w.items[i].key, w.items[i].value)
          BY <2>4, <3>2, <3>8, <4>2 DEF Proper
        <5> QED BY <3>9, <3>11, <4>2, <5>1 DEF Part
      <4> QED BY <2>4, <4>1, <4>2 DEF IsContainer
    <3>13. u.items = w.items
      <4> DEFINE a == u.items
                 b == w.items
      <4>1. a \in Seq(ToSet(a)) /\ b \in Seq(ToSet(b))
        BY <2>4, <3>2, <3>9 DEF Proper
      <4>2. DOMAIN a = 1..k /\ DOMAIN b = 1..k /\ \A j \in 1..k : a[j] = b[j]
        BY <3>8, <3>9, <3>12
      <4>3. a = [j \in DOMAIN a |-> a[j]] /\ b = [j \in DOMAIN b |-> b[j]]
        <5> HIDE DEF a, b
        <5> QED BY <4>1
      <4> HIDE DEF a, b
      <4>4. a = b
        BY <4>2, <4>3
      <4> QED BY <4>4 DEF a, b
    <3>14. u = w
      <4>1. u = [kind |-> u.kind, items |-> u.items] /\ w = [kind |-> w.kind, items |-> w.items]
        BY <2>4, <3>2, <3>9 DEF Proper
      <4> QED BY <3>9, <3>13, <4>1
    <3> QED BY <3>10, <3>14 DEF q, w
  <2> QED BY <2>3, <2>4
<1>6. 0..n \subseteq T
  <2> HIDE DEF T
  <2> QED BY <1>4, <1>5, CountingDown
<1>7. old[0] = Found(v) /\ old[0].ok /\ old[0].value = v /\ 0 \in 0..n
  BY <1>3 DEF ReachedFor, Found
<1> QED BY <1>1, <1>6, <1>7

\* In a container that set makes for a component, Truncate finds what it was made around.
LEMMA StepAround ==
  ASSUME NEW c, IsComponent(c), c.kind = "index" => c.at = 0, NEW s, NEW u, u = Around(c, s)
  PROVE  Step(u, c) = Found(s)
<1>1. CASE c.kind = "index"
  <2>1. u = ListOf(<<s>>) /\ c.at = 0
    BY <1>1 DEF Around
  <2>2. u.kind = "list" /\ u.items = <<s>>
    BY <2>1 DEF ListOf
  <2>3. c.at + 1 = 1 /\ 1 \in DOMAIN <<s>> /\ <<s>>[1] = s
    BY <2>1
  <2> QED BY <1>1, <2>2, <2>3 DEF Step
<1>2. CASE c.kind = "key"
  <2> DEFINE x == Item(c, s)
  <2>1. u = MapOf(<<x>>)
    BY <1>2 DEF Around
  <2>2. x.key = c /\ x.value = s
    BY DEF Item
  <2> HIDE DEF x
  <2>3. u.kind = "map" /\ u.items = <<x>> /\ DOMAIN <<x>> = {1} /\ <<x>>[1] = x
    BY <2>1 DEF MapOf
  <2>4. Having(u, c) = {1}
    BY <2>2, <2>3 DEF Having
  <2>5. First({1}) = 1
    <3>1. \A i \in {1} : i = 1
      OBVIOUS
    <3>2. 1 \in {1} /\ \A j \in {1} : 1 <= j
      OBVIOUS
    <3> QED BY <3>1, <3>2 DEF First
  <2> QED BY <1>2, <2>2, <2>3, <2>4, <2>5 DEF Step
<1> QED BY <1>1, <1>2 DEF IsComponent

\* What Fits asks of an index, in a document in which Truncate has come to r.
FitsAt(r, c) ==
  c.kind = "index" => IF r.ok /\ IsContainer(r.value) THEN r.value.kind = "list" /\ c.at <= Len(r.value.items)
                      ELSE c.at = 0

\* After set, Truncate finds at the path what was set.
LEMMA SetFound ==
  ASSUME NEW v, NEW how, Sound(v, how), NEW S, NEW path \in Seq(S), path # <<>>, NEW n, n = Len(path),
         \A d \in 1..n : IsComponent(path[d]), NEW leaf, Fits(v, path),
         NEW r, r = SetIn(v, path, leaf), r.ok, NEW u, u = r.value
  PROVE  Truncate(u, path) = Found(leaf)
<1> DEFINE old == Reached(v, path)
           rest == Chain(path, leaf)
<1>0. n \in Nat
  OBVIOUS
<1>1. PICK new :
           /\ SetIn(v, path, leaf) = new[0] /\ new[n] = Updated(leaf, old[n].value # leaf)
           /\ \A d \in 0..(n - 1) :
                LET w == old[d].value IN
                /\ w.kind = "map" => new[d] = SetInMap(w, path[d + 1], rest[d + 1], new[d + 1])
                /\ w.kind = "list" => new[d] = SetInList(w, path[d + 1], rest[d + 1], new[d + 1])
                /\ ~IsContainer(w) => new[d] = Updated(rest[d], w # rest[d])
  BY <1>0, SetSteps
<1>2. \A d \in 0..n : (old[d] = Found(old[d].value) /\ Sound(old[d].value, how)) \/ old[d] = Failed
  BY <1>0, ReachedParts
<1>3. ReachedFor(v, path, old)
  BY <1>0, ReachedSteps
<1>4. rest[n] = leaf /\ \A d \in 0..(n - 1) : rest[d] = Around(path[d + 1], rest[d + 1])
  BY <1>0, ChainSteps
<1>5. StepsOf(v, path) /\ StepsOf(u, path)
  BY TruncateSteps
<1>6. \A d \in 1..n : FitsAt(To(v, path, d - 1), path[d])
  <2>1. DOMAIN path = 1..n
    OBVIOUS
  <2> QED BY <2>1 DEF Fits, FitsAt, To
<1> HIDE DEF old, rest
<1> DEFINE X(e) == /\ old[e].ok /\ old[e] = Found(old[e].value) /\ To(v, path, e) = old[e]
                   /\ new[e].ok /\ To(u, path, e) = Found(new[e].value)
           Z(e) == \A d \in (e + 1)..n : path[d].kind = "index" => path[d].at = 0
           Y(e) == To(u, path, e) = Found(rest[e]) /\ Z(e)
           T == {e \in 0..n : X(e) \/ Y(e)}
<1>7. 0 \in T
  <2>1. old[0] = Found(v) /\ Found(v).ok /\ Found(v).value = v
    BY <1>3 DEF ReachedFor, Found
  <2>2. X(0)
    BY <1>0, <1>1, <1>5, <2>1 DEF StepsOf
  <2> QED BY <1>0, <2>2
\* Where nothing is found in the document before, all indices behind are 0.
<1>8. ASSUME NEW d \in 1..n, ~To(v, path, d).ok PROVE Z(d)
  <2>1. \A k \in d..n : ~To(v, path, k).ok
    <3>1. d \in 0..n
      BY <1>0
    <3> QED BY <1>8, <3>1, NothingBehind
  <2> SUFFICES ASSUME NEW k \in (d + 1)..n, path[k].kind = "index" PROVE path[k].at = 0
    OBVIOUS
  <2>2. k \in 1..n /\ k - 1 \in d..n
    BY <1>0
  <2> QED BY <1>6, <2>1, <2>2 DEF FitsAt
<1>9. ASSUME NEW d \in 1..n, Y(d - 1) PROVE Y(d)
  <2> DEFINE c == path[d]
             s == rest[d]
             a == rest[d - 1]
  <2>1. d \in d..n /\ (d - 1) + 1 = d /\ d - 1 \in 0..(n - 1)
    BY <1>0
  <2>2. a = Around(c, s) /\ IsComponent(c) /\ (c.kind = "index" => c.at = 0)
    BY <1>4, <1>9, <2>1
  <2>3. To(u, path, d) = Step(a, c)
    <3>1. To(u, path, d - 1) = Found(a) /\ Found(a).ok /\ Found(a).value = a
      BY <1>9 DEF Found
    <3> HIDE DEF a
    <3> QED BY <1>5, <3>1 DEF StepsOf
  <2> HIDE DEF a, s, c
  <2>4. Step(a, c) = Found(s)
    BY <2>2, StepAround
  <2>5. Z(d)
    BY <1>0, <1>9
  <2> QED BY <2>3, <2>4, <2>5 DEF s
<1>10. ASSUME NEW d \in 1..n, X(d - 1) PROVE X(d) \/ Y(d)
  <2> DEFINE w == old[d - 1].value
             c == path[d]
             i == Position(w, c)
             s == rest[d]
             t == new[d]
             x == IF w.kind = "map" THEN Item(c, s) ELSE s
             q == new[d - 1]
             y == q.value
  <2>1. d - 1 \in 0..n /\ d \in 0..n /\ d - 1 \in 0..(n - 1) /\ (d - 1) + 1 = d
    BY <1>0
  <2>2. /\ old[d - 1].ok /\ old[d - 1] = Found(w) /\ To(v, path, d - 1) = Found(w) /\ q.ok
        /\ To(u, path, d - 1) = Found(y)
    BY <1>10
  <2>3. Sound(w, how) /\ IsComponent(c) /\ Found(w).ok /\ Found(w).value = w
    BY <1>2, <2>1, <2>2 DEF Failed, Found
  <2>4. To(v, path, d) = Step(w, c) /\ To(u, path, d) = Step(y, c) /\ FitsAt(Found(w), c)
    <3>1. Found(y).ok /\ Found(y).value = y
      BY DEF Found
    <3> HIDE DEF w, y
    <3> QED BY <1>5, <1>6, <2>2, <2>3, <3>1 DEF StepsOf
  <2>5. old[d] = IF i # 0 THEN Found(Part(w, i)) ELSE Failed
    BY <1>3, <2>2 DEF ReachedFor
  <2>6. /\ i = Position(w, c) /\ x = IF w.kind = "map" THEN Item(c, s) ELSE s
        /\ w.kind = "map" => q = SetInMap(w, c, s, t)
        /\ w.kind = "list" => q = SetInList(w, c, s, t)
        /\ ~IsContainer(w) => q = Updated(rest[d - 1], w # rest[d - 1])
    BY <1>1, <2>1
  <2>7. CASE ~IsContainer(w)
    <3>1. y = rest[d - 1]
      <4>1. q = Updated(rest[d - 1], w # rest[d - 1])
        BY <2>6, <2>7
      <4> QED BY <4>1 DEF Updated
    <3>2. c.kind = "index" => c.at = 0
      BY <2>3, <2>4, <2>7 DEF FitsAt
    <3>3. ~To(v, path, d).ok
      <4> HIDE DEF w, c
      <4>1. Step(w, c) = Failed
        BY <2>7 DEF Step, IsContainer
      <4> QED BY <2>4, <4>1 DEF Failed
    <3>4. Z(d)
      BY <1>8, <3>3
    <3>5. Z(d - 1)
      <4> SUFFICES ASSUME NEW k \in ((d - 1) + 1)..n, path[k].kind = "index" PROVE path[k].at = 0
        OBVIOUS
      <4>1. k = d \/ k \in (d + 1)..n
        BY <1>0
      <4> QED BY <3>2, <3>4, <4>1
    <3>6. Y(d - 1)
      BY <2>2, <3>1, <3>5
    <3> HIDE DEF X, Y
    <3> QED BY <1>9, <3>6
  <2>8. CASE IsContainer(w)
    <3> HIDE DEF w, c, i, s, t, q, x, y
    <3>1. Proper(w)
      BY <2>3, SoundInside
    <3>2. SetCase(w, c, i, x, t, q)
      BY <2>2, <2>3, <2>6, <2>8, <3>1, SetCases
    <3>3. CASE i # 0 /\ t.ok /\ q = PutBack(w, i, t)
      <4> DEFINE z == t.value
      <4>1. z = t.value /\ y = PutBack(w, i, t).value
        BY <3>3 DEF y
      <4> HIDE DEF z
      <4>2. Step(y, c) = Found(z)
        BY <2>3, <2>6, <3>1, <3>3, <4>1, PutBackFound
      <4>3. Step(w, c) = Found(Part(w, i))
        BY <2>3, <2>6, <3>1, <3>3, StepFound
      <4>4. old[d] = Found(Part(w, i)) /\ old[d].ok /\ old[d] = Found(old[d].value)
        BY <2>5, <3>3 DEF Found
      <4>5. X(d)
        BY <2>4, <3>3, <4>1, <4>2, <4>3, <4>4 DEF t
      <4> QED BY <4>5
    <3>4. CASE /\ i = 0 /\ q = Updated(Added(w, x), TRUE)
               /\ w.kind = "map" => c.kind = "key"
               /\ w.kind = "list" => c.kind = "index" /\ c.at >= Len(w.items)
      <4> DEFINE k == Len(w.items)
      <4>1. w.kind = "list" => c.at <= k
        BY <2>3, <2>4, <2>8, <3>4 DEF FitsAt
      <4>2. /\ y = Added(w, x) /\ k = Len(w.items) /\ Position(w, c) = 0
            /\ w.kind = "map" => c.kind = "key"
            /\ w.kind = "list" => c.kind = "index" /\ c.at >= k
            /\ (w.kind = "map" => x = Item(c, s)) /\ (w.kind = "list" => x = s)
        BY <2>6, <3>4 DEF y, Updated
      <4> HIDE DEF k
      <4>6. Adds(w, c, k, x, s)
        BY <4>2 DEF Adds
      <4>3. Step(y, c) = Found(s)
        BY <2>3, <2>8, <3>1, <4>1, <4>2, <4>6, AddedFound
      <4>4. ~Step(w, c).ok
        <5>1. c.kind = "index" => w.kind = "list"
          BY <2>8, <3>4 DEF IsContainer
        <5>2. Position(w, c) = 0
          BY <2>6, <3>4
        <5> QED BY <2>3, <3>1, <5>1, <5>2, StepIsFound
      <4>5. Z(d)
        <5>1. ~To(v, path, d).ok
          BY <2>4, <4>4
        <5> QED BY <1>8, <5>1
      <4> QED BY <2>4, <4>3, <4>5 DEF s
    <3>5. CASE i = 0 /\ w.kind = "map" /\ c.kind = "index"
      BY <2>3, <2>4, <2>8, <3>5 DEF FitsAt
    <3> QED BY <3>2, <3>3, <3>4, <3>5 DEF SetCase
  <2> QED BY <2>7, <2>8
<1>11. ASSUME NEW d \in 1..n, d - 1 \in T PROVE d \in T
  <2>1. d \in 0..n
    BY <1>0
  <2>2. X(d - 1) \/ Y(d - 1)
    BY <1>11
  <2> HIDE DEF X, Y
  <2> QED BY <1>9, <1>10, <2>1, <2>2
<1>12. X(n) \/ Y(n)
  <2>1. 0..n \subseteq T
    <3> HIDE DEF T
    <3> QED BY <1>0, <1>7, <1>11, CountingUp
  <2>2. n \in 0..n
    BY <1>0
  <2> HIDE DEF X, Y
  <2> QED BY <2>1, <2>2
<1>13. To(u, path, n) = Found(leaf)
  <2>1. new[n].value = leaf
    BY <1>1 DEF Updated
  <2> QED BY <1>4, <1>12, <2>1
<1> QED BY <1>5, <1>13 DEF StepsOf

\* After unset of a key, Truncate finds nothing at the path, if the map had the key once.
LEMMA UnsetGone ==
  ASSUME NEW v, NEW how, Sound(v, how), NEW S, NEW path \in Seq(S), path # <<>>, NEW n, n = Len(path) - 1,
         \A d \in 1..(n + 1) : IsComponent(path[d]), Last(path).kind = "key", NotTwice(v, path),
         NEW r, r = UnsetIn(v, path), r.ok, NEW u, u = r.value
  PROVE  ~Truncate(u, path).ok
<1> DEFINE old == Reached(v, path)
           N == n + 1
<1>0. n \in Nat /\ Len(path) = n + 1
  <2>1. Len(path) \in Nat /\ Len(path) # 0
    OBVIOUS
  <2> QED BY <2>1
<1>1. PICK new : UnsetIn(v, path) = new[0] /\ UnsetFor(path, n, old, new)
  BY <1>0, UnsetSteps
<1>2. N = Len(path) /\ (\A d \in 1..N : IsComponent(path[d])) /\ old = Reached(v, path) /\ N \in Nat /\ n \in 0..N
  BY <1>0
<1> HIDE DEF old, N
<1>3. \A d \in 0..N : (old[d] = Found(old[d].value) /\ Sound(old[d].value, how)) \/ old[d] = Failed
  <2>1. N = Len(path) /\ N \in Nat /\ \A d \in 1..N : IsComponent(path[d])
    BY <1>2
  <2>2. old = Reached(v, path)
    BY <1>2
  <2> QED BY <2>1, <2>2, ReachedParts
<1>4. ASSUME NEW d \in 0..n, new[d].ok
      PROVE  /\ Position(old[d].value, path[d + 1]) # 0
             /\ d # n => new[d + 1].ok /\ new[d] = PutBack(old[d].value, Position(old[d].value, path[d + 1]), new[d + 1])
  <2> DEFINE w == old[d].value
             i == Position(w, path[d + 1])
             t == new[d + 1]
             q == new[d]
  <2>1. /\ i = 0 => q = Failed
        /\ i # 0 /\ d # n => q = PutBack(w, i, t)
    BY <1>1 DEF UnsetFor
  <2>2. q.ok
    BY <1>4
  <2> HIDE DEF w, i, t, q
  <2>3. i # 0
    BY <2>1, <2>2 DEF Failed
  <2>4. d # n => t.ok
    BY <2>1, <2>2, <2>3 DEF PutBack, Failed
  <2> QED BY <2>1, <2>3, <2>4 DEF w, i, t, q
<1> DEFINE T == {d \in 0..n : new[d].ok}
<1>5. 0 \in T
  BY <1>0, <1>1
<1>6. ASSUME NEW d \in 1..n, d - 1 \in T PROVE d \in T
  <2>1. d - 1 \in 0..n /\ d - 1 # n /\ (d - 1) + 1 = d /\ d \in 0..n
    BY <1>0
  <2> QED BY <1>4, <1>6, <2>1
<1>7. \A d \in 0..n : new[d].ok
  <2>1. 0..n \subseteq T
    <3> HIDE DEF T
    <3> QED BY <1>0, <1>5, <1>6, CountingUp
  <2> QED BY <2>1
<1>8. PutBackUpTo(path, n, old, new)
  <2>1. \A d \in 0..(n - 1) : d \in 0..n /\ d # n
    BY <1>0
  <2> QED BY <1>4, <1>7, <2>1 DEF PutBackUpTo
<1>9. FoundUpTo(v, u, path, n, old, new)
  <2>1. u = new[0].value
    BY <1>1
  <2> QED BY <1>2, <1>8, <2>1, GoingDown
<1> DEFINE w == old[n].value
           c == path[n + 1]
           i == Position(w, c)
           y == new[n].value
<1>10. To(v, path, n) = Found(w) /\ To(u, path, n) = Found(y) /\ old[n].ok
  <2>1. n \in 0..n
    BY <1>0
  <2> QED BY <1>9, <2>1 DEF FoundUpTo
<1>11. i # 0 /\ y = Without(w, i) /\ i = Position(w, c)
  <2>1. n \in 0..n
    BY <1>0
  <2>2. i # 0
    BY <1>4, <1>7, <2>1
  <2>3. new[n] = Updated(Without(w, i), TRUE)
    BY <1>1, <2>1, <2>2 DEF UnsetFor
  <2> QED BY <2>2, <2>3 DEF Updated
<1>12. IsComponent(c) /\ c.kind = "key" /\ c = Last(path)
  BY <1>0, <1>2 DEF Last, N
<1>13. Sound(w, how)
  BY <1>2, <1>3, <1>10 DEF Failed
<1>14. \A j, k \in Having(w, c) : j = k
  <2>1. Truncate(v, Front(path)) = To(v, path, n)
    BY <1>0 DEF Front, To
  <2>2. Truncate(v, Front(path)).value = w
    BY <1>10, <2>1 DEF Found
  <2> QED BY <1>12, <2>2 DEF NotTwice
<1>15. To(u, path, n + 1) = Step(y, c)
  <2>1. StepsOf(u, path)
    BY TruncateSteps
  <2>2. n + 1 \in 1..Len(path) /\ (n + 1) - 1 = n
    BY <1>0
  <2>3. Found(y).ok /\ Found(y).value = y
    BY DEF Found
  <2> HIDE DEF y
  <2> QED BY <1>10, <2>1, <2>2, <2>3 DEF StepsOf
<1>16. Truncate(u, path) = To(u, path, n + 1)
  <2>1. StepsOf(u, path)
    BY TruncateSteps
  <2> QED BY <1>0, <2>1 DEF StepsOf
<1> HIDE DEF w, c, i, y
<1>17. Proper(w)
  BY <1>13, SoundInside
<1>18. w.kind = "map"
  <2>1. IsContainer(w) /\ (w.kind = "list" => c.kind = "index")
    BY <1>11, <1>12, <1>17, FoundAt
  <2> QED BY <1>12, <2>1 DEF IsContainer
<1>19. ~Step(y, c).ok
  BY <1>11, <1>12, <1>14, <1>17, <1>18, WithoutFound
<1> QED BY <1>15, <1>16, <1>19

\* The components of the way to a place are those of a path, unless it goes through a comment.
LEMMA ComponentsOfPlace ==
  ASSUME NEW v, IsTree(v), NEW p \in Nodes(v), NEW c, c = Components(v, p)
  PROVE  /\ c \in Seq(ToSet(c)) /\ Len(c) = Len(p)
         /\ \A d \in 1..Len(c) : IsComment(c[d]) \/ IsComponent(c[d])
<1> DEFINE T == {q \in Nodes(v) : \A d \in 1..Len(q) : IsComment(Components(v, q)[d]) \/ IsComponent(Components(v, q)[d])}
<1>1. <<>> \in T
  <2>1. Len(<<>>) = 0 /\ 1..0 = {}
    OBVIOUS
  <2> QED BY <2>1, PlacesOfATree
<1>2. ASSUME NEW q \in Nodes(v), q \in T, IsContainer(At(v, q)), NEW i \in DOMAIN At(v, q).items
      PROVE  Append(q, i) \in T
  <2> DEFINE w == At(v, q)
             qi == Append(q, i)
             n == Len(q)
  <2>1. q \in Seq(Nat) /\ i \in Nat /\ qi \in Nodes(v)
    BY <1>2, TreeStep
  <2>2. /\ qi \in Seq(Nat) /\ Len(qi) = n + 1 /\ n \in Nat /\ qi[n + 1] = i
        /\ \A d \in 1..n : qi[d] = q[d]
        /\ \A d \in 0..n : SubSeq(qi, 1, d) = SubSeq(q, 1, d)
        /\ SubSeq(qi, 1, n) = q
    BY <2>1, OneStepMore
  <2>3. ASSUME NEW d \in 1..n PROVE Components(v, qi)[d] = Components(v, q)[d]
    <3>1. d - 1 \in 0..n /\ d \in DOMAIN q /\ d \in DOMAIN qi
      BY <2>1, <2>2
    <3>2. SubSeq(qi, 1, d - 1) = SubSeq(q, 1, d - 1) /\ qi[d] = q[d]
      BY <2>2, <3>1
    <3> HIDE DEF qi
    <3> QED BY <3>1, <3>2 DEF Components
  <2>4. Components(v, qi)[n + 1] = Component(w, i)
    <3>1. n + 1 \in DOMAIN qi /\ (n + 1) - 1 = n
      BY <2>2
    <3> HIDE DEF qi, n
    <3> QED BY <2>2, <3>1 DEF Components
  <2>5. IsComment(Component(w, i)) \/ IsComponent(Component(w, i))
    <3>1. CASE w.kind = "list"
      <4>1. Component(w, i) = Index(i - 1) /\ i - 1 \in Int
        BY <2>1, <3>1 DEF Component
      <4> QED BY <4>1 DEF IsComponent, Index
    <3>2. CASE w.kind = "map"
      <4> DEFINE key == w.items[i].key
      <4>1. IsComment(key) \/ key = Key(key.name)
        BY <1>2, <3>2 DEF IsTree, IsRemark
      <4>2. Component(w, i) = key
        BY <3>2 DEF Component
      <4> HIDE DEF key, w
      <4> QED BY <4>1, <4>2 DEF IsComponent, Key
    <3> QED BY <1>2, <3>1, <3>2 DEF IsContainer
  <2>6. ASSUME NEW d \in 1..(n + 1) PROVE IsComment(Components(v, qi)[d]) \/ IsComponent(Components(v, qi)[d])
    <3>1. CASE d = n + 1
      BY <2>4, <2>5, <3>1
    <3>2. CASE d # n + 1
      <4>1. d \in 1..n
        BY <2>2, <3>2
      <4> QED BY <1>2, <2>3, <4>1
    <3> QED BY <3>1, <3>2
  <2> QED BY <2>1, <2>2, <2>6
<1>3. p \in T
  <2> HIDE DEF T
  <2>1. Nodes(v) \subseteq T
    BY <1>1, <1>2, FromAbove
  <2> QED BY <2>1
<1> DEFINE n == Len(p)
<1>4. DOMAIN p = 1..n /\ n \in Nat
  BY PlacesOfATree
<1>5. c = [d \in 1..n |-> c[d]]
  BY <1>4 DEF Components
<1>6. n = Len(p)
  OBVIOUS
<1> HIDE DEF n
<1>7. c \in Seq(ToSet(c)) /\ Len(c) = n
  BY <1>4, <1>5, SequenceOfItsOwn
<1> QED BY <1>3, <1>6, <1>7

\* Two paths, none of which leads on from the other, part at some component.
PartAt(c, path, k) ==
  k \in 1..Len(c) /\ k \in 1..Len(path) /\ c[k] # path[k] /\ \A j \in 1..(k - 1) : c[j] = path[j]

LEMMA PathsPart ==
  ASSUME NEW R, NEW c \in Seq(R), NEW S, NEW path \in Seq(S), ~Related(c, path)
  PROVE  \E k : PartAt(c, path, k)
<1> DEFINE a == Len(c)
           b == Len(path)
           n == IF a <= b THEN a ELSE b
           D == {j \in 1..n : c[j] # path[j]}
           k == First(D)
<1>1. a \in Nat /\ b \in Nat /\ n \in Nat /\ n <= a /\ n <= b /\ (n = a \/ n = b)
  OBVIOUS
<1>2. D # {}
  <2> SUFFICES ASSUME D = {} PROVE FALSE
    OBVIOUS
  <2>1. \A j \in 1..n : c[j] = path[j]
    OBVIOUS
  <2> DEFINE x == SubSeq(c, 1, n)
             y == SubSeq(path, 1, n)
  <2>2. x = [j \in 1..n |-> c[j]] /\ y = [j \in 1..n |-> path[j]]
    <3> HIDE DEF n
    <3> QED BY <1>1
  <2>3. x = y
    <3> HIDE DEF x, y
    <3> QED BY <2>1, <2>2
  <2>4. IsPrefix(c, path) \/ IsPrefix(path, c)
    <3> HIDE DEF n
    <3> QED BY <1>1, <2>3 DEF IsPrefix
  <2> QED BY <2>4 DEF Related
<1>3. k \in D /\ \A j \in D : k <= j
  <2>1. D \subseteq 1..n
    OBVIOUS
  <2> HIDE DEF D, n
  <2> QED BY <1>1, <1>2, <2>1, TheFirst
<1>4. \A j \in 1..(k - 1) : c[j] = path[j]
  <2> SUFFICES ASSUME NEW j \in 1..(k - 1), c[j] # path[j] PROVE FALSE
    OBVIOUS
  <2>1. k \in 1..n
    <3> HIDE DEF k
    <3> QED BY <1>3
  <2> HIDE DEF k
  <2>2. j \in 1..n
    <3> HIDE DEF n
    <3> QED BY <1>1, <2>1
  <2>3. j \in D
    BY <2>2
  <2> HIDE DEF D, n
  <2> QED BY <1>1, <1>3, <2>1, <2>3
<1>5. k \in 1..a /\ k \in 1..b /\ c[k] # path[k]
  <2>1. k \in 1..n /\ c[k] # path[k]
    <3> HIDE DEF k
    <3> QED BY <1>3
  <2> HIDE DEF k, n
  <2> QED BY <1>1, <2>1
<1>6. PartAt(c, path, k)
  <2> HIDE DEF k
  <2> QED BY <1>4, <1>5 DEF PartAt
<1> QED BY <1>6

\* As far as the path of a value goes along that of an edit, set and unset are called with what
\* Truncate finds on the way to the value.
Descends(v, c, k, old) ==
  \A d \in 0..(k - 1) :
    /\ old[d].ok /\ old[d] = Found(old[d].value) /\ To(v, c, d) = old[d]
    /\ Step(old[d].value, c[d + 1]).ok /\ (c[d + 1].kind = "index" => old[d].value.kind = "list")

LEMMA AlongThePath ==
  ASSUME NEW v, NEW how, Sound(v, how), NEW S, NEW path \in Seq(S), NEW n, n = Len(path),
         \A d \in 1..n : IsComponent(path[d]), NEW old, old = Reached(v, path),
         NEW R, NEW c \in Seq(R), NEW N, N = Len(c), \A d \in 1..N : IsComponent(c[d]),
         Fits(v, c), Truncate(v, c).ok, NEW k, PartAt(c, path, k)
  PROVE  Descends(v, c, k, old)
<1>0. n \in Nat /\ N \in Nat /\ k \in 1..N /\ k \in 1..n /\ \A j \in 1..(k - 1) : c[j] = path[j]
  BY DEF PartAt
<1>1. ReachedFor(v, path, old)
  BY <1>0, ReachedSteps
<1>2. \A d \in 0..n : (old[d] = Found(old[d].value) /\ Sound(old[d].value, how)) \/ old[d] = Failed
  BY <1>0, ReachedParts
<1>3. StepsOf(v, c)
  BY TruncateSteps
<1>4. \A d \in 0..N : To(v, c, d).ok
  <2> SUFFICES ASSUME NEW d \in 0..N, ~To(v, c, d).ok PROVE FALSE
    OBVIOUS
  <2>1. \A e \in d..N : ~To(v, c, e).ok
    BY NothingBehind
  <2>2. N \in d..N
    BY <1>0
  <2> QED BY <1>3, <2>1, <2>2 DEF StepsOf
<1>5. \A d \in 1..N : FitsAt(To(v, c, d - 1), c[d])
  <2>1. DOMAIN c = 1..N
    OBVIOUS
  <2> QED BY <2>1 DEF Fits, FitsAt, To
<1> DEFINE Here(d) == /\ old[d].ok /\ old[d] = Found(old[d].value) /\ To(v, c, d) = old[d]
                      /\ Step(old[d].value, c[d + 1]).ok
                      /\ (c[d + 1].kind = "index" => old[d].value.kind = "list")
           T == {d \in 0..(k - 1) : Here(d)}
\* What is found on the way is a container, in which the next component is found.
<1>6. ASSUME NEW d \in 0..(k - 1), old[d].ok, old[d] = Found(old[d].value), To(v, c, d) = old[d]
      PROVE  Here(d)
  <2> DEFINE w == old[d].value
             e == c[d + 1]
  <2>1. d + 1 \in 1..N /\ d + 1 \in 0..N /\ (d + 1) - 1 = d
    BY <1>0
  <2>2. IsComponent(e) /\ FitsAt(old[d], e) /\ old[d] = Found(w) /\ old[d].ok
    BY <1>5, <1>6, <2>1
  <2>3. Step(w, e).ok
    <3>1. To(v, c, d + 1) = Step(w, e)
      BY <1>3, <1>6, <2>1 DEF StepsOf
    <3> QED BY <1>4, <2>1, <3>1
  <2>4. e.kind = "index" => w.kind = "list"
    <3>1. FitsAt(Found(w), e) /\ Found(w).ok /\ Found(w).value = w
      BY <2>2 DEF Found
    <3> HIDE DEF w, e
    <3>2. IsContainer(w)
      BY <2>3 DEF Step, Failed, IsContainer
    <3> QED BY <3>1, <3>2 DEF FitsAt
  <2> QED BY <1>6, <2>3, <2>4
<1>7. 0 \in T
  <2>1. old[0] = Found(v) /\ old[0].ok /\ old[0].value = v /\ To(v, c, 0) = Found(v)
    BY <1>1, <1>3 DEF ReachedFor, Found, StepsOf
  <2>2. 0 \in 0..(k - 1)
    BY <1>0
  <2>3. Here(0)
    <3> HIDE DEF Here
    <3> QED BY <1>6, <2>1, <2>2
  <2> QED BY <2>2, <2>3
<1>8. ASSUME NEW d \in 1..(k - 1), d - 1 \in T PROVE d \in T
  <2> DEFINE w == old[d - 1].value
             e == c[d]
             i == Position(w, e)
  <2>1. /\ d \in 1..n /\ d \in 1..N /\ d - 1 \in 0..n /\ d \in 0..n /\ (d - 1) + 1 = d /\ d \in 0..(k - 1)
        /\ path[d] = e
    BY <1>0
  <2>2. /\ old[d - 1].ok /\ old[d - 1] = Found(w) /\ To(v, c, d - 1) = old[d - 1]
        /\ Step(w, e).ok /\ (e.kind = "index" => w.kind = "list")
    BY <1>8, <2>1
  <2>3. Sound(w, how) /\ IsComponent(e)
    BY <1>2, <2>1, <2>2 DEF Failed
  <2>4. Proper(w)
    BY <2>3, SoundInside
  <2>5. To(v, c, d) = Step(w, e)
    BY <1>3, <2>1, <2>2 DEF StepsOf
  <2>6. old[d] = IF i # 0 THEN Found(Part(w, i)) ELSE Failed
    BY <1>1, <2>1, <2>2 DEF ReachedFor
  <2>7. i = Position(w, e)
    OBVIOUS
  <2> HIDE DEF w, e, i
  <2>8. i # 0
    BY <2>2, <2>3, <2>4, <2>7, StepIsFound
  <2>9. Step(w, e) = Found(Part(w, i))
    BY <2>3, <2>4, <2>7, <2>8, StepFound
  <2>10. old[d].ok /\ old[d] = Found(old[d].value) /\ To(v, c, d) = old[d]
    BY <2>5, <2>6, <2>8, <2>9 DEF Found
  <2>11. Here(d)
    <3> HIDE DEF Here
    <3> QED BY <1>6, <2>1, <2>10
  <2> QED BY <2>1, <2>11
<1>9. \A d \in 0..(k - 1) : Here(d)
  <2> DEFINE m == k - 1
  <2>1. m \in Nat
    BY <1>0
  <2>2. 0 \in T /\ \A d \in 1..m : d - 1 \in T => d \in T
    BY <1>7, <1>8
  <2> HIDE DEF T, m
  <2>3. 0..m \subseteq T
    BY <2>1, <2>2, CountingUp
  <2> HIDE DEF Here
  <2> QED BY <2>3 DEF T, m
<1> QED BY <1>9 DEF Descends

\* Where a path parts from that of an edit, and the next step finds the same, so do those behind.
LEMMA SameBehind ==
  ASSUME NEW v, NEW u, NEW S, NEW path \in Seq(S), NEW R, NEW c \in Seq(R), NEW k, PartAt(c, path, k),
         NEW m, m = k - 1, NEW old, NEW new, FoundUpTo(v, u, path, m, old, new),
         Step(new[m].value, c[k]) = Step(old[m].value, c[k])
  PROVE  Truncate(u, c) = Truncate(v, c)
<1> DEFINE N == Len(c)
           n == Len(path)
<1>0. /\ n \in Nat /\ N \in Nat /\ k \in 1..N /\ k \in 1..n /\ \A j \in 1..m : c[j] = path[j]
      /\ m \in 0..n /\ m \in 0..N
  BY DEF PartAt
<1>1. FoundUpTo(v, u, path, m, old, new)
  OBVIOUS
<1>2. /\ To(v, path, m) = old[m] /\ old[m] = Found(old[m].value)
      /\ To(u, path, m) = Found(new[m].value)
  <2>1. m \in 0..m
    BY <1>0
  <2> QED BY <1>1, <2>1 DEF FoundUpTo
<1>3. SubSeq(c, 1, m) = SubSeq(path, 1, m)
  <2>1. SubSeq(c, 1, m) = [j \in 1..m |-> c[j]] /\ SubSeq(path, 1, m) = [j \in 1..m |-> path[j]]
    BY <1>0
  <2> QED BY <1>0, <2>1
<1>4. To(v, c, m) = Found(old[m].value) /\ To(u, c, m) = Found(new[m].value)
  BY <1>2, <1>3 DEF To
<1>5. StepsOf(v, c) /\ StepsOf(u, c)
  BY TruncateSteps
<1>6. To(v, c, k) = To(u, c, k)
  <2> DEFINE a == old[m].value
             b == new[m].value
  <2>1. Found(a).ok /\ Found(a).value = a /\ Found(b).ok /\ Found(b).value = b
    BY DEF Found
  <2>2. Step(b, c[k]) = Step(a, c[k]) /\ To(v, c, m) = Found(a) /\ To(u, c, m) = Found(b)
    BY <1>4
  <2> HIDE DEF a, b
  <2>3. k - 1 = m
    BY <1>0
  <2> QED BY <1>0, <1>5, <2>1, <2>2, <2>3 DEF StepsOf
<1> DEFINE T == {d \in 0..N : d >= k => To(v, c, d) = To(u, c, d)}
<1>7. 0 \in T
  BY <1>0
<1>8. ASSUME NEW d \in 1..N, d - 1 \in T PROVE d \in T
  <2>1. CASE d = k
    BY <1>6, <2>1
  <2>2. CASE d < k
    BY <1>0, <2>2
  <2>3. CASE d > k
    <3>1. To(v, c, d - 1) = To(u, c, d - 1)
      BY <1>0, <1>8, <2>3
    <3> QED BY <1>5, <3>1 DEF StepsOf
  <2> QED BY <1>0, <2>1, <2>2, <2>3
<1>9. To(v, c, N) = To(u, c, N)
  <2>1. 0..N \subseteq T
    <3> HIDE DEF T, N
    <3> QED BY <1>0, <1>7, <1>8, CountingUp
  <2>2. N \in 0..N /\ N >= k
    BY <1>0
  <2> QED BY <2>1, <2>2
<1> QED BY <1>5, <1>9 DEF StepsOf

\* set leaves all other paths as they are.
LEMMA SetElsewhere ==
  ASSUME NEW v, NEW how, Sound(v, how), NEW S, NEW path \in Seq(S), path # <<>>, NEW n, n = Len(path),
         \A d \in 1..n : IsComponent(path[d]), NEW leaf,
         NEW r, r = SetIn(v, path, leaf), r.ok, NEW u, u = r.value,
         NEW R, NEW c \in Seq(R), NEW N, N = Len(c), \A d \in 1..N : IsComponent(c[d]),
         ~Related(c, path), Fits(v, c), Truncate(v, c).ok
  PROVE  Truncate(u, c) = Truncate(v, c)
<1> DEFINE old == Reached(v, path)
           rest == Chain(path, leaf)
<1>0. n \in Nat /\ old = Reached(v, path)
  OBVIOUS
<1>1. PICK new :
           /\ SetIn(v, path, leaf) = new[0] /\ new[n] = Updated(leaf, old[n].value # leaf)
           /\ \A d \in 0..(n - 1) :
                LET w == old[d].value IN
                /\ w.kind = "map" => new[d] = SetInMap(w, path[d + 1], rest[d + 1], new[d + 1])
                /\ w.kind = "list" => new[d] = SetInList(w, path[d + 1], rest[d + 1], new[d + 1])
                /\ ~IsContainer(w) => new[d] = Updated(rest[d], w # rest[d])
  BY <1>0, SetSteps
<1>2. \A d \in 0..n : (old[d] = Found(old[d].value) /\ Sound(old[d].value, how)) \/ old[d] = Failed
  BY <1>0, ReachedParts
<1>3. ReachedFor(v, path, old)
  BY <1>0, ReachedSteps
<1>4. PICK k : PartAt(c, path, k)
  BY PathsPart
<1> HIDE DEF old, rest
<1>5. Descends(v, c, k, old)
  BY <1>0, <1>4, AlongThePath
<1> DEFINE m == k - 1
<1>6. k \in 1..n /\ k \in 1..N /\ c[k] # path[k] /\ m \in Nat /\ m + 1 = k /\ m \in 0..m
  BY <1>0, <1>4 DEF PartAt
\* What set does with a container on the way.
<1>7. ASSUME NEW d \in 0..m, new[d].ok, NEW w, w = old[d].value, NEW e, e = path[d + 1],
             NEW i, i = Position(w, e), NEW s, s = rest[d + 1], NEW t, t = new[d + 1], NEW q, q = new[d],
             NEW x, x = IF w.kind = "map" THEN Item(e, s) ELSE s
      PROVE  SetCase(w, e, i, x, t, q) /\ Proper(w) /\ IsContainer(w) /\ IsComponent(e)
  <2>1. d \in 0..n /\ d + 1 \in 1..n /\ d \in 0..(n - 1) /\ d + 1 \in 1..N /\ d \in 0..(k - 1)
    BY <1>0, <1>6
  <2>2. Sound(w, how) /\ IsComponent(e) /\ Step(w, c[d + 1]).ok
    <3>1. old[d].ok /\ Step(w, c[d + 1]).ok
      BY <1>5, <1>7, <2>1 DEF Descends
    <3>2. old[d] # Failed
      BY <3>1 DEF Failed
    <3> QED BY <1>2, <1>7, <2>1, <3>1, <3>2
  <2>3. IsContainer(w)
    BY <2>2 DEF Step, Failed, IsContainer
  <2>4. Proper(w)
    BY <2>2, SoundInside
  <2>5. /\ w.kind = "map" => q = SetInMap(w, e, s, t)
        /\ w.kind = "list" => q = SetInList(w, e, s, t)
        /\ q.ok
    BY <1>1, <1>7, <2>1
  <2>6. SetCase(w, e, i, x, t, q)
    BY <1>7, <2>2, <2>3, <2>4, <2>5, SetCases
  <2> QED BY <2>2, <2>3, <2>4, <2>6
<1>8. ASSUME NEW d \in 0..(m - 1), new[d].ok
      PROVE  LET i == Position(old[d].value, path[d + 1])
             IN i # 0 /\ new[d + 1].ok /\ new[d] = PutBack(old[d].value, i, new[d + 1])
  <2> DEFINE w == old[d].value
             e == path[d + 1]
             i == Position(w, e)
             s == rest[d + 1]
             t == new[d + 1]
             q == new[d]
             x == IF w.kind = "map" THEN Item(e, s) ELSE s
  <2>1. d \in 0..m /\ d + 1 \in 0..(k - 1) /\ d + 1 \in 1..n /\ (d + 1) - 1 = d
    BY <1>0, <1>6
  <2>2. SetCase(w, e, i, x, t, q)
    <3>1. /\ w = old[d].value /\ e = path[d + 1] /\ i = Position(w, e) /\ s = rest[d + 1] /\ t = new[d + 1]
          /\ q = new[d] /\ x = IF w.kind = "map" THEN Item(e, s) ELSE s
      OBVIOUS
    <3> HIDE DEF w, e, i, s, t, q, x
    <3> QED BY <1>7, <1>8, <2>1, <3>1
  <2>3. i # 0
    <3>1. old[d + 1] = IF old[d].ok /\ i # 0 THEN Found(Part(w, i)) ELSE Failed
      BY <1>3, <2>1 DEF ReachedFor
    <3>2. old[d + 1].ok
      BY <1>5, <2>1 DEF Descends
    <3> HIDE DEF w, i
    <3> QED BY <3>1, <3>2 DEF Failed
  <2> HIDE DEF w, e, i, s, t, q, x
  <2>4. t.ok /\ q = PutBack(w, i, t)
    BY <2>2, <2>3 DEF SetCase
  <2> QED BY <2>3, <2>4 DEF w, e, i, t, q
<1> DEFINE T == {d \in 0..m : new[d].ok}
<1>9. 0 \in T
  BY <1>1, <1>6
<1>10. ASSUME NEW d \in 1..m, d - 1 \in T PROVE d \in T
  <2>1. d - 1 \in 0..(m - 1) /\ (d - 1) + 1 = d /\ d \in 0..m
    BY <1>6
  <2> QED BY <1>8, <1>10, <2>1
<1>11. \A d \in 0..m : new[d].ok
  <2>1. 0..m \subseteq T
    <3> HIDE DEF T, m
    <3> QED BY <1>6, <1>9, <1>10, CountingUp
  <2> QED BY <2>1
<1>12. PutBackUpTo(path, m, old, new)
  <2>1. \A d \in 0..(m - 1) : d \in 0..m
    BY <1>6
  <2> QED BY <1>8, <1>11, <2>1 DEF PutBackUpTo
<1>13. Step(new[m].value, c[k]) = Step(old[m].value, c[k])
  <2> DEFINE w == old[m].value
             e == path[k]
             i == Position(w, e)
             s == rest[k]
             t == new[k]
             q == new[m]
             x == IF w.kind = "map" THEN Item(e, s) ELSE s
             f == c[k]
             y == q.value
  <2>1. IsComponent(f) /\ f # e /\ Step(w, f).ok /\ (f.kind = "index" => w.kind = "list")
    BY <1>5, <1>6 DEF Descends
  <2>2. SetCase(w, e, i, x, t, q) /\ Proper(w) /\ IsContainer(w) /\ IsComponent(e)
    <3>1. /\ w = old[m].value /\ e = path[m + 1] /\ i = Position(w, e) /\ s = rest[m + 1] /\ t = new[m + 1]
          /\ q = new[m] /\ x = IF w.kind = "map" THEN Item(e, s) ELSE s
      BY <1>6
    <3> HIDE DEF w, e, i, s, t, q, x, m
    <3> QED BY <1>6, <1>7, <1>11, <3>1
  <2>3. i = Position(w, e) /\ x = IF w.kind = "map" THEN Item(e, s) ELSE s
    OBVIOUS
  <2> HIDE DEF w, e, i, s, t, q, x, f, y
  <2>4. CASE i # 0 /\ t.ok /\ q = PutBack(w, i, t)
    <3> DEFINE z == t.value
    <3>1. z = t.value /\ y = PutBack(w, i, t).value
      BY <2>4 DEF y
    <3> HIDE DEF z
    <3>2. Step(y, f) = Step(w, f)
      BY <2>1, <2>2, <2>3, <2>4, <3>1, PutBackFound
    <3> QED BY <3>2 DEF y, f, w, q
  <2>5. CASE /\ i = 0 /\ q = Updated(Added(w, x), TRUE)
             /\ w.kind = "map" => e.kind = "key"
             /\ w.kind = "list" => e.kind = "index" /\ e.at >= Len(w.items)
    <3> DEFINE l == Len(w.items)
    <3>1. /\ y = Added(w, x) /\ l = Len(w.items) /\ Position(w, e) = 0
          /\ w.kind = "map" => e.kind = "key"
          /\ w.kind = "list" => e.kind = "index" /\ e.at >= l
          /\ (w.kind = "map" => x = Item(e, s)) /\ (w.kind = "list" => x = s)
      BY <2>3, <2>5 DEF y, Updated
    <3> HIDE DEF l
    <3>2. Adds(w, e, l, x, s)
      BY <3>1 DEF Adds
    <3>3. SameElse(w, e, y)
      BY <2>2, <3>1, <3>2, AddedFound
    <3>4. Step(y, f) = Step(w, f)
      BY <2>1, <3>3 DEF SameElse
    <3> QED BY <3>4 DEF y, f, w, q
  <2>6. CASE q = Updated(w, TRUE)
    BY <2>6 DEF Updated, q, w
  <2> QED BY <2>2, <2>4, <2>5, <2>6 DEF SetCase
<1>14. m = k - 1 /\ u = new[0].value
  BY <1>1
<1>15. FoundUpTo(v, u, path, m, old, new)
  <2>1. m \in 0..n /\ n = Len(path) /\ old = Reached(v, path)
    BY <1>0, <1>6
  <2> HIDE DEF m
  <2> QED BY <1>12, <1>14, <2>1, GoingDown
<1> HIDE DEF m
<1> QED BY <1>4, <1>13, <1>14, <1>15, SameBehind

\* What unset has done with the value it came to after d components.
UnsetDone(path, n, old, new, d) ==
  LET w == old[d].value
      i == Position(w, path[d + 1])
  IN /\ i # 0 /\ (d = n => new[d] = Updated(Without(w, i), TRUE))
     /\ d # n => new[d + 1].ok /\ new[d] = PutBack(w, i, new[d + 1])

\* unset of a key leaves all other paths as they are.
LEMMA UnsetElsewhere ==
  ASSUME NEW v, NEW how, Sound(v, how), NEW S, NEW path \in Seq(S), path # <<>>, NEW n, n = Len(path),
         \A d \in 1..n : IsComponent(path[d]), Last(path).kind = "key",
         NEW r, r = UnsetIn(v, path), r.ok, NEW u, u = r.value,
         NEW R, NEW c \in Seq(R), NEW N, N = Len(c), \A d \in 1..N : IsComponent(c[d]),
         ~Related(c, path), Fits(v, c), Truncate(v, c).ok
  PROVE  Truncate(u, c) = Truncate(v, c)
<1> DEFINE old == Reached(v, path)
           last0 == n - 1
<1>0. n \in Nat /\ old = Reached(v, path) /\ last0 \in Nat /\ last0 = Len(path) - 1 /\ last0 + 1 = n
  <2>1. Len(path) \in Nat /\ Len(path) # 0
    OBVIOUS
  <2> QED BY <2>1
<1> HIDE DEF last0
<1>1. PICK new : UnsetIn(v, path) = new[0] /\ UnsetFor(path, last0, old, new)
  BY <1>0, UnsetSteps
<1>2. \A d \in 0..n : (old[d] = Found(old[d].value) /\ Sound(old[d].value, how)) \/ old[d] = Failed
  BY <1>0, ReachedParts, SMTT(30)
<1>4. PICK k : PartAt(c, path, k)
  BY PathsPart
<1> HIDE DEF old
<1>5. Descends(v, c, k, old)
  BY <1>0, <1>4, AlongThePath
<1> DEFINE m == k - 1
<1>6. k \in 1..n /\ k \in 1..N /\ c[k] # path[k] /\ m \in Nat /\ m + 1 = k /\ m \in 0..m /\ m \in 0..last0
  BY <1>0, <1>4 DEF PartAt
<1>7. ASSUME NEW d \in 0..last0, new[d].ok PROVE UnsetDone(path, last0, old, new, d)
  <2> DEFINE w == old[d].value
             i == Position(w, path[d + 1])
             t == new[d + 1]
             q == new[d]
  <2>1. /\ i = 0 => q = Failed
        /\ i # 0 /\ d = last0 => q = Updated(Without(w, i), TRUE)
        /\ i # 0 /\ d # last0 => q = PutBack(w, i, t)
    BY <1>1, <1>7 DEF UnsetFor
  <2>2. q.ok
    BY <1>7
  <2>3. UnsetDone(path, last0, old, new, d) <=>
          /\ i # 0 /\ (d = last0 => q = Updated(Without(w, i), TRUE))
          /\ d # last0 => t.ok /\ q = PutBack(w, i, t)
    BY DEF UnsetDone
  <2> HIDE DEF w, i, t, q
  <2>4. i # 0
    BY <2>1, <2>2 DEF Failed
  <2>5. d # last0 => t.ok
    BY <2>1, <2>2, <2>4 DEF PutBack, Failed
  <2> QED BY <2>1, <2>3, <2>4, <2>5
<1>8. ASSUME NEW d \in 0..(m - 1), new[d].ok
      PROVE  LET i == Position(old[d].value, path[d + 1])
             IN i # 0 /\ new[d + 1].ok /\ new[d] = PutBack(old[d].value, i, new[d + 1])
  <2>1. d \in 0..last0 /\ d # last0
    BY <1>6, <1>0
  <2>2. UnsetDone(path, last0, old, new, d)
    BY <1>7, <1>8, <2>1
  <2> QED BY <2>1, <2>2 DEF UnsetDone
<1> DEFINE T == {d \in 0..m : new[d].ok}
<1>9. 0 \in T
  BY <1>1, <1>6
<1>10. ASSUME NEW d \in 1..m, d - 1 \in T PROVE d \in T
  <2>1. d - 1 \in 0..(m - 1) /\ (d - 1) + 1 = d /\ d \in 0..m
    BY <1>6
  <2> QED BY <1>8, <1>10, <2>1
<1>11. \A d \in 0..m : new[d].ok
  <2>1. 0..m \subseteq T
    <3> HIDE DEF T, m
    <3> QED BY <1>6, <1>9, <1>10, CountingUp
  <2> QED BY <2>1
<1>12. PutBackUpTo(path, m, old, new)
  <2>1. \A d \in 0..(m - 1) : d \in 0..m
    BY <1>6
  <2> QED BY <1>8, <1>11, <2>1 DEF PutBackUpTo
<1>13. Step(new[m].value, c[k]) = Step(old[m].value, c[k])
  <2> DEFINE w == old[m].value
             e == path[k]
             i == Position(w, e)
             t == new[k]
             q == new[m]
             f == c[k]
             y == q.value
  <2>1. /\ IsComponent(f) /\ f # e /\ Step(w, f).ok /\ (f.kind = "index" => w.kind = "list")
        /\ old[m].ok /\ IsComponent(e)
    BY <1>5, <1>6 DEF Descends
  <2>2. Sound(w, how)
    <3>1. old[m] # Failed /\ m \in 0..n
      BY <1>0, <1>6, <2>1 DEF Failed
    <3> QED BY <1>2, <3>1
  <2>3. w = old[m].value /\ i = Position(w, path[m + 1]) /\ t = new[m + 1] /\ q = new[m] /\ e = path[m + 1]
    BY <1>6
  <2>4. i # 0 /\ (m = last0 => q = Updated(Without(w, i), TRUE)) /\ (m # last0 => t.ok /\ q = PutBack(w, i, t))
    <3>1. UnsetDone(path, last0, old, new, m)
      <4> HIDE DEF m
      <4> QED BY <1>6, <1>7, <1>11
    <3> QED BY <2>3, <3>1 DEF UnsetDone
  <2>5. i = Position(w, e)
    OBVIOUS
  <2>6. m = last0 => e = Last(path)
    BY <1>0, <1>6 DEF Last
  <2> HIDE DEF w, e, i, t, q, f, y
  <2>7. Proper(w)
    BY <2>2, SoundInside
  <2>8. CASE m # last0
    <3> DEFINE z == t.value
    <3>1. z = t.value /\ y = PutBack(w, i, t).value
      BY <2>4, <2>8 DEF y
    <3> HIDE DEF z
    <3>2. Step(y, f) = Step(w, f)
      BY <2>1, <2>4, <2>5, <2>7, <2>8, <3>1, PutBackFound
    <3> QED BY <3>2 DEF y, f, w, q
  <2>9. CASE m = last0
    <3>1. y = Without(w, i) /\ e.kind = "key"
      BY <2>4, <2>6, <2>9 DEF y, Updated
    <3>2. w.kind = "map"
      <4>1. IsContainer(w) /\ (w.kind = "list" => e.kind = "index")
        BY <2>1, <2>4, <2>5, <2>7, FoundAt
      <4> QED BY <3>1, <4>1 DEF IsContainer
    <3>3. f.kind # "index"
      BY <2>1, <3>2
    <3>4. Step(y, f) = Step(w, f)
      BY <2>1, <2>4, <2>5, <2>7, <3>1, <3>2, <3>3, WithoutFound
    <3> QED BY <3>4 DEF y, f, w, q
  <2> QED BY <2>8, <2>9
<1>14. m = k - 1 /\ u = new[0].value
  BY <1>1
<1>15. FoundUpTo(v, u, path, m, old, new)
  <2>1. m \in 0..n /\ n = Len(path) /\ old = Reached(v, path)
    BY <1>0, <1>6
  <2> HIDE DEF m
  <2> QED BY <1>12, <1>14, <2>1, GoingDown
<1> HIDE DEF m
<1> QED BY <1>4, <1>13, <1>14, <1>15, SameBehind

\* All other paths to the places of v lead from u to where they lead from v.
ElsewhereSame(v, u, path) ==
  \A p \in Places(v) :
    LET c == Components(v, p) IN
    (\A d \in DOMAIN c : ~IsComment(c[d])) /\ ~Related(c, path) /\ Fits(v, c) /\ Truncate(v, c).ok
      => Truncate(u, c) = Truncate(v, c)

\* After set, in all.
LEMMA SetIsLocal ==
  ASSUME NEW v, IsTree(v), NEW S, NEW path \in Seq(S), \A d \in DOMAIN path : IsComponent(path[d]),
         NEW leaf, NEW r, r = SetIn(v, path, leaf), r.ok, NEW u, u = r.value
  PROVE  /\ Fits(v, path) => Truncate(u, path) = Found(leaf)
         /\ ~r.changed => u = v
         /\ ElsewhereSame(v, u, path)
<1> DEFINE how == "any"
           n == Len(path)
<1>1. path # <<>>
  BY DEF SetIn, Failed
<1>2. how \notin {"plain", "genuine"}
  OBVIOUS
<1>3. n = Len(path) /\ n \in Nat /\ \A d \in 1..n : IsComponent(path[d])
  BY LenProperties
<1> HIDE DEF how, n
<1>4. Sound(v, how)
  BY <1>2, SoundTree
<1>5. Fits(v, path) => Truncate(u, path) = Found(leaf)
  BY <1>1, <1>3, <1>4, SetFound
<1>6. ~r.changed => u = v
  BY <1>1, <1>3, <1>4, SetUnchanged
<1>7. ASSUME NEW p \in Places(v), NEW c, c = Components(v, p), \A d \in DOMAIN c : ~IsComment(c[d]),
             ~Related(c, path), Fits(v, c), Truncate(v, c).ok
      PROVE  Truncate(u, c) = Truncate(v, c)
  <2> DEFINE N == Len(c)
             R == ToSet(c)
  <2>1. p \in Nodes(v)
    BY DEF Places
  <2>2. c \in Seq(R) /\ \A d \in 1..N : IsComment(c[d]) \/ IsComponent(c[d])
    BY <1>7, <2>1, ComponentsOfPlace
  <2>3. N = Len(c) /\ \A d \in 1..N : IsComponent(c[d])
    <3> HIDE DEF R
    <3>1. DOMAIN c = 1..N
      BY <2>2, LenProperties
    <3> QED BY <1>7, <2>2, <3>1
  <2> HIDE DEF N, R
  <2> QED BY <1>1, <1>3, <1>4, <1>7, <2>2, <2>3, SetElsewhere
<1>8. ElsewhereSame(v, u, path)
  BY <1>7 DEF ElsewhereSame
<1> QED BY <1>5, <1>6, <1>8

\* And after unset of a key.
LEMMA UnsetIsLocal ==
  ASSUME NEW v, IsTree(v), NEW S, NEW path \in Seq(S), \A d \in DOMAIN path : IsComponent(path[d]),
         Last(path).kind = "key", NEW r, r = UnsetIn(v, path), r.ok, NEW u, u = r.value
  PROVE  /\ NotTwice(v, path) => ~Truncate(u, path).ok
         /\ ElsewhereSame(v, u, path)
<1> DEFINE how == "any"
           n == Len(path)
           l == n - 1
<1>1. path # <<>>
  BY DEF UnsetIn, Failed
<1>2. how \notin {"plain", "genuine"}
  OBVIOUS
<1>3. /\ n = Len(path) /\ n \in Nat /\ (\A d \in 1..n : IsComponent(path[d]))
      /\ l = Len(path) - 1 /\ l + 1 = n
  BY LenProperties
<1> HIDE DEF how, n, l
<1>4. Sound(v, how)
  BY <1>2, SoundTree
<1>5. NotTwice(v, path) => ~Truncate(u, path).ok
  <2>1. \A d \in 1..(l + 1) : IsComponent(path[d])
    BY <1>3
  <2> QED BY <1>1, <1>3, <1>4, <2>1, UnsetGone
<1>7. ASSUME NEW p \in Places(v), NEW c, c = Components(v, p), \A d \in DOMAIN c : ~IsComment(c[d]),
             ~Related(c, path), Fits(v, c), Truncate(v, c).ok
      PROVE  Truncate(u, c) = Truncate(v, c)
  <2> DEFINE N == Len(c)
             R == ToSet(c)
  <2>1. p \in Nodes(v)
    BY DEF Places
  <2>2. c \in Seq(R) /\ \A d \in 1..N : IsComment(c[d]) \/ IsComponent(c[d])
    BY <1>7, <2>1, ComponentsOfPlace
  <2>3. N = Len(c) /\ \A d \in 1..N : IsComponent(c[d])
    <3> HIDE DEF R
    <3>1. DOMAIN c = 1..N
      BY <2>2, LenProperties
    <3> QED BY <1>7, <2>2, <3>1
  <2> HIDE DEF N, R
  <2> QED BY <1>1, <1>3, <1>4, <1>7, <2>2, <2>3, UnsetElsewhere
<1>8. ElsewhereSame(v, u, path)
  BY <1>7 DEF ElsewhereSame
<1> QED BY <1>5, <1>8

-----------------------------------------------------------------------------
(***************************************************************************)
(* Genuine ciphertexts                                                     *)
(***************************************************************************)
\* A ciphertext as CipherEncrypt makes it, of a value that is genuine too.
Genuine(s) ==
  s = Sealed(s.of, s.path, s.iv) /\ Sound(s.of, "genuine") /\ ~IsContainer(s.of) /\ s.of # Null

\* Where a genuine tree has a ciphertext, it is as the cipher makes it.
LEMMA GenuineInside ==
  ASSUME NEW w, Sound(w, "genuine")
  PROVE  /\ w.kind = "sealed" => Genuine(w)
         /\ IsComment(w) /\ w.string.kind = "sealed" => Genuine(w.string) /\ IsComment(w.string.of)
<1>1. PICK T : w \in T /\ Holds(T, "genuine")
  BY DEF Sound
<1>2. Fine(w, "genuine", T)
  BY <1>1 DEF Holds
<1>3. ASSUME NEW s, GenuineIn(s, T) PROVE Genuine(s)
  BY <1>1, <1>3 DEF GenuineIn, Genuine, Sound
<1> QED BY <1>2, <1>3 DEF Fine

\* A value that holds nothing else is sound.
LEMMA SoundLeaf ==
  ASSUME NEW w, NEW how, ~IsContainer(w), w.kind # "sealed", IsComment(w) => w.string.kind # "sealed"
  PROVE  Sound(w, how)
<1> DEFINE T == {w}
<1>1. Holds(T, how)
  BY DEF Holds, Fine, Proper, IsSealed
<1>2. w \in T
  OBVIOUS
<1> HIDE DEF T
<1> QED BY <1>1, <1>2 DEF Sound

\* What the cipher makes of a sound value is sound, and so is the comment with it.
LEMMA SoundCiphertext ==
  ASSUME NEW a, Sound(a, "genuine"), ~IsContainer(a), a # Null, NEW path, NEW iv,
         NEW s, s = Sealed(a, path, iv)
  PROVE  Sound(s, "genuine") /\ (IsComment(a) => Sound(Comment(s), "genuine"))
<1>1. PICK T : a \in T /\ Holds(T, "genuine")
  BY DEF Sound
<1>2. /\ s.kind = "sealed" /\ s = Sealed(s.of, s.path, s.iv) /\ s.of = a
      /\ ~IsContainer(s) /\ ~IsComment(s)
  BY DEF Sealed, IsContainer, IsComment
<1> DEFINE c == Comment(s)
<1>3. IsComment(c) /\ ~IsContainer(c) /\ c.kind # "sealed" /\ c.string = s
  BY DEF Comment, IsComment, IsContainer
<1> HIDE DEF c
<1>4. ASSUME NEW U, T \subseteq U, NEW w \in T
      PROVE  /\ Proper(w) /\ Fine(w, "genuine", U)
             /\ IsContainer(w) => \A i \in 1..Len(w.items) : Child(w, i) \in U
  <2>1. Fine(w, "genuine", T) /\ Proper(w) /\ (IsContainer(w) => \A i \in 1..Len(w.items) : Child(w, i) \in T)
    BY <1>1 DEF Holds
  <2> QED BY <1>4, <2>1 DEF Fine, GenuineIn
<1>5. ASSUME NEW U, a \in U, NEW w \in {s, c}, IsComment(a) \/ w = s
      PROVE  Proper(w) /\ Fine(w, "genuine", U) /\ ~IsContainer(w)
  <2>1. GenuineIn(s, U)
    BY <1>2, <1>5 DEF GenuineIn
  <2> QED BY <1>2, <1>3, <1>5, <2>1 DEF Fine, Proper
<1>6. Sound(s, "genuine")
  <2> DEFINE U == T \cup {s}
  <2>1. T \subseteq U /\ a \in U /\ s \in U /\ \A w \in U : w \in T \/ w = s
    BY <1>1
  <2> HIDE DEF U
  <2>2. Holds(U, "genuine")
    BY <1>4, <1>5, <2>1 DEF Holds
  <2> QED BY <2>1, <2>2 DEF Sound
<1>7. ASSUME IsComment(a) PROVE Sound(c, "genuine")
  <2> DEFINE U == T \cup {c}
  <2>1. T \subseteq U /\ a \in U /\ c \in U /\ \A w \in U : w \in T \/ w = c
    BY <1>1
  <2> HIDE DEF U
  <2>2. Holds(U, "genuine")
    BY <1>4, <1>5, <1>7, <2>1 DEF Holds
  <2> QED BY <2>1, <2>2 DEF Sound
<1> QED BY <1>6, <1>7 DEF c

\* Every part of a sound tree is sound.
LEMMA SoundPlaces ==
  ASSUME NEW v, IsTree(v), NEW how, Sound(v, how)
  PROVE  \A p \in Nodes(v) : Sound(At(v, p), how)
<1> DEFINE T == {p \in Nodes(v) : Sound(At(v, p), how)}
<1>1. <<>> \in T
  BY PlacesOfATree, AtTheTop
<1>2. ASSUME NEW p \in Nodes(v), p \in T, IsContainer(At(v, p)), NEW i \in DOMAIN At(v, p).items
      PROVE  Append(p, i) \in T
  <2> DEFINE w == At(v, p)
  <2>1. i \in 1..Len(w.items) /\ Append(p, i) \in Nodes(v) /\ At(v, Append(p, i)) = Child(w, i)
    BY <1>2, TreeStep
  <2>2. Sound(w, how) /\ IsContainer(w)
    BY <1>2
  <2> HIDE DEF w
  <2>3. Sound(Child(w, i), how)
    BY <2>1, <2>2, SoundInside
  <2> QED BY <2>1, <2>3
<1>3. Nodes(v) \subseteq T
  <2> HIDE DEF T
  <2> QED BY <1>1, <1>2, FromAbove
<1> QED BY <1>3

\* A tree is sound if what is at its places is.
LEMMA SoundFromPlaces ==
  ASSUME NEW v, IsTree(v), NEW how, \A p \in Nodes(v) : ~IsContainer(At(v, p)) => Sound(At(v, p), how)
  PROVE  Sound(v, how)
<1> DEFINE T == {p \in Nodes(v) : Sound(At(v, p), how)}
<1>1. ASSUME NEW p \in Nodes(v), IsContainer(At(v, p)) => \A i \in DOMAIN At(v, p).items : Append(p, i) \in T
      PROVE  p \in T
  <2>1. CASE ~IsContainer(At(v, p))
    BY <2>1
  <2>2. CASE IsContainer(At(v, p))
    <3> DEFINE w == At(v, p)
    <3>1. \A i \in 1..Len(w.items) : Sound(Child(w, i), how)
      <4>1. ASSUME NEW i \in 1..Len(w.items) PROVE Sound(Child(w, i), how)
        <5>1. i \in DOMAIN w.items /\ At(v, Append(p, i)) = Child(w, i)
          BY <2>2, TreeStep
        <5>2. Append(p, i) \in T
          BY <1>1, <2>2, <5>1
        <5> QED BY <5>1, <5>2
      <4> QED BY <4>1
    <3>2. Proper(w) /\ IsContainer(w)
      BY <2>2 DEF IsTree, Proper
    <3> HIDE DEF w
    <3>3. Sound(w, how)
      BY <3>1, <3>2, SoundAround
    <3> QED BY <3>3 DEF w
  <2> QED BY <2>1, <2>2
<1>2. Nodes(v) \subseteq T
  <2> HIDE DEF T
  <2> QED BY <1>1, FromBelow
<1>3. <<>> \in T
  BY <1>2, PlacesOfATree
<1> QED BY <1>3, AtTheTop

\* What the walk makes of a leaf of a genuine tree.
LEMMA OnLeafSound ==
  ASSUME NEW meta, NEW v, NEW p \in Places(v), Sound(At(v, p), "genuine"), NEW cipher,
         cipher = Decrypting \/ \E s, n : cipher = Encrypting(s, n),
         NEW x, x = OnLeaf(meta, v, p, cipher).value
  PROVE  /\ Sound(x, "genuine") /\ ~IsContainer(x) /\ x # Null
         /\ IsComment(At(v, p)) /\ ~IsComment(x) => Sound(Comment(x), "genuine")
<1> DEFINE a == At(v, p)
           t == Path(v, p)
           should == ShouldBeEncrypted(meta, v, p)
           b == Blank
<1>0. ~IsContainer(a) /\ a # Null /\ Sound(a, "genuine")
  BY DEF Places
<1>1. /\ ~IsContainer(b) /\ b # Null /\ b.kind # "sealed" /\ ~IsComment(b)
      /\ Comment(b).kind # "sealed" /\ ~IsContainer(Comment(b)) /\ Comment(b).string = b
  BY DEF Blank, Leaf, IsContainer, Null, IsComment, Comment
<1>2. Sound(b, "genuine") /\ Sound(Comment(b), "genuine")
  BY <1>1, SoundLeaf
<1>3. ASSUME NEW s, NEW n, cipher = Encrypting(s, n)
      PROVE  /\ Sound(x, "genuine") /\ ~IsContainer(x) /\ x # Null
             /\ IsComment(a) /\ ~IsComment(x) => Sound(Comment(x), "genuine")
  <2> DEFINE iv == IVFor(cipher, a, t, p)
             c == Sealed(a, t, iv)
  <2>1. x = IF should THEN IF Empty(a) THEN b ELSE c ELSE a
    BY <1>3 DEF OnLeaf, EncryptLeaf, CipherEncrypt, Encrypting
  <2>2. c = Sealed(a, t, iv) /\ ~IsContainer(c) /\ c # Null
    BY DEF Sealed, IsContainer, Null
  <2> HIDE DEF a, b, c, t, iv, should
  <2>3. Sound(c, "genuine") /\ (IsComment(a) => Sound(Comment(c), "genuine"))
    BY <1>0, <2>2, SoundCiphertext
  <2> QED BY <1>0, <1>1, <1>2, <2>1, <2>2, <2>3
<1>4. ASSUME cipher = Decrypting
      PROVE  /\ Sound(x, "genuine") /\ ~IsContainer(x) /\ x # Null
             /\ IsComment(a) /\ ~IsComment(x) => Sound(Comment(x), "genuine")
  <2> DEFINE s == IF IsComment(a) THEN a.string ELSE a
  <2>1. \/ x = a
        \/ Opens(s, t) /\ x = CipherDecrypt(s)
    BY <1>4 DEF OnLeaf, DecryptLeaf, Decrypting
  <2>2. \/ x = a
        \/ x = b
        \/ s.kind = "sealed" /\ x = s.of
    BY <2>1 DEF Opens, CipherDecrypt
  <2>3. s.kind = "sealed" => Genuine(s) /\ (IsComment(a) => IsComment(s.of))
    BY <1>0, GenuineInside
  <2> HIDE DEF a, b, s
  <2> QED BY <1>0, <1>1, <1>2, <2>2, <2>3 DEF Genuine
<1> QED BY <1>3, <1>4

\* The walk over a genuine tree gives a genuine tree, with the same places.
LEMMA WalkSound ==
  ASSUME NEW meta, NEW v, IsTree(v), Sound(v, "genuine"), NEW cipher,
         cipher = Decrypting \/ \E s, n : cipher = Encrypting(s, n),
         NEW c, c = Walk(meta, v, cipher).value
  PROVE  /\ IsTree(c) /\ Nodes(c) = Nodes(v) /\ Sound(c, "genuine")
         /\ \A p \in Places(v) : ~IsContainer(OnLeaf(meta, v, p, cipher).value)
         /\ \A p \in Places(v) : OnLeaf(meta, v, p, cipher).value # Null
<1> DEFINE new == NewValues(meta, v, cipher)
<1>0. c = new[<<>>]
  BY DEF Walk
<1>1. ASSUME NEW p \in Places(v), NEW x, x = OnLeaf(meta, v, p, cipher).value
      PROVE  /\ Sound(x, "genuine") /\ ~IsContainer(x) /\ x # Null
             /\ IsComment(At(v, p)) /\ ~IsComment(x) => Sound(Comment(x), "genuine")
  <2>1. Sound(At(v, p), "genuine")
    BY SoundPlaces DEF Places
  <2> QED BY <1>1, <2>1, OnLeafSound
<1>2. \A p \in Places(v) : ~IsContainer(OnLeaf(meta, v, p, cipher).value)
  BY <1>1
<1>3. /\ Nodes(c) = Nodes(v) /\ IsTree(c)
      /\ \A p \in Nodes(v) :
           /\ At(c, p) = Standing(v, new, p)
           /\ IsContainer(At(v, p)) => At(c, p) = Rebuilt(At(v, p), p, new)
           /\ ~IsContainer(At(v, p)) => ~IsContainer(At(c, p))
           /\ At(v, p) = Null => At(c, p) = Null
      /\ \A p \in Places(v) : new[p] = OnLeaf(meta, v, p, cipher).value
  BY <1>0, <1>2, NewTree
<1> HIDE DEF new
<1>4. ASSUME NEW p \in Nodes(v), ~IsContainer(At(c, p)) PROVE Sound(At(c, p), "genuine")
  <2>1. ~IsContainer(At(v, p))
    BY <1>3, <1>4, ContainerRebuilt DEF IsContainer
  <2>2. CASE At(v, p) = Null
    <3>1. At(c, p) = Null
      BY <1>3, <2>2
    <3> QED BY <1>4, <3>1, SoundLeaf DEF Null, IsComment
  <2>3. CASE At(v, p) # Null
    <3> DEFINE x == new[p]
    <3>1. p \in Places(v) /\ x = OnLeaf(meta, v, p, cipher).value
      BY <1>3, <2>1, <2>3 DEF Places
    <3>2. At(c, p) = IF InRemark(v, p) /\ ~IsComment(x) THEN Comment(x) ELSE x
      BY <1>3 DEF Standing
    <3>3. InRemark(v, p) => IsComment(At(v, p))
      BY RemarksAreComments
    <3> HIDE DEF x
    <3> QED BY <1>1, <3>1, <3>2, <3>3
  <2> QED BY <2>2, <2>3
<1>5. Sound(c, "genuine")
  BY <1>3, <1>4, SoundFromPlaces
<1> QED BY <1>1, <1>2, <1>3, <1>5

-----------------------------------------------------------------------------
(***************************************************************************)
(* What the formats make of a tree                                         *)
(***************************************************************************)
\* An item of a map whose value, or whose comment, is sound.
GoodItem(x, how) ==
  /\ x = Item(x.key, x.value) /\ (IsRemark(x) \/ x.key = Key(x.key.name))
  /\ Sound(IF IsRemark(x) THEN x.key ELSE x.value, how)

GoodItems(s, how) == s \in Seq(ToSet(s)) /\ \A x \in ToSet(s) : GoodItem(x, how)

\* A sequence has its elements.
LEMMA ElementsOf ==
  ASSUME NEW S, NEW s \in Seq(S)
  PROVE  /\ s \in Seq(ToSet(s)) /\ ToSet(s) \subseteq S /\ Len(s) \in Nat /\ DOMAIN s = 1..Len(s)
         /\ \A i \in 1..Len(s) : s[i] \in ToSet(s)
<1>1. Len(s) \in Nat /\ DOMAIN s = 1..Len(s) /\ s = [i \in 1..Len(s) |-> s[i]]
  OBVIOUS
<1> DEFINE n == Len(s)
<1>2. n \in Nat /\ s = [i \in 1..n |-> s[i]]
  BY <1>1
<1> HIDE DEF n
<1>3. s \in Seq(ToSet(s))
  BY <1>2, SequenceOfItsOwn
<1>4. \A i \in 1..Len(s) : s[i] \in S
  OBVIOUS
<1>5. ToSet(s) \subseteq S /\ \A i \in 1..Len(s) : s[i] \in ToSet(s)
  BY <1>1, <1>4 DEF ToSet
<1> QED BY <1>1, <1>3, <1>5

LEMMA GoodByElements ==
  ASSUME NEW how, NEW S, \A x \in S : GoodItem(x, how), NEW s \in Seq(S)
  PROVE  GoodItems(s, how)
BY ElementsOf DEF GoodItems

\* The items of a sound map are, and a map of such items is sound.
LEMMA ItemsOfMap ==
  ASSUME NEW w, NEW how, Sound(w, how), w.kind = "map"
  PROVE  GoodItems(w.items, how)
<1> DEFINE s == w.items
<1>1. /\ Proper(w) /\ IsContainer(w) /\ s \in Seq(ToSet(s)) /\ DOMAIN s = 1..Len(s)
      /\ \A i \in 1..Len(s) : Sound(Child(w, i), how)
  BY SoundInside DEF IsContainer
<1>2. ASSUME NEW x \in ToSet(s) PROVE GoodItem(x, how)
  <2>1. PICK i \in 1..Len(s) : x = s[i]
    BY <1>1 DEF ToSet
  <2>2. x = Item(x.key, x.value) /\ (IsRemark(x) \/ x.key = Key(x.key.name))
    BY <1>1, <2>1 DEF Proper
  <2>3. Child(w, i) = IF IsRemark(x) THEN x.key ELSE x.value
    BY <2>1 DEF Child
  <2>4. Sound(Child(w, i), how)
    BY <1>1
  <2> QED BY <2>2, <2>3, <2>4 DEF GoodItem
<1> QED BY <1>1, <1>2 DEF GoodItems

LEMMA MapOfItems ==
  ASSUME NEW s, NEW how, GoodItems(s, how), NEW u, u = MapOf(s)
  PROVE  Sound(u, how) /\ u.kind = "map" /\ u.items = s
<1>1. u = [kind |-> "map", items |-> s] /\ u.kind = "map" /\ u.items = s /\ IsContainer(u)
  BY DEF MapOf, IsContainer
<1>2. s \in Seq(ToSet(s)) /\ DOMAIN s = 1..Len(s) /\ \A i \in 1..Len(s) : s[i] \in ToSet(s)
  BY ElementsOf DEF GoodItems
<1>3. \A i \in 1..Len(s) : GoodItem(s[i], how)
  BY <1>2 DEF GoodItems
<1>4. Proper(u)
  <2>1. u = [kind |-> u.kind, items |-> u.items]
    BY <1>1
  <2> QED BY <1>1, <1>2, <1>3, <2>1 DEF Proper, GoodItem
<1>5. ASSUME NEW i \in 1..Len(s) PROVE Sound(Child(u, i), how)
  <2>1. Child(u, i) = IF IsRemark(s[i]) THEN s[i].key ELSE s[i].value
    BY <1>1 DEF Child
  <2>2. GoodItem(s[i], how)
    BY <1>3
  <2> QED BY <2>1, <2>2 DEF GoodItem
<1> QED BY <1>1, <1>4, <1>5, SoundAround

LEMMA ListOfElements ==
  ASSUME NEW s, NEW how, NEW n \in Nat, s = [i \in 1..n |-> s[i]], \A i \in 1..n : Sound(s[i], how), NEW u, u = ListOf(s)
  PROVE  Sound(u, how)
<1>1. u = [kind |-> "list", items |-> s] /\ u.kind = "list" /\ u.items = s /\ IsContainer(u)
  BY DEF ListOf, IsContainer
<1>2. s \in Seq(ToSet(s)) /\ Len(s) = n
  BY SequenceOfItsOwn
<1>3. Proper(u)
  BY <1>1, <1>2 DEF Proper
<1>4. ASSUME NEW i \in 1..Len(s) PROVE Sound(Child(u, i), how)
  BY <1>1, <1>2 DEF Child
<1> QED BY <1>1, <1>3, <1>4, SoundAround

\* What a sequence of such items becomes has only such items.
LEMMA GoodJoined ==
  ASSUME NEW how, NEW a, GoodItems(a, how), NEW b, GoodItems(b, how)
  PROVE  GoodItems(a \o b, how)
<1> DEFINE S == ToSet(a) \cup ToSet(b)
<1>1. a \in Seq(ToSet(a)) /\ b \in Seq(ToSet(b)) /\ \A x \in S : GoodItem(x, how)
  BY DEF GoodItems
<1>2. a \in Seq(S) /\ b \in Seq(S)
  BY <1>1
<1> HIDE DEF S
<1>3. a \o b \in Seq(S)
  BY <1>2
<1> QED BY <1>1, <1>3, GoodByElements

LEMMA GoodAppended ==
  ASSUME NEW how, NEW a, GoodItems(a, how), NEW x, GoodItem(x, how)
  PROVE  GoodItems(Append(a, x), how)
<1> DEFINE S == ToSet(a) \cup {x}
<1>1. a \in Seq(ToSet(a)) /\ \A y \in S : GoodItem(y, how)
  BY DEF GoodItems
<1>2. a \in Seq(S) /\ x \in S
  BY <1>1
<1> HIDE DEF S
<1>3. Append(a, x) \in Seq(S)
  BY <1>2
<1> QED BY <1>1, <1>3, GoodByElements

LEMMA GoodNone ==
  ASSUME NEW how
  PROVE  GoodItems(<<>>, how)
<1>1. <<>> \in Seq({})
  OBVIOUS
<1> QED BY <1>1, GoodByElements

LEMMA GoodOne ==
  ASSUME NEW how, NEW x, GoodItem(x, how)
  PROVE  GoodItems(<<x>>, how)
<1>1. <<x>> \in Seq({x})
  OBVIOUS
<1> QED BY <1>1, GoodByElements

LEMMA GoodTail ==
  ASSUME NEW how, NEW a, GoodItems(a, how), a # <<>>
  PROVE  GoodItems(Tail(a), how)
<1> DEFINE S == ToSet(a)
<1>1. a \in Seq(S) /\ \A y \in S : GoodItem(y, how)
  BY DEF GoodItems
<1> HIDE DEF S
<1>2. Tail(a) \in Seq(S)
  BY <1>1
<1> QED BY <1>1, <1>2, GoodByElements

LEMMA GoodFront ==
  ASSUME NEW how, NEW a, GoodItems(a, how)
  PROVE  GoodItems(Front(a), how)
<1> DEFINE S == ToSet(a)
           n == Len(a)
<1>1. a \in Seq(S) /\ n \in Nat /\ \A i \in 1..n : a[i] \in S
  BY ElementsOf DEF GoodItems
<1>2. \A y \in S : GoodItem(y, how)
  BY DEF GoodItems
<1>3. Front(a) = SubSeq(a, 1, n - 1)
  BY DEF Front
<1> HIDE DEF S, n
<1>4. SubSeq(a, 1, n - 1) \in Seq(S)
  BY <1>1, SubSeqProperties
<1> QED BY <1>2, <1>3, <1>4, GoodByElements

\* The items that a format keeps as they are.
LEMMA SoundItem ==
  ASSUME NEW how, NEW key, key = Key(key.name), NEW x, Sound(x, how)
  PROVE  GoodItem(Item(key, x), how) /\ ~IsRemark(Item(key, x))
<1>1. ~IsRemark(Item(key, x)) /\ Item(key, x).key = key /\ Item(key, x).value = x
  BY DEF IsRemark, IsComment, Item, Key
<1> QED BY <1>1 DEF GoodItem

\* The positions that json and pxf keep.
LEMMA KeptPositions ==
  ASSUME NEW w, w.items \in Seq(ToSet(w.items)), NEW n, n = Len(w.items)
  PROVE  Kept(w) \in Seq({i \in 1..n : ~IsComment(IF w.kind = "list" THEN w.items[i] ELSE w.items[i].key)})
<1> DEFINE of(i) == IF w.kind = "list" THEN w.items[i] ELSE w.items[i].key
           S == {i \in 1..n : ~IsComment(of(i))}
           lists == [i \in DOMAIN w.items |-> IF IsComment(of(i)) THEN <<>> ELSE <<i>>]
<1>1. n \in Nat /\ DOMAIN w.items = 1..n
  BY LenProperties
<1>2. ASSUME NEW i \in 1..n PROVE lists[i] \in Seq(S)
  <2>1. CASE IsComment(of(i))
    <3>1. lists[i] = <<>>
      BY <1>1, <2>1
    <3> HIDE DEF S, lists
    <3> QED BY <3>1
  <2>2. CASE ~IsComment(of(i))
    <3>1. lists[i] = <<i>> /\ i \in S
      BY <1>1, <2>2
    <3> HIDE DEF S, lists
    <3> QED BY <3>1
  <2> QED BY <2>1, <2>2
<1>3. lists = [i \in 1..n |-> lists[i]]
  BY <1>1
<1>4. Kept(w) = FlattenSeq(lists)
  BY DEF Kept
<1> HIDE DEF S, lists
<1>5. lists \in Seq(Seq(S))
  BY <1>1, <1>2, <1>3, SequenceOf
<1>6. FlattenSeq(lists) \in Seq(S)
  BY <1>5, Flattened
<1> QED BY <1>4, <1>6 DEF S

\* json: what becomes of a value is sound if what has become of its parts is (encodeTree).
LEMMA BareSound ==
  ASSUME NEW w, NEW how, Sound(w, how), NEW parts, IsContainer(w) => \A i \in 1..Len(w.items) : Sound(parts[i], how)
  PROVE  Sound(Bare(w, parts), how)
<1> DEFINE kept == Kept(w)
           n == Len(w.items)
           S == {i \in 1..n : ~IsComment(IF w.kind = "list" THEN w.items[i] ELSE w.items[i].key)}
<1>1. CASE ~IsContainer(w)
  <2>1. Bare(w, parts) = w
    BY <1>1 DEF Bare, IsContainer
  <2> QED BY <2>1
<1>2. ASSUME IsContainer(w)
      PROVE  kept \in Seq(S) /\ Len(kept) \in Nat /\ DOMAIN kept = 1..Len(kept) /\ \A j \in 1..Len(kept) : kept[j] \in S
  <2>1. w.items \in Seq(ToSet(w.items))
    BY <1>2, SoundInside
  <2>2. kept \in Seq(S)
    BY <2>1, KeptPositions
  <2> HIDE DEF kept, S
  <2> QED BY <2>2, ElementsOf
<1>3. CASE w.kind = "list"
  <2> DEFINE s == [j \in DOMAIN kept |-> parts[kept[j]]]
             k == Len(kept)
  <2>1. IsContainer(w)
    BY <1>3 DEF IsContainer
  <2>2. k \in Nat /\ DOMAIN kept = 1..k /\ \A j \in 1..k : kept[j] \in 1..n
    BY <1>2, <2>1
  <2> HIDE DEF kept, k, n
  <2>3. s = [j \in 1..k |-> s[j]] /\ \A j \in 1..k : s[j] = parts[kept[j]]
    BY <2>2
  <2>4. \A j \in 1..k : Sound(s[j], how)
    BY <2>1, <2>2, <2>3 DEF n
  <2>5. Bare(w, parts) = ListOf(s)
    BY <1>3 DEF Bare, kept
  <2> HIDE DEF s
  <2> QED BY <2>2, <2>3, <2>4, <2>5, ListOfElements
<1>4. CASE w.kind = "map"
  <2> DEFINE s == [j \in DOMAIN kept |-> Item(w.items[kept[j]].key, parts[kept[j]])]
             k == Len(kept)
             I == {Item(w.items[i].key, parts[i]) : i \in S}
  <2>1. IsContainer(w)
    BY <1>4 DEF IsContainer
  <2>2. k \in Nat /\ DOMAIN kept = 1..k /\ \A j \in 1..k : kept[j] \in S
    BY <1>2, <2>1
  <2>3. ASSUME NEW x \in I PROVE GoodItem(x, how)
    <3>1. PICK i \in 1..n : ~IsComment(w.items[i].key) /\ x = Item(w.items[i].key, parts[i])
      BY <1>4, <2>3
    <3>2. Sound(parts[i], how)
      BY <2>1, <3>1
    <3>3. w.items[i].key = Key(w.items[i].key.name)
      <4>1. Proper(w) /\ DOMAIN w.items = 1..n
        BY <2>1, SoundInside
      <4> QED BY <1>4, <2>1, <3>1, <4>1 DEF Proper, IsRemark
    <3> DEFINE key == w.items[i].key
               y == parts[i]
    <3>4. key = Key(key.name) /\ x = Item(key, y) /\ Sound(y, how)
      BY <3>1, <3>2, <3>3
    <3> HIDE DEF key, y
    <3> QED BY <3>4, SoundItem
  <2>4. \A j \in 1..k : s[j] \in I
    BY <2>2
  <2>5. s = [j \in 1..k |-> s[j]]
    BY <2>2
  <2>6. Bare(w, parts) = MapOf(s)
    BY <1>4 DEF Bare
  <2> HIDE DEF s, I, k
  <2>7. s \in Seq(I)
    BY <2>2, <2>4, <2>5, SequenceOf
  <2>8. GoodItems(s, how)
    BY <2>3, <2>7, GoodByElements
  <2> QED BY <2>6, <2>8, MapOfItems
<1> QED BY <1>1, <1>3, <1>4 DEF IsContainer

\* What Uncommented and Pxf give for the place p, from what they give below it.
BareOf(v, f, p) == Bare(At(v, p), [i \in DOMAIN At(v, p).items |-> f[Append(p, i)]])
PxfOf(v, f, p) == PxfValue(At(v, p), [i \in DOMAIN At(v, p).items |-> f[Append(p, i)]])

\* The function in Uncommented exists.
LEMMA BareStep ==
  ASSUME NEW v, IsTree(v)
  PROVE  \E h : Uncommented(v) = h[<<>>] /\ \A p \in Nodes(v) : h[p] = BareOf(v, h, p)
<1> DEFINE D(d) == {q \in Nodes(v) : Len(q) >= d}
           Of(f, q) == BareOf(v, f, q)
           SoFar(f, d) == f = [q \in D(d) |-> f[q]] /\ \A q \in D(d) : f[q] = Of(f, q)
           T == {d \in 0..MaxDepth : \E f : SoFar(f, d)}
<1>0. MaxDepth \in Nat /\ \A q \in Nodes(v) : Len(q) \in 0..MaxDepth
  BY TreeAssumption, PlacesOfATree
<1>1. ASSUME NEW f, NEW g, NEW q \in Nodes(v),
             IsContainer(At(v, q)) => \A i \in DOMAIN At(v, q).items : f[Append(q, i)] = g[Append(q, i)]
      PROVE  Of(f, q) = Of(g, q)
  <2> DEFINE F == [i \in DOMAIN At(v, q).items |-> f[Append(q, i)]]
             G == [i \in DOMAIN At(v, q).items |-> g[Append(q, i)]]
  <2>0. Of(f, q) = Bare(At(v, q), F) /\ Of(g, q) = Bare(At(v, q), G)
    BY DEF BareOf
  <2>1. CASE IsContainer(At(v, q))
    <3>1. F = G
      BY <1>1, <2>1
    <3> HIDE DEF F, G
    <3> QED BY <2>0, <3>1
  <2>2. CASE ~IsContainer(At(v, q))
    <3> HIDE DEF F, G
    <3> QED BY <2>0, <2>2 DEF Bare, IsContainer
  <2> QED BY <2>1, <2>2
<1> HIDE DEF Of
<1>2. MaxDepth \in T
  <2> DEFINE f == [q \in D(MaxDepth) |-> Of(<<>>, q)]
  <2>1. ASSUME NEW q \in D(MaxDepth) PROVE ~IsContainer(At(v, q))
    BY <1>0, <2>1 DEF IsTree
  <2>2. ASSUME NEW q \in D(MaxDepth) PROVE f[q] = Of(f, q)
    <3>1. f[q] = Of(<<>>, q)
      OBVIOUS
    <3> HIDE DEF f
    <3> QED BY <1>1, <2>1, <3>1
  <2>3. f = [q \in D(MaxDepth) |-> f[q]]
    OBVIOUS
  <2> HIDE DEF f, D
  <2> QED BY <1>0, <2>2, <2>3
<1>3. ASSUME NEW d \in 0..(MaxDepth - 1), d + 1 \in T PROVE d \in T
  <2>1. PICK f : SoFar(f, d + 1)
    BY <1>3
  <2> DEFINE g == [q \in D(d) |-> IF q \in D(d + 1) THEN f[q] ELSE Of(f, q)]
  <2>2. ASSUME NEW q \in D(d), IsContainer(At(v, q)), NEW i \in DOMAIN At(v, q).items
        PROVE  Append(q, i) \in D(d + 1) /\ Append(q, i) \in D(d)
    <3>1. Append(q, i) \in Nodes(v) /\ q \in Seq(Nat) /\ i \in Nat
      BY <2>2, PlacesOfATree
    <3>2. Len(Append(q, i)) = Len(q) + 1 /\ Len(q) \in Nat
      BY <3>1, OneStepMore
    <3> QED BY <1>0, <2>2, <3>1, <3>2
  <2>3. \A q \in D(d + 1) : q \in D(d)
    BY <1>0
  <2>4. ASSUME NEW q \in D(d) PROVE g[q] = Of(g, q)
    <3>1. g[q] = Of(f, q)
      BY <2>1
    <3>2. IsContainer(At(v, q)) => \A i \in DOMAIN At(v, q).items : f[Append(q, i)] = g[Append(q, i)]
      BY <2>2
    <3> HIDE DEF g
    <3> QED BY <1>1, <3>1, <3>2
  <2>5. g = [q \in D(d) |-> g[q]] /\ d \in 0..MaxDepth
    BY <1>0
  <2> HIDE DEF g, D
  <2> QED BY <2>4, <2>5
<1>4. 0 \in T
  <2> HIDE DEF T
  <2>1. 0..MaxDepth \subseteq T
    BY <1>0, <1>2, <1>3, CountingDown
  <2> QED BY <1>0, <2>1
<1> DEFINE For(f) == f = [q \in Nodes(v) |-> Of(f, q)]
<1>5. \E f : For(f)
  <2>1. D(0) = Nodes(v)
    BY <1>0
  <2>2. PICK f : SoFar(f, 0)
    BY <1>4
  <2>3. [q \in Nodes(v) |-> f[q]] = [q \in Nodes(v) |-> Of(f, q)]
    BY <2>1, <2>2
  <2> QED BY <2>1, <2>2, <2>3
<1> DEFINE h == CHOOSE f : For(f)
<1>6. Uncommented(v) = h[<<>>]
  BY DEF Uncommented, BareOf, Of
<1>7. For(h)
  <2> HIDE DEF For
  <2> QED BY <1>5
<1> HIDE DEF h
<1>8. h = [q \in Nodes(v) |-> Of(h, q)]
  BY <1>7
<1>9. \A p \in Nodes(v) : h[p] = Of(h, p)
  BY <1>8
<1> QED BY <1>6, <1>9 DEF Of

\* The function Pxf exists.
LEMMA PxfStep ==
  ASSUME NEW v, IsTree(v)
  PROVE  \E h : Pxf(v) = h /\ \A p \in Nodes(v) : h[p] = PxfOf(v, h, p)
<1> DEFINE D(d) == {q \in Nodes(v) : Len(q) >= d}
           Of(f, q) == PxfOf(v, f, q)
           SoFar(f, d) == f = [q \in D(d) |-> f[q]] /\ \A q \in D(d) : f[q] = Of(f, q)
           T == {d \in 0..MaxDepth : \E f : SoFar(f, d)}
<1>0. MaxDepth \in Nat /\ \A q \in Nodes(v) : Len(q) \in 0..MaxDepth
  BY TreeAssumption, PlacesOfATree
<1>1. ASSUME NEW f, NEW g, NEW q \in Nodes(v),
             IsContainer(At(v, q)) => \A i \in DOMAIN At(v, q).items : f[Append(q, i)] = g[Append(q, i)]
      PROVE  Of(f, q) = Of(g, q)
  <2> DEFINE F == [i \in DOMAIN At(v, q).items |-> f[Append(q, i)]]
             G == [i \in DOMAIN At(v, q).items |-> g[Append(q, i)]]
  <2>0. Of(f, q) = PxfValue(At(v, q), F) /\ Of(g, q) = PxfValue(At(v, q), G)
    BY DEF PxfOf
  <2>1. CASE IsContainer(At(v, q))
    <3>1. F = G
      BY <1>1, <2>1
    <3> HIDE DEF F, G
    <3> QED BY <2>0, <3>1
  <2>2. CASE ~IsContainer(At(v, q))
    <3> HIDE DEF F, G
    <3> QED BY <2>0, <2>2 DEF PxfValue, IsContainer
  <2> QED BY <2>1, <2>2
<1> HIDE DEF Of
<1>2. MaxDepth \in T
  <2> DEFINE f == [q \in D(MaxDepth) |-> Of(<<>>, q)]
  <2>1. ASSUME NEW q \in D(MaxDepth) PROVE ~IsContainer(At(v, q))
    BY <1>0, <2>1 DEF IsTree
  <2>2. ASSUME NEW q \in D(MaxDepth) PROVE f[q] = Of(f, q)
    <3>1. f[q] = Of(<<>>, q)
      OBVIOUS
    <3> HIDE DEF f
    <3> QED BY <1>1, <2>1, <3>1
  <2>3. f = [q \in D(MaxDepth) |-> f[q]]
    OBVIOUS
  <2> HIDE DEF f, D
  <2> QED BY <1>0, <2>2, <2>3
<1>3. ASSUME NEW d \in 0..(MaxDepth - 1), d + 1 \in T PROVE d \in T
  <2>1. PICK f : SoFar(f, d + 1)
    BY <1>3
  <2> DEFINE g == [q \in D(d) |-> IF q \in D(d + 1) THEN f[q] ELSE Of(f, q)]
  <2>2. ASSUME NEW q \in D(d), IsContainer(At(v, q)), NEW i \in DOMAIN At(v, q).items
        PROVE  Append(q, i) \in D(d + 1) /\ Append(q, i) \in D(d)
    <3>1. Append(q, i) \in Nodes(v) /\ q \in Seq(Nat) /\ i \in Nat
      BY <2>2, PlacesOfATree
    <3>2. Len(Append(q, i)) = Len(q) + 1 /\ Len(q) \in Nat
      BY <3>1, OneStepMore
    <3> QED BY <1>0, <2>2, <3>1, <3>2
  <2>3. \A q \in D(d + 1) : q \in D(d)
    BY <1>0
  <2>4. ASSUME NEW q \in D(d) PROVE g[q] = Of(g, q)
    <3>1. g[q] = Of(f, q)
      BY <2>1
    <3>2. IsContainer(At(v, q)) => \A i \in DOMAIN At(v, q).items : f[Append(q, i)] = g[Append(q, i)]
      BY <2>2
    <3> HIDE DEF g
    <3> QED BY <1>1, <3>1, <3>2
  <2>5. g = [q \in D(d) |-> g[q]] /\ d \in 0..MaxDepth
    BY <1>0
  <2> HIDE DEF g, D
  <2> QED BY <2>4, <2>5
<1>4. 0 \in T
  <2> HIDE DEF T
  <2>1. 0..MaxDepth \subseteq T
    BY <1>0, <1>2, <1>3, CountingDown
  <2> QED BY <1>0, <2>1
<1> DEFINE For(f) == f = [q \in Nodes(v) |-> Of(f, q)]
<1>5. \E f : For(f)
  <2>1. D(0) = Nodes(v)
    BY <1>0
  <2>2. PICK f : SoFar(f, 0)
    BY <1>4
  <2>3. [q \in Nodes(v) |-> f[q]] = [q \in Nodes(v) |-> Of(f, q)]
    BY <2>1, <2>2
  <2> QED BY <2>1, <2>2, <2>3
<1> DEFINE h == CHOOSE f : For(f)
<1>6. Pxf(v) = h
  BY DEF Pxf, PxfOf, Of
<1>7. For(h)
  <2> HIDE DEF For
  <2> QED BY <1>5
<1> HIDE DEF h
<1>8. h = [q \in Nodes(v) |-> Of(h, q)]
  BY <1>7
<1>9. \A p \in Nodes(v) : h[p] = Of(h, p)
  BY <1>8
<1> QED BY <1>6, <1>9 DEF Of

\* json keeps a document sound.
LEMMA UncommentedSound ==
  ASSUME NEW v, IsTree(v), NEW how, Sound(v, how), v.kind = "map"
  PROVE  Sound(Uncommented(v), how) /\ Uncommented(v).kind = "map"
<1>1. PICK h : Uncommented(v) = h[<<>>] /\ \A p \in Nodes(v) : h[p] = BareOf(v, h, p)
  BY BareStep
<1> DEFINE T == {p \in Nodes(v) : Sound(h[p], how)}
<1>2. ASSUME NEW p \in Nodes(v), IsContainer(At(v, p)) => \A i \in DOMAIN At(v, p).items : Append(p, i) \in T
      PROVE  p \in T
  <2> DEFINE w == At(v, p)
             parts == [i \in DOMAIN At(v, p).items |-> h[Append(p, i)]]
             n == Len(w.items)
  <2>1. h[p] = Bare(w, parts) /\ Sound(w, how)
    BY <1>1, SoundPlaces DEF BareOf
  <2>2. ASSUME IsContainer(w), NEW i \in 1..Len(w.items) PROVE Sound(parts[i], how)
    <3>1. i \in DOMAIN w.items
      BY <2>2, TreeStep
    <3>2. Append(p, i) \in T /\ parts[i] = h[Append(p, i)]
      BY <1>2, <2>2, <3>1
    <3> QED BY <3>2
  <2> HIDE DEF w, parts
  <2>3. Sound(Bare(w, parts), how)
    BY <2>1, <2>2, BareSound
  <2> QED BY <2>1, <2>3
<1>3. Nodes(v) \subseteq T
  <2> HIDE DEF T
  <2> QED BY <1>2, FromBelow
<1>4. <<>> \in Nodes(v) /\ At(v, <<>>) = v
  BY PlacesOfATree, AtTheTop
<1>5. Uncommented(v).kind = "map"
  <2> DEFINE parts == [i \in DOMAIN v.items |-> h[Append(<<>>, i)]]
  <2>1. Uncommented(v) = Bare(v, parts)
    BY <1>1, <1>4 DEF BareOf
  <2> HIDE DEF parts
  <2>2. Bare(v, parts).kind = "map"
    BY DEF Bare, MapOf
  <2> QED BY <2>1, <2>2
<1> QED BY <1>1, <1>3, <1>4, <1>5

\* yaml: the comments that a container begins with are some of its items.
LEMMA BeginningBounds ==
  ASSUME NEW w, w.items \in Seq(ToSet(w.items)), NEW n, n = Len(w.items)
  PROVE  Beginning(w) \in 0..n
<1> DEFINE kept == Kept(w)
           S == {i \in 1..n : ~IsComment(IF w.kind = "list" THEN w.items[i] ELSE w.items[i].key)}
<1>1. n \in Nat
  BY LenProperties
<1>2. kept \in Seq(S) /\ S \subseteq 1..n
  BY KeptPositions
<1>3. Beginning(w) = IF kept = <<>> THEN n ELSE kept[1] - 1
  BY DEF Beginning
<1> HIDE DEF kept, S
<1>4. CASE kept = <<>>
  BY <1>1, <1>3, <1>4
<1>5. CASE kept # <<>>
  <2>1. kept[1] \in S
    BY <1>2, <1>5
  <2>2. kept[1] \in 1..n
    BY <1>2, <2>1
  <2> DEFINE first == kept[1]
  <2>3. first \in 1..n /\ Beginning(w) = first - 1
    BY <1>3, <1>5, <2>2
  <2> HIDE DEF first
  <2> QED BY <1>1, <2>3
<1> QED BY <1>4, <1>5

\* What is left of a sound container without some of its first items.
LEMMA RestSound ==
  ASSUME NEW m, NEW how, Sound(m, how), IsContainer(m), NEW b \in Nat,
         NEW u, u = [m EXCEPT !.items = SubSeq(@, b + 1, Len(@))]
  PROVE  Sound(u, how) /\ u.kind = m.kind
<1> DEFINE a == m.items
           n == Len(a)
           s == SubSeq(a, b + 1, n)
           S == ToSet(a)
<1>1. /\ Proper(m) /\ a \in Seq(S) /\ n \in Nat /\ DOMAIN a = 1..n
      /\ \A i \in 1..n : Sound(Child(m, i), how)
  BY SoundInside
<1>2. m = [kind |-> m.kind, items |-> a]
  BY <1>1 DEF Proper
<1>3. u = [kind |-> m.kind, items |-> s]
  BY <1>2
<1>4. u.kind = m.kind /\ u.items = s /\ u = [kind |-> u.kind, items |-> u.items] /\ IsContainer(u)
  BY <1>3 DEF IsContainer
<1>5. \A i \in (b + 1)..n : a[i] \in S
  BY <1>1 DEF ToSet
<1> HIDE DEF S
<1>6. /\ s \in Seq(S) /\ \A i \in 1..Len(s) : i \in Nat /\ b + i \in 1..n /\ s[i] = a[b + i]
      /\ DOMAIN s = 1..Len(s)
  <2>1. /\ s \in Seq(S)
        /\ Len(s) = IF b + 1 <= n THEN n - (b + 1) + 1 ELSE 0
        /\ \A i \in 1..(n - (b + 1) + 1) : s[i] = a[(b + 1) + i - 1]
    BY <1>1, <1>5, SubSeqProperties
  <2>2. Len(s) \in Nat /\ DOMAIN s = 1..Len(s)
    BY <2>1
  <2> HIDE DEF s, a, n
  <2>3. ASSUME NEW i \in 1..Len(s) PROVE i \in Nat /\ b + i \in 1..n /\ s[i] = a[b + i]
    <3> DEFINE k == Len(s)
    <3>0. n \in Nat /\ i \in 1..k /\ k = IF b + 1 <= n THEN n - (b + 1) + 1 ELSE 0
      BY <1>1, <2>1
    <3> HIDE DEF k
    <3>1. i \in 1..(n - (b + 1) + 1) /\ (b + 1) + i - 1 = b + i /\ b + i \in 1..n /\ i \in Nat
      BY <3>0
    <3>2. s[i] = a[(b + 1) + i - 1]
      BY <2>1, <3>1
    <3> QED BY <3>1, <3>2
  <2> QED BY <2>1, <2>2, <2>3
<1>7. s \in Seq(ToSet(s))
  BY <1>6, ElementsOf
<1> HIDE DEF s
<1>8. Proper(u)
  <2>1. ASSUME u.kind = "map", NEW i \in DOMAIN u.items
        PROVE  /\ u.items[i] = Item(u.items[i].key, u.items[i].value)
               /\ IsRemark(u.items[i]) \/ u.items[i].key = Key(u.items[i].key.name)
    <3>1. b + i \in DOMAIN a /\ u.items[i] = a[b + i] /\ m.kind = "map"
      BY <1>1, <1>4, <1>6, <2>1
    <3> QED BY <1>1, <3>1 DEF Proper
  <2> QED BY <1>4, <1>7, <2>1 DEF Proper
<1>9. ASSUME NEW i \in 1..Len(u.items) PROVE Sound(Child(u, i), how)
  <2>1. b + i \in 1..n /\ u.items[i] = m.items[b + i] /\ u.kind = m.kind
    BY <1>4, <1>6, <1>9
  <2>2. Child(u, i) = Child(m, b + i)
    BY <1>4, <2>1 DEF Child, IsContainer
  <2> QED BY <1>1, <2>1, <2>2
<1> QED BY <1>4, <1>8, <1>9, SoundAround

\* What has become of a value.
YamlPart(e, m, how) == Sound(m, how) /\ m.kind = e.kind

\* What a list has for an element is sound.
LEMMA YamlElementsSound ==
  ASSUME NEW e, NEW how, Sound(e, how), NEW m, YamlPart(e, m, how), NEW s, s = YamlElements(e, m)
  PROVE  s \in Seq(ToSet(s)) /\ \A x \in ToSet(s) : Sound(x, how)
<1>1. CASE ~IsContainer(e)
  <2>1. s = <<m>>
    BY <1>1 DEF YamlElements
  <2>2. s \in Seq({m}) /\ Sound(m, how)
    BY <2>1 DEF YamlPart
  <2> QED BY <2>2, ElementsOf
<1>2. CASE IsContainer(e)
  <2> DEFINE b == Beginning(e)
             n == Len(e.items)
             c == [j \in 1..b |-> Child(e, j)]
             u == [m EXCEPT !.items = SubSeq(@, b + 1, Len(@))]
             C == {Child(e, j) : j \in 1..b}
             S == C \cup {u}
  <2>1. e.items \in Seq(ToSet(e.items)) /\ n \in Nat /\ \A i \in 1..n : Sound(Child(e, i), how)
    BY <1>2, SoundInside
  <2>2. b \in 0..n
    BY <2>1, BeginningBounds
  <2>3. b \in Nat /\ \A x \in C : Sound(x, how)
    BY <2>1, <2>2
  <2>4. s = c \o <<u>>
    BY <1>2 DEF YamlElements
  <2>5. c = [j \in 1..b |-> c[j]] /\ \A j \in 1..b : c[j] \in C
    OBVIOUS
  <2> HIDE DEF b, n
  <2>6. Sound(u, how)
    <3>1. Sound(m, how) /\ IsContainer(m)
      BY <1>2 DEF YamlPart, IsContainer
    <3> QED BY <2>3, <3>1, RestSound
  <2> HIDE DEF u, C, c
  <2>7. c \in Seq(C)
    BY <2>3, <2>5, SequenceOf
  <2>8. s \in Seq(S)
    BY <2>4, <2>7
  <2>9. \A x \in S : Sound(x, how)
    BY <2>3, <2>6
  <2> HIDE DEF S
  <2> QED BY <2>8, <2>9, ElementsOf
<1> QED BY <1>1, <1>2

\* What becomes of a value is sound if what has become of its parts is (appendSequence,
\* appendTreeBranch and nodeToTreeValue).
LEMMA YamlValueSound ==
  ASSUME NEW w, NEW how, Sound(w, how), NEW parts,
         IsContainer(w) => \A i \in 1..Len(w.items) : YamlPart(Child(w, i), parts[i], how)
  PROVE  YamlPart(w, YamlValue(w, parts), how)
<1> DEFINE a == w.items
           n == Len(a)
<1>1. CASE ~IsContainer(w)
  <2>1. YamlValue(w, parts) = w
    BY <1>1 DEF YamlValue, IsContainer
  <2> QED BY <2>1 DEF YamlPart
<1>2. CASE w.kind = "map"
  <2> DEFINE line(i) == IF IsRemark(a[i]) THEN a[i] ELSE Item(a[i].key, parts[i])
             s == [i \in DOMAIN a |-> line(i)]
             I == {line(i) : i \in 1..n}
             u == MapOf(s)
  <2>1. IsContainer(w)
    BY <1>2 DEF IsContainer
  <2>2. GoodItems(a, how) /\ n \in Nat /\ DOMAIN a = 1..n /\ \A i \in 1..n : a[i] \in ToSet(a)
    BY <1>2, ItemsOfMap, ElementsOf DEF GoodItems
  <2>3. ASSUME NEW i \in 1..n PROVE GoodItem(line(i), how)
    <3>1. GoodItem(a[i], how)
      BY <2>2 DEF GoodItems
    <3>2. CASE IsRemark(a[i])
      BY <3>1, <3>2
    <3>3. CASE ~IsRemark(a[i])
      <4> DEFINE key == a[i].key
                 y == parts[i]
      <4>1. key = Key(key.name) /\ line(i) = Item(key, y)
        BY <3>1, <3>3 DEF GoodItem
      <4>2. Sound(y, how)
        BY <2>1 DEF YamlPart
      <4> HIDE DEF key, y, line
      <4> QED BY <4>1, <4>2, SoundItem
    <3> QED BY <3>2, <3>3
  <2>4. s = [i \in 1..n |-> s[i]] /\ \A i \in 1..n : s[i] \in I
    BY <2>2
  <2>5. \A x \in I : GoodItem(x, how)
    BY <2>3
  <2>6. YamlValue(w, parts) = u
    BY <1>2 DEF YamlValue
  <2> HIDE DEF s, I, n
  <2>7. s \in Seq(I)
    BY <2>2, <2>4, SequenceOf
  <2>8. GoodItems(s, how)
    BY <2>5, <2>7, GoodByElements
  <2>9. Sound(u, how) /\ u.kind = "map"
    BY <2>8, MapOfItems
  <2> HIDE DEF u
  <2> QED BY <1>2, <2>6, <2>9 DEF YamlPart
<1>3. CASE w.kind = "list"
  <2> DEFINE of(i) == YamlElements(a[i], parts[i])
             lists == [i \in DOMAIN a |-> of(i)]
             S == UNION {ToSet(of(i)) : i \in 1..n}
             f == FlattenSeq(lists)
             u == ListOf(f)
  <2>1. IsContainer(w)
    BY <1>3 DEF IsContainer
  <2>2. n \in Nat /\ DOMAIN a = 1..n /\ \A i \in 1..n : Sound(Child(w, i), how)
    BY <2>1, SoundInside
  <2>3. ASSUME NEW i \in 1..n
        PROVE  of(i) \in Seq(ToSet(of(i))) /\ \A x \in ToSet(of(i)) : Sound(x, how)
    <3> DEFINE e == a[i]
               m == parts[i]
               t == of(i)
    <3>1. Sound(e, how) /\ YamlPart(e, m, how) /\ t = YamlElements(e, m)
      BY <1>3, <2>1, <2>2 DEF Child
    <3> HIDE DEF e, m, t
    <3>2. t \in Seq(ToSet(t)) /\ \A x \in ToSet(t) : Sound(x, how)
      BY <3>1, YamlElementsSound
    <3> QED BY <3>2 DEF t
  <2>4. YamlValue(w, parts) = u /\ u.kind = "list"
    BY <1>3 DEF YamlValue, ListOf
  <2>5. lists = [i \in 1..n |-> lists[i]] /\ \A i \in 1..n : lists[i] = of(i)
    BY <2>2
  <2>6. \A x \in S : Sound(x, how)
    BY <2>3
  <2>7. \A i \in 1..n : of(i) \in Seq(S)
    <3> TAKE i \in 1..n
    <3>1. of(i) \in Seq(ToSet(of(i))) /\ ToSet(of(i)) \subseteq S
      BY <2>3
    <3> HIDE DEF of, S
    <3> QED BY <3>1
  <2> HIDE DEF of, lists, S, n
  <2>8. lists \in Seq(Seq(S))
    <3>1. \A i \in 1..n : lists[i] \in Seq(S)
      BY <2>5, <2>7
    <3> QED BY <2>2, <2>5, <3>1, SequenceOf
  <2>9. f \in Seq(S)
    BY <2>8, Flattened
  <2> HIDE DEF f
  <2> DEFINE k == Len(f)
  <2>10. k \in Nat /\ f = [i \in 1..k |-> f[i]] /\ \A i \in 1..k : f[i] \in S
    BY <2>9
  <2> HIDE DEF k
  <2>11. Sound(u, how)
    BY <2>6, <2>10, ListOfElements
  <2> HIDE DEF u
  <2> QED BY <1>3, <2>4, <2>11 DEF YamlPart
<1> QED BY <1>1, <1>2, <1>3 DEF IsContainer

YamlOf(v, f, p) == YamlValue(At(v, p), [i \in DOMAIN At(v, p).items |-> f[Append(p, i)]])

\* The function in Yaml exists.
LEMMA YamlStep ==
  ASSUME NEW v, IsTree(v)
  PROVE  \E h : Yaml(v) = h[<<>>] /\ \A p \in Nodes(v) : h[p] = YamlOf(v, h, p)
<1> DEFINE D(d) == {q \in Nodes(v) : Len(q) >= d}
           Of(f, q) == YamlOf(v, f, q)
           SoFar(f, d) == f = [q \in D(d) |-> f[q]] /\ \A q \in D(d) : f[q] = Of(f, q)
           T == {d \in 0..MaxDepth : \E f : SoFar(f, d)}
<1>0. MaxDepth \in Nat /\ \A q \in Nodes(v) : Len(q) \in 0..MaxDepth
  BY TreeAssumption, PlacesOfATree
<1>1. ASSUME NEW f, NEW g, NEW q \in Nodes(v),
             IsContainer(At(v, q)) => \A i \in DOMAIN At(v, q).items : f[Append(q, i)] = g[Append(q, i)]
      PROVE  Of(f, q) = Of(g, q)
  <2> DEFINE F == [i \in DOMAIN At(v, q).items |-> f[Append(q, i)]]
             G == [i \in DOMAIN At(v, q).items |-> g[Append(q, i)]]
  <2>0. Of(f, q) = YamlValue(At(v, q), F) /\ Of(g, q) = YamlValue(At(v, q), G)
    BY DEF YamlOf
  <2>1. CASE IsContainer(At(v, q))
    <3>1. F = G
      BY <1>1, <2>1
    <3> HIDE DEF F, G
    <3> QED BY <2>0, <3>1
  <2>2. CASE ~IsContainer(At(v, q))
    <3> HIDE DEF F, G
    <3> QED BY <2>0, <2>2 DEF YamlValue, IsContainer
  <2> QED BY <2>1, <2>2
<1> HIDE DEF Of
<1>2. MaxDepth \in T
  <2> DEFINE f == [q \in D(MaxDepth) |-> Of(<<>>, q)]
  <2>1. ASSUME NEW q \in D(MaxDepth) PROVE ~IsContainer(At(v, q))
    BY <1>0, <2>1 DEF IsTree
  <2>2. ASSUME NEW q \in D(MaxDepth) PROVE f[q] = Of(f, q)
    <3>1. f[q] = Of(<<>>, q)
      OBVIOUS
    <3> HIDE DEF f
    <3> QED BY <1>1, <2>1, <3>1
  <2>3. f = [q \in D(MaxDepth) |-> f[q]]
    OBVIOUS
  <2> HIDE DEF f, D
  <2> QED BY <1>0, <2>2, <2>3
<1>3. ASSUME NEW d \in 0..(MaxDepth - 1), d + 1 \in T PROVE d \in T
  <2>1. PICK f : SoFar(f, d + 1)
    BY <1>3
  <2> DEFINE g == [q \in D(d) |-> IF q \in D(d + 1) THEN f[q] ELSE Of(f, q)]
  <2>2. ASSUME NEW q \in D(d), IsContainer(At(v, q)), NEW i \in DOMAIN At(v, q).items
        PROVE  Append(q, i) \in D(d + 1) /\ Append(q, i) \in D(d)
    <3>1. Append(q, i) \in Nodes(v) /\ q \in Seq(Nat) /\ i \in Nat
      BY <2>2, PlacesOfATree
    <3>2. Len(Append(q, i)) = Len(q) + 1 /\ Len(q) \in Nat
      BY <3>1, OneStepMore
    <3> QED BY <1>0, <2>2, <3>1, <3>2
  <2>3. \A q \in D(d + 1) : q \in D(d)
    BY <1>0
  <2>4. ASSUME NEW q \in D(d) PROVE g[q] = Of(g, q)
    <3>1. g[q] = Of(f, q)
      BY <2>1
    <3>2. IsContainer(At(v, q)) => \A i \in DOMAIN At(v, q).items : f[Append(q, i)] = g[Append(q, i)]
      BY <2>2
    <3> HIDE DEF g
    <3> QED BY <1>1, <3>1, <3>2
  <2>5. g = [q \in D(d) |-> g[q]] /\ d \in 0..MaxDepth
    BY <1>0
  <2> HIDE DEF g, D
  <2> QED BY <2>4, <2>5
<1>4. 0 \in T
  <2> HIDE DEF T
  <2>1. 0..MaxDepth \subseteq T
    BY <1>0, <1>2, <1>3, CountingDown
  <2> QED BY <1>0, <2>1
<1> DEFINE For(f) == f = [q \in Nodes(v) |-> Of(f, q)]
<1>5. \E f : For(f)
  <2>1. D(0) = Nodes(v)
    BY <1>0
  <2>2. PICK f : SoFar(f, 0)
    BY <1>4
  <2>3. [q \in Nodes(v) |-> f[q]] = [q \in Nodes(v) |-> Of(f, q)]
    BY <2>1, <2>2
  <2> QED BY <2>1, <2>2, <2>3
<1> DEFINE h == CHOOSE f : For(f)
<1>6. Yaml(v) = h[<<>>]
  BY DEF Yaml, YamlOf, Of
<1>7. For(h)
  <2> HIDE DEF For
  <2> QED BY <1>5
<1> HIDE DEF h
<1>8. h = [q \in Nodes(v) |-> Of(h, q)]
  BY <1>7
<1>9. \A p \in Nodes(v) : h[p] = Of(h, p)
  BY <1>8
<1> QED BY <1>6, <1>9 DEF Of

\* yaml keeps a document sound.
LEMMA YamlSound ==
  ASSUME NEW v, IsTree(v), NEW how, Sound(v, how), v.kind = "map"
  PROVE  Sound(Yaml(v), how) /\ Yaml(v).kind = "map"
<1>1. PICK h : Yaml(v) = h[<<>>] /\ \A p \in Nodes(v) : h[p] = YamlOf(v, h, p)
  BY YamlStep
<1> DEFINE T == {p \in Nodes(v) : YamlPart(At(v, p), h[p], how)}
<1>2. ASSUME NEW p \in Nodes(v), IsContainer(At(v, p)) => \A i \in DOMAIN At(v, p).items : Append(p, i) \in T
      PROVE  p \in T
  <2> DEFINE w == At(v, p)
             parts == [i \in DOMAIN At(v, p).items |-> h[Append(p, i)]]
  <2>1. h[p] = YamlValue(w, parts) /\ Sound(w, how)
    BY <1>1, SoundPlaces DEF YamlOf
  <2>2. ASSUME IsContainer(w), NEW i \in 1..Len(w.items) PROVE YamlPart(Child(w, i), parts[i], how)
    <3>1. i \in DOMAIN w.items /\ At(v, Append(p, i)) = Child(w, i)
      BY <2>2, TreeStep
    <3>2. Append(p, i) \in T /\ parts[i] = h[Append(p, i)]
      BY <1>2, <2>2, <3>1
    <3> QED BY <3>1, <3>2
  <2> HIDE DEF w, parts
  <2>3. YamlPart(w, YamlValue(w, parts), how)
    BY <2>1, <2>2, YamlValueSound
  <2> QED BY <2>1, <2>3 DEF w
<1>3. Nodes(v) \subseteq T
  <2> HIDE DEF T
  <2> QED BY <1>2, FromBelow
<1>4. <<>> \in Nodes(v) /\ At(v, <<>>) = v
  BY PlacesOfATree, AtTheTop
<1> QED BY <1>1, <1>3, <1>4 DEF YamlPart

\* A text that ValToString makes, and one that it leaves as it is.
LEMMA TextSound ==
  ASSUME NEW x, NEW how, Sound(x, how)
  PROVE  Sound(Text(x), how)
<1>1. ASSUME NEW t PROVE Sound(Leaf(t), how)
  <2>1. ~IsContainer(Leaf(t)) /\ Leaf(t).kind # "sealed" /\ ~IsComment(Leaf(t))
    BY DEF Leaf, IsContainer, IsComment
  <2> QED BY <2>1, SoundLeaf
<1>2. Text(x) \in {Leaf("true"), Leaf("<nil>"), Leaf("map[...]"), x}
  BY DEF Text
<1> QED BY <1>1, <1>2

\* dotenv keeps a document sound.
LEMMA DotenvSound ==
  ASSUME NEW v, NEW how, Sound(v, how), v.kind = "map"
  PROVE  Sound(DotenvLines(v), how) /\ DotenvLines(v).kind = "map"
<1> DEFINE a == v.items
           n == Len(a)
           line(x) == IF IsRemark(x) THEN x ELSE Item(x.key, Text(x.value))
           s == [i \in DOMAIN a |-> line(a[i])]
           S == {line(x) : x \in ToSet(a)}
<1>1. GoodItems(a, how)
  BY ItemsOfMap
<1>2. n \in Nat /\ DOMAIN a = 1..n /\ \A i \in 1..n : a[i] \in ToSet(a)
  BY <1>1, ElementsOf DEF GoodItems
<1>3. ASSUME NEW x \in ToSet(a) PROVE GoodItem(line(x), how)
  <2>1. GoodItem(x, how)
    BY <1>1 DEF GoodItems
  <2>2. CASE IsRemark(x)
    BY <2>1, <2>2
  <2>3. CASE ~IsRemark(x)
    <3> DEFINE key == x.key
               y == Text(x.value)
    <3>1. key = Key(key.name) /\ Sound(x.value, how)
      BY <2>1, <2>3 DEF GoodItem
    <3>2. Sound(y, how)
      BY <3>1, TextSound
    <3>3. line(x) = Item(key, y)
      BY <2>3
    <3> HIDE DEF key, y, line
    <3> QED BY <3>1, <3>2, <3>3, SoundItem
  <2> QED BY <2>2, <2>3
<1>4. s = [i \in 1..n |-> s[i]] /\ \A i \in 1..n : s[i] \in S
  BY <1>2
<1>5. DotenvLines(v) = MapOf(s)
  BY DEF DotenvLines
<1>6. \A y \in S : GoodItem(y, how)
  BY <1>3
<1> HIDE DEF s, S, n
<1>7. GoodItems(s, how)
  <2>1. s \in Seq(S)
    BY <1>2, <1>4, SequenceOf
  <2> QED BY <1>6, <2>1, GoodByElements
<1> QED BY <1>5, <1>7, MapOfItems

\* ini: another item (treeItemFromSection).
LEMMA IniAddedGood ==
  ASSUME NEW how, NEW out, GoodItems(out, how), NEW item, GoodItem(item, how)
  PROVE  GoodItems(IniAdded(out, item), how)
<1>1. CASE ~IsRemark(item)
  <2> DEFINE key == item.key
             y == Text(item.value)
  <2>1. key = Key(key.name) /\ Sound(item.value, how)
    BY <1>1 DEF GoodItem
  <2>2. Sound(y, how)
    BY <2>1, TextSound
  <2>3. IniAdded(out, item) = Append(out, Item(key, y))
    BY <1>1 DEF IniAdded
  <2> HIDE DEF key, y
  <2>4. GoodItem(Item(key, y), how)
    BY <2>1, <2>2, SoundItem
  <2> QED BY <2>3, <2>4, GoodAppended
<1>2. CASE IsRemark(item)
  <2>1. \/ IniAdded(out, item) = out
        \/ IniAdded(out, item) = Append(out, item)
        \/ out # <<>> /\ IniAdded(out, item) = Append(Front(out), item)
    BY <1>2 DEF IniAdded
  <2>2. GoodItems(Front(out), how)
    BY GoodFront
  <2> QED BY <2>1, <2>2, GoodAppended
<1> QED BY <1>1, <1>2

\* ini: the keys of a section.
LEMMA IniKeysGood ==
  ASSUME NEW items, NEW how, GoodItems(items, how)
  PROVE  GoodItems(IniKeys(items), how)
<1> DEFINE n == Len(items)
           For(f, m) == f = [i \in 0..m |-> IF i = 0 THEN <<>> ELSE IniAdded(f[i - 1], items[i])]
           T == {m \in 0..n : \E f : For(f, m)}
<1>0. n \in Nat /\ \A i \in 1..n : GoodItem(items[i], how)
  BY ElementsOf DEF GoodItems
<1> HIDE DEF n
<1>1. 0 \in T
  <2> DEFINE f == [i \in 0..0 |-> <<>>]
  <2>1. f = [i \in 0..0 |-> IF i = 0 THEN <<>> ELSE IniAdded(f[i - 1], items[i])]
    OBVIOUS
  <2> HIDE DEF f
  <2> QED BY <1>0, <2>1
<1>2. ASSUME NEW m \in 1..n, m - 1 \in T PROVE m \in T
  <2>1. PICK f : For(f, m - 1)
    BY <1>2
  <2> DEFINE g == [i \in 0..m |-> IF i = m THEN IniAdded(f[m - 1], items[m]) ELSE f[i]]
  <2>2. \A i \in 0..m : g[i] = IF i = 0 THEN <<>> ELSE IniAdded(g[i - 1], items[i])
    <3> TAKE i \in 0..m
    <3>1. CASE i = m
      <4>1. g[m] = IniAdded(f[m - 1], items[m]) /\ m # 0 /\ m - 1 # m /\ m - 1 \in 0..m
        BY <1>0
      <4> QED BY <3>1, <4>1
    <3>2. CASE i # m /\ i # 0
      <4>1. i \in 0..(m - 1) /\ i - 1 \in 0..m /\ i - 1 # m
        BY <1>0, <3>2
      <4>2. f[i] = IniAdded(f[i - 1], items[i])
        BY <2>1, <3>2, <4>1
      <4> QED BY <3>2, <4>1, <4>2
    <3>3. CASE i = 0
      <4>1. f[0] = <<>>
        BY <1>0, <2>1
      <4> QED BY <1>0, <3>3, <4>1
    <3> QED BY <3>1, <3>2, <3>3
  <2>3. g = [i \in 0..m |-> IF i = 0 THEN <<>> ELSE IniAdded(g[i - 1], items[i])]
    <3>1. g = [i \in 0..m |-> g[i]]
      OBVIOUS
    <3> HIDE DEF g
    <3> QED BY <2>2, <3>1
  <2> HIDE DEF g
  <2> QED BY <1>0, <2>3
<1>3. \E f : For(f, n)
  <2> HIDE DEF T
  <2>1. 0..n \subseteq T
    BY <1>0, <1>1, <1>2, CountingUp
  <2> QED BY <1>0, <2>1 DEF T
<1> DEFINE out == CHOOSE g : For(g, n)
<1>4. IniKeys(items) = out[n]
  BY DEF IniKeys, n
<1>5. For(out, n)
  <2> HIDE DEF For
  <2> QED BY <1>3
<1> HIDE DEF out
<1> DEFINE U == {i \in 0..n : GoodItems(out[i], how)}
<1>6. 0 \in U
  <2>1. out[0] = <<>>
    BY <1>0, <1>5
  <2> QED BY <1>0, <2>1, GoodNone
<1>7. ASSUME NEW i \in 1..n, i - 1 \in U PROVE i \in U
  <2>1. out[i] = IniAdded(out[i - 1], items[i]) /\ i \in 0..n
    BY <1>0, <1>5
  <2>2. GoodItems(out[i - 1], how) /\ GoodItem(items[i], how)
    BY <1>0, <1>7
  <2> QED BY <2>1, <2>2, IniAddedGood
<1>8. 0..n \subseteq U
  <2> HIDE DEF U
  <2> QED BY <1>0, <1>6, <1>7, CountingUp
<1> QED BY <1>0, <1>4, <1>8

\* The entries of a map are items of it that are no comments.
LEMMA EntriesOf ==
  ASSUME NEW a, a \in Seq(ToSet(a)), NEW v, v.items = a
  PROVE  /\ Entries(v) \in Seq({e \in ToSet(a) : ~IsRemark(e)}) /\ Len(Entries(v)) \in Nat
         /\ DOMAIN Entries(v) = 1..Len(Entries(v))
         /\ \A i \in 1..Len(Entries(v)) : Entries(v)[i] \in ToSet(a) /\ ~IsRemark(Entries(v)[i])
<1> DEFINE S == {e \in ToSet(a) : ~IsRemark(e)}
           n == Len(a)
           lists == [i \in DOMAIN a |-> IF IsRemark(a[i]) THEN <<>> ELSE <<a[i]>>]
<1>1. n \in Nat /\ DOMAIN a = 1..n /\ \A i \in 1..n : a[i] \in ToSet(a)
  BY ElementsOf
<1>2. ASSUME NEW i \in 1..n PROVE lists[i] \in Seq(S)
  <2>1. CASE IsRemark(a[i])
    <3>1. lists[i] = <<>>
      BY <1>1, <2>1
    <3> HIDE DEF S, lists
    <3> QED BY <3>1
  <2>2. CASE ~IsRemark(a[i])
    <3>1. lists[i] = <<a[i]>> /\ a[i] \in S
      BY <1>1, <2>2
    <3> HIDE DEF S, lists
    <3> QED BY <3>1
  <2> QED BY <2>1, <2>2
<1>3. lists = [i \in 1..n |-> lists[i]]
  BY <1>1
<1>4. Entries(v) = FlattenSeq(lists)
  BY DEF Entries
<1> HIDE DEF lists
<1> DEFINE e == Entries(v)
<1>5. e \in Seq(S)
  <2> HIDE DEF S, n, e
  <2>1. lists \in Seq(Seq(S))
    BY <1>1, <1>2, <1>3, SequenceOf
  <2>2. FlattenSeq(lists) \in Seq(S)
    BY <2>1, Flattened
  <2> QED BY <1>4, <2>2 DEF e
<1>6. /\ Len(e) \in Nat /\ DOMAIN e = 1..Len(e) /\ \A i \in 1..Len(e) : e[i] \in S
  <2> HIDE DEF S, n, e
  <2>1. ToSet(e) \subseteq S /\ Len(e) \in Nat /\ DOMAIN e = 1..Len(e) /\ \A i \in 1..Len(e) : e[i] \in ToSet(e)
    BY <1>5, ElementsOf
  <2> QED BY <2>1
<1> QED BY <1>5, <1>6

\* ini keeps a section sound.
LEMMA IniSectionSound ==
  ASSUME NEW v, NEW how, Sound(v, how), v.kind = "map"
  PROVE  Sound(IniSection(v), how)
<1> DEFINE a == v.items
<1>1. GoodItems(a, how)
  BY ItemsOfMap
<1>2. CASE a # <<>> /\ IsRemark(a[1])
  <2> DEFINE one == <<a[1]>>
             rest == IniKeys(Tail(a))
             s == one \o rest
  <2>1. GoodItem(a[1], how)
    <3>1. a \in Seq(ToSet(a)) /\ DOMAIN a = 1..Len(a) /\ Len(a) \in Nat /\ \A i \in 1..Len(a) : a[i] \in ToSet(a)
      BY <1>1, ElementsOf DEF GoodItems
    <3>2. Len(a) # 0
      BY <1>2, <3>1
    <3>3. 1 \in 1..Len(a)
      BY <3>1, <3>2
    <3> QED BY <1>1, <3>1, <3>3 DEF GoodItems
  <2>2. GoodItems(Tail(a), how)
    BY <1>1, <1>2, GoodTail
  <2>3. GoodItems(one, how) /\ GoodItems(rest, how)
    BY <2>1, <2>2, GoodOne, IniKeysGood
  <2>4. IniSection(v) = MapOf(s)
    BY <1>2 DEF IniSection
  <2> HIDE DEF one, rest
  <2>5. GoodItems(s, how)
    BY <2>3, GoodJoined
  <2> HIDE DEF s
  <2> QED BY <2>4, <2>5, MapOfItems
<1>3. CASE ~(a # <<>> /\ IsRemark(a[1]))
  <2>1. IniSection(v) = MapOf(IniKeys(a)) /\ GoodItems(IniKeys(a), how)
    BY <1>1, <1>3, IniKeysGood DEF IniSection
  <2> QED BY <2>1, MapOfItems
<1> QED BY <1>2, <1>3

\* ini keeps a document sound.
LEMMA IniSound ==
  ASSUME NEW v, NEW how, Sound(v, how), v.kind = "map", Emits("ini", v)
  PROVE  Sound(IniSections(v), how) /\ IniSections(v).kind = "map"
<1> DEFINE a == v.items
           e == Entries(v)
           n == Len(e)
           section(x) == Item(x.key, IniSection(x.value))
           S == {section(x) : x \in {x \in ToSet(a) : ~IsRemark(x) /\ x.value.kind = "map"}}
           s == [i \in DOMAIN e |-> section(e[i])]
<1>1. GoodItems(a, how) /\ a \in Seq(ToSet(a))
  BY ItemsOfMap DEF GoodItems
<1>2. n \in Nat /\ DOMAIN e = 1..n /\ \A i \in 1..n : e[i] \in ToSet(a) /\ ~IsRemark(e[i])
  <2> HIDE DEF a
  <2> QED BY <1>1, EntriesOf DEF a
<1>3. \A i \in 1..n : e[i].value.kind = "map"
  BY <1>2 DEF Emits
<1>4. ASSUME NEW x \in ToSet(a), ~IsRemark(x), x.value.kind = "map" PROVE GoodItem(section(x), how)
  <2> DEFINE key == x.key
             w == x.value
             y == IniSection(w)
  <2>1. key = Key(key.name) /\ Sound(w, how) /\ w.kind = "map"
    BY <1>1, <1>4 DEF GoodItem, GoodItems
  <2>2. section(x) = Item(key, y)
    OBVIOUS
  <2> HIDE DEF key, w, section
  <2>3. Sound(y, how)
    BY <2>1, IniSectionSound
  <2> HIDE DEF y
  <2> QED BY <2>1, <2>2, <2>3, SoundItem
<1>5. s = [i \in 1..n |-> s[i]] /\ \A i \in 1..n : s[i] \in S
  BY <1>2, <1>3
<1>6. IniSections(v) = MapOf(s)
  BY DEF IniSections
<1>7. \A y \in S : GoodItem(y, how)
  BY <1>4
<1> HIDE DEF s, S, n
<1>8. GoodItems(s, how)
  <2>1. s \in Seq(S)
    BY <1>2, <1>5, SequenceOf
  <2> QED BY <1>7, <2>1, GoodByElements
<1> QED BY <1>6, <1>8, MapOfItems

-----------------------------------------------------------------------------
(***************************************************************************)
(* What pxf makes of a tree                                                *)
(***************************************************************************)
\* An entry with the comments above it, a sequence of those, and what PxfEntries carries along.
GoodEntry(e, how) ==
  e = [above |-> e.above, item |-> e.item] /\ GoodItems(e.above, how) /\ GoodItem(e.item, how)

GoodEntries(s, how) == s \in Seq(ToSet(s)) /\ \A e \in ToSet(s) : GoodEntry(e, how)

GoodState(w, how) ==
  /\ w = [entries |-> w.entries, leading |-> w.leading, pending |-> w.pending]
  /\ GoodEntries(w.entries, how) /\ GoodItems(w.leading, how) /\ GoodItems(w.pending, how)

\* What has become of the value w.
GoodPart(w, m, how) ==
  GoodItems(m.leading, how) /\ Sound(m.value, how) /\ (w.kind = "map" => m.value.kind = "map")

LEMMA EntriesByElements ==
  ASSUME NEW how, NEW S, \A e \in S : GoodEntry(e, how), NEW s \in Seq(S)
  PROVE  GoodEntries(s, how)
BY ElementsOf DEF GoodEntries

\* One more entry.
LEMMA EntryAppended ==
  ASSUME NEW how, NEW a, GoodEntries(a, how), NEW e, GoodEntry(e, how)
  PROVE  GoodEntries(Append(a, e), how)
<1> DEFINE S == ToSet(a) \cup {e}
<1>1. a \in Seq(ToSet(a)) /\ \A y \in S : GoodEntry(y, how)
  BY DEF GoodEntries
<1>2. a \in Seq(S) /\ e \in S
  BY <1>1
<1> HIDE DEF S
<1>3. Append(a, e) \in Seq(S)
  BY <1>2
<1> QED BY <1>1, <1>3, EntriesByElements

LEMMA OneEntry ==
  ASSUME NEW how, NEW e, GoodEntry(e, how)
  PROVE  GoodEntries(<<e>>, how)
<1>1. <<e>> \in Seq({e})
  OBVIOUS
<1> QED BY <1>1, EntriesByElements

\* More comments above an entry.
LEMMA MoreAbove ==
  ASSUME NEW e, NEW a, NEW item, e = [above |-> a, item |-> item], NEW b
  PROVE  [e EXCEPT !.above = @ \o b] = [above |-> a \o b, item |-> item]
<1>1. DOMAIN e = {"above", "item"} /\ e.above = a /\ e.item = item
  OBVIOUS
<1>2. [e EXCEPT !.above = @ \o b] = [e EXCEPT !.above = e.above \o b]
  OBVIOUS
<1> DEFINE c == a \o b
<1>3. [e EXCEPT !.above = e.above \o b] = [e EXCEPT !.above = c]
  BY <1>1
<1> HIDE DEF c
<1>4. [e EXCEPT !.above = c] = [above |-> c, item |-> item]
  BY <1>1
<1> QED BY <1>2, <1>3, <1>4 DEF c

\* An item of the block, with the comments above it (branchToEntries).
LEMMA PxfAddedGood ==
  ASSUME NEW how, NEW w, GoodState(w, how), NEW item, GoodItem(item, how),
         NEW m, GoodItems(m.leading, how), Sound(m.value, how)
  PROVE  GoodState(PxfAdded(w, item, m), how)
<1> DEFINE new == Item(item.key, m.value)
           entry == [above |-> m.leading, item |-> new]
           lower == [above |-> m.leading \o w.pending, item |-> new]
           u == PxfAdded(w, item, m)
<1>0. /\ w = [entries |-> w.entries, leading |-> w.leading, pending |-> w.pending]
      /\ GoodEntries(w.entries, how) /\ GoodItems(w.leading, how) /\ GoodItems(w.pending, how)
  BY DEF GoodState
<1>1. ~IsRemark(item) => GoodItem(new, how)
  <2> DEFINE key == item.key
             y == m.value
  <2>1. ~IsRemark(item) => key = Key(key.name)
    BY DEF GoodItem
  <2>2. new = Item(key, y) /\ Sound(y, how)
    OBVIOUS
  <2> HIDE DEF key, y, new
  <2> QED BY <2>1, <2>2, SoundItem
<1> HIDE DEF new
<1>2. ~IsRemark(item) => GoodEntry(entry, how) /\ GoodEntry(lower, how)
  BY <1>0, <1>1, GoodJoined DEF GoodEntry
<1>3. CASE IsRemark(item)
  <2> DEFINE s == Append(w.pending, item)
  <2>1. u = [entries |-> w.entries, leading |-> w.leading, pending |-> s]
    BY <1>0, <1>3 DEF PxfAdded
  <2>2. GoodItems(s, how)
    BY <1>0, GoodAppended
  <2> HIDE DEF s
  <2> QED BY <1>0, <2>1, <2>2 DEF GoodState
<1>4. CASE ~IsRemark(item) /\ w.entries = <<>>
  <2> DEFINE s == <<entry>>
  <2>1. u = [entries |-> s, leading |-> w.pending, pending |-> <<>>]
    BY <1>4 DEF PxfAdded, new
  <2>2. GoodEntries(s, how)
    BY <1>2, <1>4, OneEntry
  <2> HIDE DEF s
  <2> QED BY <1>0, <2>1, <2>2, GoodNone DEF GoodState
<1>5. CASE ~IsRemark(item) /\ w.entries # <<>>
  <2> DEFINE s == Append(w.entries, lower)
  <2>1. u = [w EXCEPT !.entries = Append(@, lower), !.pending = <<>>]
    BY <1>5 DEF PxfAdded, new
  <2>2. u = [entries |-> s, leading |-> w.leading, pending |-> <<>>]
    BY <1>0, <2>1
  <2>3. GoodEntries(s, how)
    BY <1>0, <1>2, <1>5, EntryAppended
  <2> HIDE DEF s
  <2> QED BY <1>0, <2>2, <2>3, GoodNone DEF GoodState
<1> QED BY <1>3, <1>4, <1>5

\* The comments that no entry is behind.
LEMMA FlushedGood ==
  ASSUME NEW how, NEW a, GoodEntries(a, how), a # <<>>, NEW pending, GoodItems(pending, how)
  PROVE  GoodEntries(Flushed(a, pending), how)
<1> DEFINE n == Len(a)
           e == [above |-> a[n].above \o pending, item |-> a[n].item]
           s == [i \in 1..n |-> IF i = n THEN e ELSE a[i]]
           S == ToSet(a) \cup {e}
<1>1. n \in Nat /\ DOMAIN a = 1..n /\ a = [i \in 1..n |-> a[i]] /\ \A i \in 1..n : a[i] \in ToSet(a)
  BY ElementsOf DEF GoodEntries
<1>2. n # 0
  BY DEF GoodEntries
<1>3. GoodEntry(a[n], how)
  BY <1>1, <1>2 DEF GoodEntries
<1>4. GoodEntry(e, how)
  BY <1>3, GoodJoined DEF GoodEntry
<1>5. Flushed(a, pending) = s
  <2>1. a[n] = [above |-> a[n].above, item |-> a[n].item]
    BY <1>3 DEF GoodEntry
  <2>2. [a[n] EXCEPT !.above = @ \o pending] = e
    BY <2>1, MoreAbove
  <2>3. Flushed(a, pending) = [a EXCEPT ![n] = e]
    BY <2>2 DEF Flushed
  <2> HIDE DEF n, e
  <2> QED BY <1>1, <2>3
<1>6. s = [i \in 1..n |-> s[i]] /\ (\A i \in 1..n : s[i] \in S) /\ \A x \in S : GoodEntry(x, how)
  BY <1>1, <1>4 DEF GoodEntries
<1> HIDE DEF s, S, n
<1>7. s \in Seq(S)
  BY <1>1, <1>6, SequenceOf
<1> QED BY <1>5, <1>6, <1>7, EntriesByElements

\* The entries as lines.
LEMMA LinesGood ==
  ASSUME NEW how, NEW a, GoodEntries(a, how)
  PROVE  GoodItems(FlattenSeq([i \in DOMAIN a |-> LinesOf(a[i])]), how)
<1> DEFINE n == Len(a)
           lists == [i \in DOMAIN a |-> LinesOf(a[i])]
           S == UNION {ToSet(LinesOf(e)) : e \in ToSet(a)}
<1>1. n \in Nat /\ DOMAIN a = 1..n /\ \A i \in 1..n : a[i] \in ToSet(a)
  BY ElementsOf DEF GoodEntries
<1>2. ASSUME NEW e \in ToSet(a) PROVE GoodItems(LinesOf(e), how)
  <2>1. GoodItems(e.above, how) /\ GoodItem(e.item, how)
    BY DEF GoodEntries, GoodEntry
  <2>2. GoodItems(Append(e.above, e.item), how)
    BY <2>1, GoodAppended
  <2> QED BY <2>2 DEF LinesOf
<1>3. ASSUME NEW x \in S PROVE GoodItem(x, how)
  BY <1>2 DEF GoodItems
<1>4. ASSUME NEW i \in 1..n PROVE lists[i] \in Seq(S)
  <2> DEFINE l == LinesOf(a[i])
  <2>1. lists[i] = l /\ ToSet(l) \subseteq S /\ l \in Seq(ToSet(l))
    BY <1>1, <1>2 DEF GoodItems
  <2> HIDE DEF l, lists, S
  <2> QED BY <2>1
<1>5. lists = [i \in 1..n |-> lists[i]]
  BY <1>1
<1> HIDE DEF lists, S, n
<1>6. lists \in Seq(Seq(S))
  BY <1>1, <1>4, <1>5, SequenceOf
<1>7. FlattenSeq(lists) \in Seq(S)
  BY <1>6, Flattened
<1>8. GoodItems(FlattenSeq(lists), how)
  BY <1>3, <1>7, GoodByElements
<1> QED BY <1>8 DEF lists

\* The entries of a block.
LEMMA PxfEntriesGood ==
  ASSUME NEW how, NEW items, GoodItems(items, how), NEW parts,
         \A i \in 1..Len(items) : GoodItems(parts[i].leading, how) /\ Sound(parts[i].value, how)
  PROVE  GoodItems(PxfEntries(items, parts).leading, how) /\ GoodItems(PxfEntries(items, parts).lines, how)
<1> DEFINE n == Len(items)
           none == [entries |-> <<>>, leading |-> <<>>, pending |-> <<>>]
           For(f, m) == f = [i \in 0..m |-> IF i = 0 THEN none ELSE PxfAdded(f[i - 1], items[i], parts[i])]
           T == {m \in 0..n : \E f : For(f, m)}
<1>0. n \in Nat /\ \A i \in 1..n : GoodItem(items[i], how)
  BY ElementsOf DEF GoodItems
<1>a. \A i \in 1..n : GoodItems(parts[i].leading, how) /\ Sound(parts[i].value, how)
  OBVIOUS
<1> HIDE DEF n, none
<1>1. 0 \in T
  <2> DEFINE f == [i \in 0..0 |-> none]
  <2>1. f = [i \in 0..0 |-> IF i = 0 THEN none ELSE PxfAdded(f[i - 1], items[i], parts[i])]
    OBVIOUS
  <2> HIDE DEF f
  <2> QED BY <1>0, <2>1
<1>2. ASSUME NEW m \in 1..n, m - 1 \in T PROVE m \in T
  <2>1. PICK f : For(f, m - 1)
    BY <1>2
  <2> DEFINE g == [i \in 0..m |-> IF i = m THEN PxfAdded(f[m - 1], items[m], parts[m]) ELSE f[i]]
  <2>2. \A i \in 0..m : g[i] = IF i = 0 THEN none ELSE PxfAdded(g[i - 1], items[i], parts[i])
    <3> TAKE i \in 0..m
    <3>1. CASE i = m
      <4>1. g[m] = PxfAdded(f[m - 1], items[m], parts[m]) /\ m # 0 /\ m - 1 # m /\ m - 1 \in 0..m
        BY <1>0
      <4> QED BY <3>1, <4>1
    <3>2. CASE i # m /\ i # 0
      <4>1. i \in 0..(m - 1) /\ i - 1 \in 0..m /\ i - 1 # m
        BY <1>0, <3>2
      <4>2. f[i] = PxfAdded(f[i - 1], items[i], parts[i])
        BY <2>1, <3>2, <4>1
      <4> QED BY <3>2, <4>1, <4>2
    <3>3. CASE i = 0
      <4>1. f[0] = none
        BY <1>0, <2>1
      <4> QED BY <1>0, <3>3, <4>1
    <3> QED BY <3>1, <3>2, <3>3
  <2>3. g = [i \in 0..m |-> IF i = 0 THEN none ELSE PxfAdded(g[i - 1], items[i], parts[i])]
    <3>1. g = [i \in 0..m |-> g[i]]
      OBVIOUS
    <3> HIDE DEF g
    <3> QED BY <2>2, <3>1
  <2> HIDE DEF g
  <2> QED BY <1>0, <2>3
<1>3. \E f : For(f, n)
  <2> HIDE DEF T
  <2>1. 0..n \subseteq T
    BY <1>0, <1>1, <1>2, CountingUp
  <2> QED BY <1>0, <2>1 DEF T
<1> DEFINE so == CHOOSE g : For(g, n)
           end == so[n]
           a == IF end.entries = <<>> THEN <<>> ELSE Flushed(end.entries, end.pending)
<1>4. PxfEntries(items, parts) =
        [leading |-> IF end.entries = <<>> THEN end.pending ELSE end.leading,
         lines |-> FlattenSeq([i \in DOMAIN a |-> LinesOf(a[i])])]
  BY DEF PxfEntries, n, none
<1>5. For(so, n)
  <2> HIDE DEF For
  <2> QED BY <1>3
<1> HIDE DEF so
<1> DEFINE U == {i \in 0..n : GoodState(so[i], how)}
<1>6. 0 \in U
  <2>1. so[0] = none
    BY <1>0, <1>5
  <2>2. GoodEntries(<<>>, how)
    <3>1. <<>> \in Seq({})
      OBVIOUS
    <3> QED BY <3>1, EntriesByElements
  <2>3. GoodState(none, how)
    BY <2>2, GoodNone DEF none, GoodState
  <2> QED BY <1>0, <2>1, <2>3
<1>7. ASSUME NEW i \in 1..n, i - 1 \in U PROVE i \in U
  <2> DEFINE w == so[i - 1]
             item == items[i]
             m == parts[i]
  <2>1. so[i] = PxfAdded(w, item, m) /\ i \in 0..n
    BY <1>0, <1>5
  <2>2. GoodState(w, how) /\ GoodItem(item, how) /\ GoodItems(m.leading, how) /\ Sound(m.value, how)
    BY <1>0, <1>a, <1>7
  <2> HIDE DEF w, item, m
  <2>3. GoodState(PxfAdded(w, item, m), how)
    BY <2>2, PxfAddedGood
  <2> QED BY <2>1, <2>3
<1>8. 0..n \subseteq U
  <2> HIDE DEF U
  <2> QED BY <1>0, <1>6, <1>7, CountingUp
<1>9. GoodState(end, how)
  BY <1>0, <1>8
<1> HIDE DEF end
<1>10. GoodEntries(a, how)
  <2>1. CASE end.entries = <<>>
    <3>1. a = end.entries
      BY <2>1
    <3> QED BY <1>9, <3>1 DEF GoodState
  <2>2. CASE end.entries # <<>>
    <3>1. a = Flushed(end.entries, end.pending)
      BY <2>2
    <3>2. GoodEntries(end.entries, how) /\ GoodItems(end.pending, how)
      BY <1>9 DEF GoodState
    <3>3. GoodEntries(Flushed(end.entries, end.pending), how)
      BY <2>2, <3>2, FlushedGood
    <3> QED BY <3>1, <3>3
  <2> QED BY <2>1, <2>2
<1> HIDE DEF a
<1>11. GoodItems(FlattenSeq([i \in DOMAIN a |-> LinesOf(a[i])]), how)
  BY <1>10, LinesGood
<1> QED BY <1>4, <1>9, <1>11 DEF GoodState

\* What becomes of a value (goValueToPXFValue).
LEMMA PxfValueGood ==
  ASSUME NEW w, NEW how, Sound(w, how), NEW parts,
         IsContainer(w) => \A i \in 1..Len(w.items) : GoodPart(Child(w, i), parts[i], how)
  PROVE  GoodPart(w, PxfValue(w, parts), how)
<1> DEFINE kept == Kept(w)
           n == Len(w.items)
           S == {i \in 1..n : ~IsComment(IF w.kind = "list" THEN w.items[i] ELSE w.items[i].key)}
<1>1. CASE ~IsContainer(w)
  <2>1. PxfValue(w, parts) = [leading |-> <<>>, value |-> w]
    BY <1>1 DEF PxfValue, IsContainer
  <2> QED BY <1>1, <2>1, GoodNone DEF GoodPart, IsContainer
<1>2. CASE w.kind = "map"
  <2> DEFINE a == w.items
             block == PxfEntries(a, parts)
             m == PxfValue(w, parts)
  <2>1. GoodItems(a, how) /\ IsContainer(w)
    BY <1>2, ItemsOfMap DEF IsContainer
  <2>2. \A i \in 1..Len(a) : GoodItems(parts[i].leading, how) /\ Sound(parts[i].value, how)
    BY <2>1 DEF GoodPart
  <2>3. m = [leading |-> block.leading, value |-> MapOf(block.lines)]
    BY <1>2 DEF PxfValue
  <2> HIDE DEF a, m
  <2>4. GoodItems(block.leading, how) /\ GoodItems(block.lines, how)
    BY <2>1, <2>2, PxfEntriesGood
  <2> DEFINE lines == block.lines
             u == MapOf(lines)
  <2>5. m.leading = block.leading /\ m.value = u /\ GoodItems(lines, how) /\ u = MapOf(lines)
    BY <2>3, <2>4
  <2> HIDE DEF block, lines, u
  <2>6. Sound(u, how) /\ u.kind = "map"
    BY <2>5, MapOfItems
  <2> QED BY <2>4, <2>5, <2>6 DEF GoodPart, m
<1>3. CASE w.kind = "list"
  <2> DEFINE s == [j \in DOMAIN kept |-> PxfElement(w.items[kept[j]], parts[kept[j]])]
             k == Len(kept)
  <2>1. IsContainer(w) /\ w.items \in Seq(ToSet(w.items))
    BY <1>3, SoundInside DEF IsContainer
  <2>2. k \in Nat /\ DOMAIN kept = 1..k /\ \A j \in 1..k : kept[j] \in 1..n
    <3>1. kept \in Seq(S)
      BY <2>1, KeptPositions
    <3> HIDE DEF S, kept
    <3>2. Len(kept) \in Nat /\ DOMAIN kept = 1..Len(kept) /\ ToSet(kept) \subseteq S /\ \A j \in 1..Len(kept) : kept[j] \in ToSet(kept)
      BY <3>1, ElementsOf
    <3> QED BY <3>2 DEF S
  <2>3. ASSUME NEW i \in 1..n, NEW e, e = PxfElement(w.items[i], parts[i]) PROVE Sound(e, how)
    <3> DEFINE x == w.items[i]
               m == parts[i]
               y == m.value
               s1 == m.leading
               s2 == y.items
               both == s1 \o s2
    <3>1. GoodPart(x, m, how)
      BY <1>3, <2>1 DEF Child
    <3>2. e = IF x.kind = "map" /\ s2 # <<>> THEN MapOf(both) ELSE y
      BY <2>3 DEF PxfElement
    <3>3. GoodItems(s1, how) /\ Sound(y, how) /\ (x.kind = "map" => y.kind = "map")
      BY <3>1 DEF GoodPart
    <3>4. CASE x.kind = "map" /\ s2 # <<>>
      <4>1. e = MapOf(both) /\ GoodItems(s1, how)
        BY <3>2, <3>3, <3>4
      <4>2. Sound(y, how) /\ y.kind = "map"
        BY <3>3, <3>4
      <4> HIDE DEF x, y, m
      <4>3. GoodItems(s2, how)
        BY <4>2, ItemsOfMap
      <4> HIDE DEF s1, s2
      <4>4. GoodItems(both, how)
        BY <4>1, <4>3, GoodJoined
      <4> HIDE DEF both
      <4> QED BY <4>1, <4>4, MapOfItems
    <3>5. CASE ~(x.kind = "map" /\ s2 # <<>>)
      BY <3>2, <3>3, <3>5
    <3> QED BY <3>4, <3>5
  <2>4. PxfValue(w, parts) = [leading |-> <<>>, value |-> ListOf(s)]
    BY <1>3 DEF PxfValue
  <2> HIDE DEF kept, k, n
  <2>5. s = [j \in 1..k |-> s[j]] /\ \A j \in 1..k : s[j] = PxfElement(w.items[kept[j]], parts[kept[j]])
    BY <2>2
  <2>6. \A j \in 1..k : Sound(s[j], how)
    BY <2>2, <2>3, <2>5
  <2> HIDE DEF s
  <2>7. Sound(ListOf(s), how)
    BY <2>2, <2>5, <2>6, ListOfElements
  <2> QED BY <1>3, <2>4, <2>7, GoodNone DEF GoodPart
<1> QED BY <1>1, <1>2, <1>3 DEF IsContainer

\* What becomes of the parts of a document.
LEMMA PxfGood ==
  ASSUME NEW v, IsTree(v), NEW how, Sound(v, how)
  PROVE  \A p \in Nodes(v) : GoodPart(At(v, p), Pxf(v)[p], how)
<1>1. PICK h : Pxf(v) = h /\ \A p \in Nodes(v) : h[p] = PxfOf(v, h, p)
  BY PxfStep
<1> DEFINE T == {p \in Nodes(v) : GoodPart(At(v, p), h[p], how)}
<1>2. ASSUME NEW p \in Nodes(v), IsContainer(At(v, p)) => \A i \in DOMAIN At(v, p).items : Append(p, i) \in T
      PROVE  p \in T
  <2> DEFINE w == At(v, p)
             parts == [i \in DOMAIN At(v, p).items |-> h[Append(p, i)]]
  <2>1. h[p] = PxfValue(w, parts) /\ Sound(w, how)
    BY <1>1, SoundPlaces DEF PxfOf
  <2>2. ASSUME IsContainer(w), NEW i \in 1..Len(w.items) PROVE GoodPart(Child(w, i), parts[i], how)
    <3>1. i \in DOMAIN w.items /\ At(v, Append(p, i)) = Child(w, i)
      BY <2>2, TreeStep
    <3>2. Append(p, i) \in T /\ parts[i] = h[Append(p, i)]
      BY <1>2, <2>2, <3>1
    <3> QED BY <3>1, <3>2
  <2> HIDE DEF w, parts
  <2>3. GoodPart(w, PxfValue(w, parts), how)
    BY <2>1, <2>2, PxfValueGood
  <2> QED BY <2>1, <2>3 DEF w
<1>3. Nodes(v) \subseteq T
  <2> HIDE DEF T
  <2> QED BY <1>2, FromBelow
<1> QED BY <1>1, <1>3

\* pxf keeps a document sound.
LEMMA PxfSound ==
  ASSUME NEW v, IsTree(v), NEW how, Sound(v, how), v.kind = "map"
  PROVE  Sound(PxfDocument(v), how) /\ PxfDocument(v).kind = "map"
<1> DEFINE a == v.items
           n == Len(a)
           sops == Item(Key("sops"), Null)
           parts == [i \in DOMAIN a |-> Pxf(v)[<<i>>]]
           none == [leading |-> <<>>, value |-> Null]
           more == Append(a, sops)
           all == Append(parts, none)
           block == PxfEntries(more, all)
           s == block.leading \o block.lines
           f == Front(s)
<1>1. GoodItems(a, how) /\ n \in Nat /\ DOMAIN a = 1..n
  BY ItemsOfMap, ElementsOf DEF GoodItems
<1>2. Sound(Null, how)
  BY SoundLeaf DEF Null, IsContainer, IsComment
<1>3. GoodItem(sops, how)
  <2> DEFINE key == Key("sops")
             y == Null
  <2>1. key = Key(key.name) /\ Sound(y, how) /\ sops = Item(key, y)
    BY <1>2 DEF Key
  <2> HIDE DEF key, y, sops
  <2> QED BY <2>1, SoundItem
<1>4. ASSUME NEW i \in 1..n PROVE GoodItems(parts[i].leading, how) /\ Sound(parts[i].value, how)
  <2>1. <<>> \in Nodes(v) /\ At(v, <<>>) = v /\ IsContainer(v)
    BY PlacesOfATree, AtTheTop DEF IsContainer
  <2>2. Append(<<>>, i) \in Nodes(v) /\ i \in DOMAIN a
    BY <1>1, <2>1, PlacesOfATree
  <2>3. Append(<<>>, i) = <<i>>
    OBVIOUS
  <2>4. GoodPart(At(v, <<i>>), Pxf(v)[<<i>>], how) /\ parts[i] = Pxf(v)[<<i>>]
    BY <2>2, <2>3, PxfGood
  <2> QED BY <2>4 DEF GoodPart
<1> HIDE DEF a, sops
<1>5. GoodItems(more, how)
  BY <1>1, <1>3, GoodAppended
<1>6. /\ Len(more) = n + 1
      /\ \A i \in 1..n : all[i] = parts[i]
      /\ all[n + 1] = none
  <2>1. a \in Seq(ToSet(a))
    BY <1>1 DEF GoodItems
  <2>2. parts = [i \in 1..n |-> parts[i]]
    BY <1>1
  <2>3. Len(more) = n + 1
    BY <2>1
  <2> HIDE DEF parts, none, n
  <2>4. parts \in Seq(ToSet(parts)) /\ Len(parts) = n
    BY <1>1, <2>2, SequenceOfItsOwn
  <2>5. (\A i \in 1..n : all[i] = parts[i]) /\ all[n + 1] = none
    BY <1>1, <2>4
  <2> QED BY <2>3, <2>5
<1>7. none.leading = <<>> /\ none.value = Null
  OBVIOUS
<1> HIDE DEF parts, none, more, all
<1>8. \A i \in 1..Len(more) : GoodItems(all[i].leading, how) /\ Sound(all[i].value, how)
  <2> TAKE i \in 1..Len(more)
  <2>1. i \in 1..n \/ i = n + 1
    BY <1>1, <1>6
  <2> QED BY <1>2, <1>4, <1>6, <1>7, <2>1, GoodNone
<1>9. GoodItems(block.leading, how) /\ GoodItems(block.lines, how)
  BY <1>5, <1>8, PxfEntriesGood
<1>10. PxfDocument(v) = MapOf(f)
  BY DEF PxfDocument, a, sops, parts, none, more, all
<1> HIDE DEF block
<1>11. GoodItems(s, how)
  BY <1>9, GoodJoined
<1> HIDE DEF s
<1>12. GoodItems(f, how)
  BY <1>11, GoodFront
<1> HIDE DEF f
<1> QED BY <1>10, <1>12, MapOfItems

\* Whatever its format, what is read back of a file is sound.
LEMMA ReloadSound ==
  ASSUME NEW v, IsTree(v), NEW how, Sound(v, how), v.kind = "map", NEW in \in Formats, Emits(in, v)
  PROVE  Sound(Reload(in, v), how) /\ Reload(in, v).kind = "map"
<1>1. CASE in = "yaml"
  BY <1>1, YamlSound DEF Reload
<1>2. CASE in = "json"
  BY <1>2, UncommentedSound DEF Reload
<1>3. CASE in = "dotenv"
  BY <1>3, DotenvSound DEF Reload
<1>4. CASE in = "ini"
  BY <1>4, IniSound DEF Reload
<1>5. CASE in = "pxf"
  BY <1>5, PxfSound DEF Reload
<1> QED BY <1>1, <1>2, <1>3, <1>4, <1>5 DEF Formats

-----------------------------------------------------------------------------
(***************************************************************************)
(* Documents that stay genuine                                             *)
(***************************************************************************)
\* The walk makes a map of a map.
LEMMA WalkKeepsMap ==
  ASSUME NEW meta, NEW v, IsTree(v), v.kind = "map", NEW cipher, NEW c, c = Walk(meta, v, cipher).value,
         \A p \in Places(v) : ~IsContainer(OnLeaf(meta, v, p, cipher).value)
  PROVE  c.kind = "map"
<1> DEFINE new == NewValues(meta, v, cipher)
           r == Rebuilt(v, <<>>, new)
<1>1. c = new[<<>>]
  BY DEF Walk
<1>2. <<>> \in Nodes(v) /\ At(v, <<>>) = v /\ At(c, <<>>) = c /\ IsContainer(v)
  BY PlacesOfATree, AtTheTop DEF IsContainer
<1>3. At(c, <<>>) = Rebuilt(At(v, <<>>), <<>>, new)
  BY <1>1, <1>2, NewTree
<1>4. c = r
  BY <1>2, <1>3
<1> HIDE DEF new, r
<1>5. r.kind = v.kind
  BY <1>2, ContainerRebuilt DEF r
<1> QED BY <1>4, <1>5

\* An edit makes a map of a map.
LEMMA PutBackKeepsMap ==
  ASSUME NEW w, Proper(w), w.kind = "map", NEW i, NEW inner, NEW r, r = PutBack(w, i, inner), r.ok
  PROVE  r.value.kind = "map"
<1>1. w = [kind |-> w.kind, items |-> w.items]
  BY DEF Proper, IsContainer
<1>2. r = Updated([w EXCEPT !.items[i].value = inner.value], inner.changed)
  BY DEF PutBack, Failed
<1> DEFINE t == [w.items EXCEPT ![i].value = inner.value]
<1>3. [w EXCEPT !.items[i].value = inner.value] = [w EXCEPT !.items = t]
  OBVIOUS
<1>4. r = Updated([w EXCEPT !.items = t], inner.changed)
  BY <1>2, <1>3
<1> HIDE DEF t
<1> DEFINE u == [w EXCEPT !.items = t]
<1>5. u.kind = "map" /\ r = Updated(u, inner.changed)
  BY <1>1, <1>4
<1> HIDE DEF u
<1> QED BY <1>5 DEF Updated

LEMMA SetKeepsMap ==
  ASSUME NEW v, Proper(v), v.kind = "map", NEW path, path # <<>>, NEW n, n = Len(path), n \in Nat \ {0},
         NEW leaf, NEW r, r = SetIn(v, path, leaf), r.ok
  PROVE  r.value.kind = "map"
<1> DEFINE old == Reached(v, path)
           rest == Chain(path, leaf)
<1>1. PICK new :
           /\ SetIn(v, path, leaf) = new[0] /\ new[n] = Updated(leaf, old[n].value # leaf)
           /\ \A d \in 0..(n - 1) :
                LET w == old[d].value IN
                /\ w.kind = "map" => new[d] = SetInMap(w, path[d + 1], rest[d + 1], new[d + 1])
                /\ w.kind = "list" => new[d] = SetInList(w, path[d + 1], rest[d + 1], new[d + 1])
                /\ ~IsContainer(w) => new[d] = Updated(rest[d], w # rest[d])
  BY SetSteps
<1>2. old[0].value = v
  <2>1. Len(path) \in Nat
    OBVIOUS
  <2>2. ReachedFor(v, path, old)
    BY <2>1, ReachedSteps
  <2> HIDE DEF old
  <2> QED BY <2>2 DEF ReachedFor, Found
<1> HIDE DEF old, rest
<1>3. 0 \in 0..(n - 1)
  OBVIOUS
<1>4. r = SetInMap(v, path[0 + 1], rest[0 + 1], new[0 + 1])
  BY <1>1, <1>2, <1>3
<1> DEFINE i == Position(v, path[0 + 1])
<1>5. CASE i # 0
  <2>1. r = PutBack(v, i, new[0 + 1])
    BY <1>4, <1>5 DEF SetInMap
  <2> HIDE DEF i
  <2> QED BY <2>1, PutBackKeepsMap
<1>6. CASE i = 0
  BY <1>4, <1>6 DEF SetInMap, Updated, MapOf
<1> QED BY <1>5, <1>6

LEMMA UnsetKeepsMap ==
  ASSUME NEW v, Proper(v), v.kind = "map", NEW path, path # <<>>, NEW n, n = Len(path) - 1, n \in Nat,
         Len(path) \in Nat, NEW r, r = UnsetIn(v, path), r.ok
  PROVE  r.value.kind = "map"
<1> DEFINE old == Reached(v, path)
<1>1. PICK new : UnsetIn(v, path) = new[0] /\ UnsetFor(path, n, old, new)
  BY UnsetSteps
<1>2. old[0].value = v
  <2>1. Len(path) \in Nat
    OBVIOUS
  <2>2. ReachedFor(v, path, old)
    BY <2>1, ReachedSteps
  <2> HIDE DEF old
  <2> QED BY <2>2 DEF ReachedFor, Found
<1> HIDE DEF old
<1> DEFINE i == Position(v, path[0 + 1])
<1>3. /\ i = 0 => new[0] = Failed
      /\ i # 0 /\ 0 = n => new[0] = Updated(Without(v, i), TRUE)
      /\ i # 0 /\ 0 # n => new[0] = PutBack(v, i, new[0 + 1])
  <2>1. 0 \in 0..n
    OBVIOUS
  <2> QED BY <1>1, <1>2, <2>1 DEF UnsetFor
<1>4. i # 0
  BY <1>1, <1>3 DEF Failed
<1>5. CASE n = 0
  <2>1. v = [kind |-> v.kind, items |-> v.items]
    BY DEF Proper, IsContainer
  <2>2. Without(v, i).kind = "map"
    BY <2>1 DEF Without
  <2> QED BY <1>1, <1>3, <1>4, <1>5, <2>2 DEF Updated
<1>6. CASE n # 0
  <2>1. r = PutBack(v, i, new[0 + 1])
    BY <1>1, <1>3, <1>4, <1>6
  <2> HIDE DEF i
  <2> QED BY <2>1, PutBackKeepsMap
<1> QED BY <1>5, <1>6

-----------------------------------------------------------------------------
(***************************************************************************)
(* The stash                                                               *)
(***************************************************************************)
\* The walk comes to all leaves.
LEMMA AllLeaves ==
  ASSUME NEW v, IsTree(v)
  PROVE  Places(v) \subseteq ToSet(LeavesBelow(v)[<<>>])
<1> DEFINE below == LeavesBelow(v)
           all == ToSet(below[<<>>])
           T == {p \in Nodes(v) : below[p] \in Seq(Nodes(v)) /\ ToSet(below[p]) \subseteq all}
           U == {p \in Nodes(v) : below[p] \in Seq(Nodes(v))}
<1>0. \A p \in Nodes(v) : below[p] = LeavesBelowOf(v, below, p)
  BY LeavesBelowStep
<1> HIDE DEF below
<1>1. ASSUME NEW p \in Nodes(v), IsContainer(At(v, p)), NEW lists,
             lists = [i \in DOMAIN At(v, p).items |-> below[Append(p, i)]], NEW n, n = Len(At(v, p).items)
      PROVE  /\ below[p] = FlattenSeq(lists) /\ n \in Nat /\ lists = [i \in 1..n |-> lists[i]]
             /\ DOMAIN At(v, p).items = 1..n
             /\ \A i \in 1..n : lists[i] = below[Append(p, i)] /\ Append(p, i) \in Nodes(v)
  <2>1. below[p] = FlattenSeq(lists)
    <3>1. LeavesBelowOf(v, below, p) = FlattenSeq([i \in DOMAIN At(v, p).items |-> below[Append(p, i)]])
      BY <1>1 DEF LeavesBelowOf, IsContainer, Null
    <3> QED BY <1>0, <1>1, <3>1
  <2>2. n \in Nat /\ DOMAIN At(v, p).items = 1..n /\ \A i \in 1..n : Append(p, i) \in Nodes(v)
    BY <1>1, TreeStep
  <2> QED BY <1>1, <2>1, <2>2
<1>2. ASSUME NEW p \in Nodes(v), IsContainer(At(v, p)) => \A i \in DOMAIN At(v, p).items : Append(p, i) \in U
      PROVE  p \in U
  <2>1. CASE IsContainer(At(v, p))
    <3> DEFINE lists == [i \in DOMAIN At(v, p).items |-> below[Append(p, i)]]
               n == Len(At(v, p).items)
    <3>1. /\ below[p] = FlattenSeq(lists) /\ n \in Nat /\ lists = [i \in 1..n |-> lists[i]]
          /\ DOMAIN At(v, p).items = 1..n
          /\ \A i \in 1..n : lists[i] = below[Append(p, i)] /\ Append(p, i) \in Nodes(v)
      BY <1>1, <2>1
    <3>2. \A i \in 1..n : lists[i] \in Seq(Nodes(v))
      BY <1>2, <2>1, <3>1
    <3> HIDE DEF lists, n
    <3>3. lists \in Seq(Seq(Nodes(v)))
      BY <3>1, <3>2, SequenceOf
    <3> QED BY <3>1, <3>3, Flattened
  <2>2. CASE ~IsContainer(At(v, p))
    <3>1. below[p] = <<>> \/ below[p] = <<p>>
      <4>1. LeavesBelowOf(v, below, p) = IF At(v, p) = Null THEN <<>> ELSE <<p>>
        BY <2>2 DEF LeavesBelowOf
      <4> QED BY <1>0, <4>1
    <3>2. <<>> \in Seq(Nodes(v)) /\ <<p>> \in Seq(Nodes(v))
      OBVIOUS
    <3> QED BY <3>1, <3>2
  <2> QED BY <2>1, <2>2
<1>3. \A p \in Nodes(v) : below[p] \in Seq(Nodes(v))
  <2>1. Nodes(v) \subseteq U
    <3> HIDE DEF U
    <3> QED BY <1>2, FromBelow
  <2> QED BY <2>1
<1>4. <<>> \in T
  BY <1>3, PlacesOfATree
<1>5. ASSUME NEW p \in Nodes(v), p \in T, IsContainer(At(v, p)), NEW i \in DOMAIN At(v, p).items
      PROVE  Append(p, i) \in T
  <2> DEFINE lists == [j \in DOMAIN At(v, p).items |-> below[Append(p, j)]]
             n == Len(At(v, p).items)
  <2>1. /\ below[p] = FlattenSeq(lists) /\ n \in Nat /\ lists = [j \in 1..n |-> lists[j]]
        /\ DOMAIN At(v, p).items = 1..n
        /\ \A j \in 1..n : lists[j] = below[Append(p, j)] /\ Append(p, j) \in Nodes(v)
    BY <1>1, <1>5
  <2>2. \A j \in 1..n : lists[j] \in Seq(Nodes(v))
    BY <1>3, <2>1
  <2> HIDE DEF lists, n
  <2>3. lists \in Seq(Seq(Nodes(v))) /\ Len(lists) = n /\ i \in 1..n
    BY <1>5, <2>1, <2>2, SequenceOf
  <2>4. ToSet(lists[i]) \subseteq ToSet(FlattenSeq(lists))
    BY <2>3, Flattened
  <2>5. ToSet(below[p]) \subseteq all
    BY <1>5
  <2> HIDE DEF all
  <2> QED BY <1>3, <2>1, <2>3, <2>4, <2>5
<1>6. Nodes(v) \subseteq T
  <2> HIDE DEF T
  <2> QED BY <1>4, <1>5, FromAbove
<1>7. ASSUME NEW p \in Places(v) PROVE p \in all
  <2>1. below[p] = <<p>> /\ p \in Nodes(v)
    BY <1>0 DEF LeavesBelowOf, Places
  <2>2. ToSet(<<p>>) \subseteq all
    BY <1>6, <2>1
  <2> HIDE DEF all
  <2>3. p \in ToSet(<<p>>)
    BY DEF ToSet
  <2> QED BY <2>2, <2>3
<1> QED BY <1>7 DEF below

\* The walk leaves keys where they are, and so the path that it brings to a place.
LEMMA SamePath ==
  ASSUME NEW v, IsTree(v), NEW new, NEW c, IsTree(c), Nodes(c) = Nodes(v),
         \A p \in Nodes(v) : IsContainer(At(v, p)) => At(c, p) = Rebuilt(At(v, p), p, new)
  PROVE  \A p \in Nodes(v) : Path(c, p) = Path(v, p)
<1> DEFINE T == {p \in Nodes(v) : Path(c, p) = Path(v, p)}
<1>1. <<>> \in T
  BY PlacesOfATree, AtTheTop DEF Path
<1>2. ASSUME NEW p \in Nodes(v), p \in T, IsContainer(At(v, p)), NEW i \in DOMAIN At(v, p).items
      PROVE  Append(p, i) \in T
  <2> DEFINE w == At(v, p)
             x == At(c, p)
             t == Path(v, p)
  <2>1. x = Rebuilt(w, p, new)
    BY <1>2
  <2>2. /\ x.kind = w.kind /\ DOMAIN x.items = DOMAIN w.items
        /\ w.kind = "map" => /\ IsRemark(x.items[i]) <=> IsRemark(w.items[i])
                             /\ ~IsRemark(w.items[i]) => x.items[i].key = w.items[i].key
    BY <1>2, <2>1, ContainerRebuilt
  <2>3. Append(p, i) \in Nodes(v) /\ Context(v, Append(p, i)) = Inside(Context(v, p), w, p, i)
    BY <1>2, TreeStep
  <2>4. Context(c, Append(p, i)) = Inside(Context(c, p), x, p, i)
    <3>1. IsContainer(x) /\ i \in DOMAIN x.items /\ p \in Nodes(c)
      BY <1>2, <2>2 DEF IsContainer
    <3> QED BY <3>1, TreeStep
  <2>5. Path(c, p) = t
    BY <1>2
  <2>6. Path(v, Append(p, i)) = IF w.kind = "map" /\ ~IsRemark(w.items[i]) THEN Append(t, w.items[i].key.name) ELSE t
    BY <2>3 DEF Path, Inside
  <2>7. Path(c, Append(p, i)) = IF x.kind = "map" /\ ~IsRemark(x.items[i]) THEN Append(t, x.items[i].key.name) ELSE t
    BY <2>4, <2>5 DEF Path, Inside
  <2> HIDE DEF w, x, t
  <2>8. Path(c, Append(p, i)) = Path(v, Append(p, i))
    BY <2>2, <2>6, <2>7
  <2> QED BY <2>3, <2>8
<1>3. Nodes(v) \subseteq T
  <2> HIDE DEF T
  <2> QED BY <1>1, <1>2, FromAbove
<1> QED BY <1>3

\* What decryption finds at a leaf is the ciphertext of what it puts there, or nothing; where a
\* ciphertext disappears, it has found that.
LEMMA OpenedLeaf ==
  ASSUME NEW meta, NEW g, IsTree(g), Sound(g, "genuine"), NEW b, b = Walk(meta, g, Decrypting).value,
         NEW q \in Places(g), NEW on, on = OnLeaf(meta, g, q, Decrypting)
  PROVE  LET o == Encrypted(g, q) IN
         /\ on.opened = <<>> \/ (on.opened = <<o>> /\ Genuine(o) /\ o.of = At(b, q) /\ o.path = Path(g, q))
         /\ IsSealed(At(g, q)) /\ ~IsSealed(At(b, q)) => on.opened = <<o>>
<1> DEFINE new == NewValues(meta, g, Decrypting)
           a == At(g, q)
           o == Encrypted(g, q)
           y == on.value
<1>1. q \in Nodes(g) /\ Sound(a, "genuine")
  BY SoundPlaces DEF Places
<1>2. \A p \in Places(g) : ~IsContainer(OnLeaf(meta, g, p, Decrypting).value)
  BY WalkSound
<1>3. b = new[<<>>]
  BY DEF Walk
<1>4. At(b, q) = Standing(g, new, q) /\ new[q] = y
  BY <1>1, <1>2, <1>3, NewTree
<1>5. InRemark(g, q) => IsComment(a)
  BY <1>1, RemarksAreComments
<1>6. At(b, q) = IF InRemark(g, q) /\ ~IsComment(y) THEN Comment(y) ELSE y
  BY <1>4 DEF Standing
<1>7. o = IF IsComment(a) THEN a.string ELSE a
  BY DEF Encrypted, String
<1>8. \/ y = a /\ on.opened = <<>>
      \/ o = Blank /\ on.opened = <<>>
      \/ o # Blank /\ o.kind = "sealed" /\ o.path = Path(g, q) /\ y = o.of /\ on.opened = <<o>>
  BY DEF OnLeaf, DecryptLeaf, Decrypting, Opens, CipherDecrypt, Encrypted, String
<1>9. IsSealed(a) <=> o.kind = "sealed"
  BY <1>7 DEF IsSealed, IsComment
<1>10. o.kind = "sealed" => Genuine(o) /\ (IsComment(a) => IsComment(o.of))
  BY <1>1, <1>7, GenuineInside
<1> HIDE DEF a, o, new, y
<1>11. CASE on.opened = <<o>> /\ o # Blank /\ o.kind = "sealed" /\ o.path = Path(g, q) /\ y = o.of
  <2>1. o.of = At(b, q)
    BY <1>5, <1>6, <1>10, <1>11
  <2> QED BY <1>10, <1>11, <2>1 DEF o
<1>12. CASE on.opened = <<>> /\ y = a
  <2>1. At(b, q) = a
    BY <1>5, <1>6, <1>12
  <2> QED BY <1>12, <2>1 DEF a
<1>13. CASE on.opened = <<>> /\ o = Blank
  <2>1. ~IsSealed(a)
    BY <1>9, <1>13 DEF Blank, Leaf
  <2> QED BY <1>13, <2>1 DEF a
<1> QED BY <1>8, <1>11, <1>12, <1>13

\* The only ciphertext among them of its value and its path.
OnlyOne(o, all) == o \in all /\ \A x \in all : x.of = o.of /\ x.path = o.path => x = o

\* Encryption takes the IV of that ciphertext for its value and its path.
TakesIV(opened, o) == \A n, p : IVFor(Encrypting(Stashed(opened), n), o.of, o.path, p) = o.iv

\* Of a value and a path that decryption has found with one IV only, encryption takes that IV.
LEMMA IVIsTaken ==
  ASSUME NEW S, NEW opened \in Seq(S), NEW o, OnlyOne(o, ToSet(opened))
  PROVE  TakesIV(opened, o)
<1> SUFFICES ASSUME NEW n, NEW p, NEW a, a = o.of, NEW t, t = o.path
             PROVE  IVFor(Encrypting(Stashed(opened), n), a, t, p) = o.iv
  BY DEF TakesIV
<1> DEFINE k == Len(opened)
           same(c, d) == c.of = d.of /\ c.path = d.path
           final == {i \in DOMAIN opened : \A j \in (i + 1)..Len(opened) : ~same(opened[i], opened[j])}
           stashed == Stashed(opened)
           entry(i) == [value |-> opened[i].of, path |-> opened[i].path, iv |-> opened[i].iv]
           found == {s \in stashed : s.value = a /\ s.path = t}
           D == {i \in 1..k : opened[i].of = a /\ opened[i].path = t}
<1>1. k \in Nat /\ DOMAIN opened = 1..k /\ \A i \in 1..k : opened[i] \in ToSet(opened)
  BY ElementsOf
<1>2. stashed = {entry(i) : i \in final}
  BY DEF Stashed
<1>3. D # {}
  BY <1>1 DEF ToSet, OnlyOne
<1>4. Max(D) \in D /\ \A y \in D : Max(D) >= y
  <2>1. D \subseteq 1..k
    OBVIOUS
  <2> HIDE DEF D, k
  <2> QED BY <1>1, <1>3, <2>1, TheLast
<1>5. PICK m \in D : \A y \in D : m >= y
  BY <1>4
<1>6. m \in final
  <2>1. ASSUME NEW j \in (m + 1)..k, same(opened[m], opened[j]) PROVE FALSE
    <3>1. m \in 1..k /\ j \in 1..k /\ j > m
      BY <1>1
    <3>2. j \in D
      BY <2>1, <3>1
    <3>3. m >= j
      BY <1>5, <3>2
    <3> QED BY <1>1, <3>1, <3>3
  <2> QED BY <1>1, <2>1
<1>7. entry(m) \in found
  BY <1>2, <1>6
<1>8. ASSUME NEW s \in found PROVE s.iv = o.iv
  <2>1. PICK i \in final : s = entry(i)
    BY <1>2
  <2>2. opened[i] \in ToSet(opened) /\ opened[i].of = a /\ opened[i].path = t
    BY <1>1, <2>1
  <2>3. opened[i] = o
    BY <2>2 DEF OnlyOne
  <2> QED BY <2>1, <2>3
<1>9. IVFor(Encrypting(stashed, n), a, t, p) = IF found = {} THEN <<n, p>> ELSE (CHOOSE s \in found : TRUE).iv
  BY DEF IVFor, Encrypting
<1> HIDE DEF found, stashed, entry
<1>10. (CHOOSE s \in found : TRUE) \in found /\ found # {}
  BY <1>7
<1> QED BY <1>8, <1>9, <1>10 DEF stashed

\* A value that the edit did not touch, and that has no equal in its list, gets the ciphertext that
\* it had: decryption has put the IV in the stash, and encryption finds it there.
LEMMA CiphertextKept ==
  ASSUME NEW meta, NEW g, IsTree(g), Sound(g, "genuine"), NEW d, d = Walk(meta, g, Decrypting),
         NEW b, b = d.value, NEW opened, opened = d.opened,
         NEW v, IsTree(v), Sound(v, "genuine"), NEW n, NEW cipher, cipher = Encrypting(Stashed(opened), n),
         NEW c, c = Walk(meta, v, cipher).value,
         NEW p, p \in Places(b), p \in Places(v), At(v, p) = At(b, p), Path(v, p) = Path(b, p), Alone(b, p),
         ~IsSealed(At(v, p)), IsSealed(At(c, p)), IsSealed(At(g, p))
  PROVE  Encrypted(c, p) = Encrypted(g, p)
<1> DEFINE new == NewValues(meta, g, Decrypting)
           leaves == LeavesBelow(g)[<<>>]
           on(q) == OnLeaf(meta, g, q, Decrypting)
           o == Encrypted(g, p)
           a == At(v, p)
           t == Path(v, p)
           iv == IVFor(cipher, a, t, p)
<1>1. \A q \in Places(g) : ~IsContainer(on(q).value) /\ on(q).value # Null
  BY WalkSound
<1>2. b = new[<<>>]
  BY DEF Walk
<1>3. /\ Nodes(b) = Nodes(g) /\ IsTree(b)
      /\ \A q \in Nodes(g) : /\ At(b, q) = Standing(g, new, q)
                             /\ IsContainer(At(g, q)) => At(b, q) = Rebuilt(At(g, q), q, new)
                             /\ ~IsContainer(At(g, q)) => ~IsContainer(At(b, q))
                             /\ At(g, q) = Null => At(b, q) = Null
      /\ \A q \in Places(g) : new[q] = on(q).value
  BY <1>1, <1>2, NewTree
<1> HIDE DEF new
<1>4. \A q \in Nodes(g) : Path(b, q) = Path(g, q)
  BY <1>3, SamePath
<1>5. Places(g) = Places(b)
  <2>1. ASSUME NEW q \in Places(b) PROVE q \in Places(g)
    <3>1. q \in Nodes(g) /\ ~IsContainer(At(b, q)) /\ At(b, q) # Null
      BY <1>3, <2>1 DEF Places
    <3>2. ~IsContainer(At(g, q))
      <4>1. SUFFICES ASSUME IsContainer(At(g, q)) PROVE FALSE
        OBVIOUS
      <4>2. At(b, q) = Rebuilt(At(g, q), q, new)
        BY <1>3, <3>1, <4>1
      <4>3. At(b, q).kind = At(g, q).kind
        BY <3>1, <4>1, <4>2, ContainerRebuilt
      <4> QED BY <3>1, <4>1, <4>3 DEF IsContainer
    <3> QED BY <1>3, <3>1, <3>2 DEF Places
  <2>2. ASSUME NEW q \in Places(g) PROVE q \in Places(b)
    <3>1. q \in Nodes(b) /\ ~IsContainer(At(b, q)) /\ At(b, q) = Standing(g, new, q)
      BY <1>3, <2>2 DEF Places
    <3>2. new[q] # Null
      BY <1>1, <1>3, <2>2
    <3>3. At(b, q) # Null
      BY <3>1, <3>2 DEF Standing, Comment, Null
    <3> QED BY <3>1, <3>3 DEF Places
  <2> QED BY <2>1, <2>2
<1>6. ASSUME NEW q \in Places(g)
      PROVE  /\ \/ on(q).opened = <<>>
                \/ /\ on(q).opened = <<Encrypted(g, q)>> /\ Genuine(Encrypted(g, q))
                   /\ Encrypted(g, q).of = At(b, q) /\ Encrypted(g, q).path = Path(g, q)
             /\ IsSealed(At(g, q)) /\ ~IsSealed(At(b, q)) => on(q).opened = <<Encrypted(g, q)>>
  BY <1>6, OpenedLeaf
<1> DEFINE S == {Encrypted(g, q) : q \in {q \in Places(g) : on(q).opened = <<Encrypted(g, q)>>}}
           lists == [i \in DOMAIN leaves |-> on(leaves[i]).opened]
           k == Len(leaves)
<1>7. leaves \in Seq(Places(g)) /\ Places(g) \subseteq ToSet(leaves)
  BY LeavesArePlaces, AllLeaves
<1>8. k \in Nat /\ DOMAIN leaves = 1..k /\ \A i \in 1..k : leaves[i] \in Places(g)
  <2> HIDE DEF leaves
  <2> QED BY <1>7
<1>9. opened = FlattenSeq(lists)
  BY DEF Walk
<1> HIDE DEF leaves
<1>10. ASSUME NEW i \in 1..k PROVE lists[i] \in Seq(S)
  <2> DEFINE q == leaves[i]
  <2>1. q \in Places(g) /\ lists[i] = on(q).opened
    BY <1>8
  <2>2. CASE on(q).opened = <<>>
    <3>1. lists[i] = <<>>
      BY <2>1, <2>2
    <3> HIDE DEF lists, S
    <3> QED BY <3>1
  <2>3. CASE on(q).opened = <<Encrypted(g, q)>>
    <3> DEFINE x == Encrypted(g, q)
    <3>1. lists[i] = <<x>> /\ x \in S
      BY <2>1, <2>3
    <3> HIDE DEF lists, S, x
    <3> QED BY <3>1
  <2> QED BY <1>6, <2>1, <2>2, <2>3
<1>11. lists = [i \in 1..k |-> lists[i]]
  BY <1>8
<1>12. PICK j \in 1..k : leaves[j] = p
  BY <1>5, <1>7, <1>8 DEF ToSet
<1>13. on(p).opened = <<o>> /\ Genuine(o) /\ o.of = a /\ o.path = t
  <2>1. p \in Places(g) /\ ~IsSealed(At(b, p)) /\ p \in Nodes(g)
    BY <1>5 DEF Places
  <2>2. on(p).opened = <<o>>
    BY <1>6, <2>1
  <2>3. on(p).opened # <<>>
    BY <2>2
  <2> QED BY <1>4, <1>6, <2>1, <2>2, <2>3
<1>14. lists[j] = <<o>>
  BY <1>8, <1>12, <1>13
<1>15. ASSUME NEW x \in S, x.of = o.of, x.path = o.path PROVE x = o
  <2>1. PICK q \in Places(g) : on(q).opened = <<Encrypted(g, q)>> /\ x = Encrypted(g, q)
    BY <1>15
  <2>2. on(q).opened # <<>>
    BY <2>1
  <2>3. x.of = At(b, q) /\ x.path = Path(b, q)
    BY <1>4, <1>6, <2>1, <2>2 DEF Places
  <2>4. At(b, q) = At(b, p) /\ Path(b, q) = Path(b, p)
    BY <1>13, <1>15, <2>3
  <2>5. q = p
    BY <1>5, <2>4 DEF Alone
  <2> QED BY <2>1, <2>5
<1> HIDE DEF lists, S, k, o, on
<1>16. lists \in Seq(Seq(S)) /\ Len(lists) = k
  BY <1>8, <1>10, <1>11, SequenceOf
<1>17. opened \in Seq(S) /\ ToSet(lists[j]) \subseteq ToSet(opened)
  BY <1>9, <1>16, Flattened
<1>18. o \in ToSet(opened) /\ ToSet(opened) \subseteq S
  <2>1. o \in ToSet(<<o>>)
    BY DEF ToSet
  <2> QED BY <1>14, <1>17, <2>1, ElementsOf
<1>19. iv = o.iv
  <2>1. OnlyOne(o, ToSet(opened))
    BY <1>15, <1>18 DEF OnlyOne
  <2>2. TakesIV(opened, o)
    BY <1>17, <2>1, IVIsTaken
  <2> QED BY <1>13, <2>2 DEF TakesIV
<1> DEFINE nv == NewValues(meta, v, cipher)
           x == OnLeaf(meta, v, p, cipher)
           should == ShouldBeEncrypted(meta, v, p)
<1>20. \A q \in Places(v) : ~IsContainer(OnLeaf(meta, v, q, cipher).value)
  BY WalkSound
<1>21. c = nv[<<>>] /\ p \in Nodes(v)
  BY DEF Walk, Places
<1>22. At(c, p) = Standing(v, nv, p) /\ nv[p] = x.value
  BY <1>20, <1>21, NewTree
<1>23. InRemark(v, p) => IsComment(a)
  BY <1>21, RemarksAreComments
<1>24. x.value = IF should THEN IF Empty(a) THEN Blank ELSE Sealed(a, t, iv) ELSE a
  <2>1. x = OnLeaf(meta, v, p, Encrypting(Stashed(opened), n))
    OBVIOUS
  <2>2. iv = IVFor(Encrypting(Stashed(opened), n), At(v, p), Path(v, p), p)
    OBVIOUS
  <2> HIDE DEF x, iv
  <2>3. /\ ~should => x.value = At(v, p)
        /\ should => x.value = IF Empty(At(v, p)) THEN Blank ELSE Sealed(At(v, p), Path(v, p), iv)
    BY <2>1, <2>2, EncryptedValue
  <2> QED BY <2>3
<1>25. At(c, p) = IF InRemark(v, p) /\ ~IsComment(x.value) THEN Comment(x.value) ELSE x.value
  BY <1>22 DEF Standing
<1>26. ~IsSealed(Blank) /\ ~IsSealed(Comment(Blank)) /\ ~IsSealed(a)
  BY DEF Blank, Leaf, Comment, IsSealed, IsComment
<1> HIDE DEF nv, x, should, a, t, iv
<1>27. x.value = Sealed(a, t, iv)
  BY <1>23, <1>24, <1>25, <1>26
<1>28. x.value = o /\ o.kind = "sealed"
  BY <1>13, <1>19, <1>27 DEF Genuine, Sealed
<1>29. At(c, p) = o \/ At(c, p) = Comment(o)
  BY <1>25, <1>28
<1>30. Encrypted(c, p) = o
  BY <1>28, <1>29 DEF Encrypted, String, Comment, IsComment
<1> QED BY <1>30 DEF o

-----------------------------------------------------------------------------
(***************************************************************************)
(* The behaviours                                                          *)
(***************************************************************************)
\* A stored document is what an encryption has made of the tree, which stays in the state.
CipherInv ==
  /\ IsTree(tree) /\ rule \in Rules
  /\ phase = "stored" => \E s, n :
       LET w == Walk(rule, tree, Encrypting(s, n))
       IN file = [tree |-> w.value, mac |-> Mac(rule, w)] /\ (~tangled => ~w.tangled)

\* The stored document is always what an encryption made of the tree (EncryptTree).
THEOREM CipherInvHolds == CipherSpec => []CipherInv
<1>1. CipherInit => CipherInv
  BY TreeAssumption DEF CipherInit, CipherInv
<1>2. CipherInv /\ [CipherNext]_cipherVars => CipherInv'
  <2> SUFFICES ASSUME CipherInv, [CipherNext]_cipherVars PROVE CipherInv'
    OBVIOUS
  <2>1. CASE EncryptTree
    <3> DEFINE w == Walk(rule, tree, Encrypting(stash, round))
    <3>1. tree' = tree /\ rule' = rule
      BY <2>1 DEF EncryptTree, Stored
    <3>2. CASE Emits(format, w.value)
      <4>1. file' = [tree |-> w.value, mac |-> Mac(rule, w)] /\ tangled' = (tangled \/ w.tangled)
        BY <2>1, <3>2 DEF EncryptTree, Stored
      <4>2. file' = [tree |-> w.value, mac |-> Mac(rule, w)] /\ (~tangled' => ~w.tangled)
        BY <4>1
      <4> QED BY <3>1, <4>2 DEF CipherInv
    <3>3. CASE ~Emits(format, w.value)
      <4>1. phase' = "refused"
        BY <2>1, <3>3 DEF EncryptTree, Stored
      <4> QED BY <3>1, <4>1 DEF CipherInv
    <3> QED BY <3>2, <3>3
  <2>2. CASE (DecryptTree \/ \E e \in Edits : Set(e) \/ Unset(e)) /\ IsTree(tree')
    <3>1. rule' = rule /\ phase' # "stored"
      BY <2>2 DEF DecryptTree, Opened, Set, Unset, Edited
    <3> QED BY <2>2, <3>1 DEF CipherInv
  <2>3. CASE UNCHANGED cipherVars
    BY <2>3 DEF CipherInv, cipherVars
  <2> QED BY <2>1, <2>2, <2>3 DEF CipherNext
<1> QED BY <1>1, <1>2, PTL DEF CipherSpec

\* What was encrypted decrypts to what it was, with the MAC it was written with, whatever the
\* comments and the rule, unless a comment of a list was encrypted or the format has not kept
\* the tree (DecryptTree, walkSlice and walkBranch with their stack of comments).
THEOREM DecryptionUndoesEncryption == CipherSpec => DecryptUndoesEncrypt
<1>1. ASSUME CipherInv, [CipherNext]_cipherVars, phase = "stored" /\ ~tangled /\ ReadsAsWritten,
             ~UNCHANGED cipherVars
      PROVE  phase' = "open" /\ tree' = tree
  <2>1. DecryptTree
    BY <1>1 DEF CipherNext, EncryptTree, Set, Unset
  <2>2. PICK s, n : LET w == Walk(rule, tree, Encrypting(s, n))
                    IN file = [tree |-> w.value, mac |-> Mac(rule, w)] /\ ~w.tangled
    BY <1>1 DEF CipherInv
  <2> DEFINE w == Walk(rule, tree, Encrypting(s, n))
             c == w.value
             d == Walk(rule, c, Decrypting)
  <2>3. Reload(format, file.tree) = w.value /\ file.mac = Mac(rule, w)
    BY <1>1, <2>2 DEF ReadsAsWritten
  <2>4. d.value = tree /\ d.ok /\ d.hash = w.hash
    <3>1. IsTree(tree) /\ ~w.tangled
      BY <1>1, <2>2 DEF CipherInv
    <3>2. w = Walk(rule, tree, Encrypting(s, n)) /\ c = w.value /\ d = Walk(rule, c, Decrypting)
      OBVIOUS
    <3> HIDE DEF w, c, d
    <3> QED BY <3>1, <3>2, DecryptedTree
  <2>5. file.mac = Mac(rule, d)
    BY <2>3, <2>4 DEF Mac
  <2>6. d = Walk(rule, Reload(format, file.tree), Decrypting)
    BY <2>3
  <2> HIDE DEF d, w
  <2> QED BY <2>1, <2>4, <2>5, <2>6 DEF DecryptTree, Opened
<1>2. CipherInv /\ [CipherNext]_cipherVars
      => [phase = "stored" /\ ~tangled /\ ReadsAsWritten => phase' = "open" /\ tree' = tree]_cipherVars
  BY <1>1
<1> QED BY <1>2, CipherInvHolds, PTL DEF CipherSpec, DecryptUndoesEncrypt

\* What is encrypted in a stored document is what the closest directive or the rule says of each
\* place alone, at any depth, and no comment that is not marked.
THEOREM EncryptsWhatIsMeantHolds == CipherSpec => []EncryptsWhatIsMeant
<1>1. CipherInv => EncryptsWhatIsMeant
  <2> SUFFICES ASSUME CipherInv, phase = "stored", NEW p \in Places(tree),
                      ~Empty(At(tree, p)), ~IsSealed(At(tree, p))
               PROVE  IsSealed(At(file.tree, p)) <=> Meant(tree, p)
    BY DEF EncryptsWhatIsMeant
  <2>1. PICK s, n : file.tree = Walk(rule, tree, Encrypting(s, n)).value
    BY DEF CipherInv
  <2> DEFINE c == file.tree
  <2>2. c = Walk(rule, tree, Encrypting(s, n)).value /\ IsTree(tree) /\ rule \in Rules
    BY <2>1 DEF CipherInv
  <2> HIDE DEF c
  <2>3. IsSealed(At(c, p)) <=> Meant(tree, p)
    BY <2>2, SealedIsMeant
  <2> QED BY <2>3 DEF c
<1> QED BY <1>1, CipherInvHolds, PTL

\* A document that no encryption and no format has spoilt is plain.
PlainInv ==
  /\ CipherInv /\ format \in Formats /\ round \in 0..MaxRounds
  /\ phase \in {"plain", "stored", "open", "refused", "failed"}
  /\ ~tangled /\ ~lossy => Sound(tree, "plain")

\* A document stays plain: decryption gives back what was encrypted, and an edit adds nothing
\* that is sealed.
THEOREM PlainInvHolds == CipherSpec => []PlainInv
<1>1. CipherInit => PlainInv
  <2> SUFFICES ASSUME CipherInit PROVE PlainInv
    OBVIOUS
  <2>1. CipherInv /\ rule \in Rules
    BY TreeAssumption DEF CipherInit, CipherInv
  <2>2. PICK d \in Documents : format = d.format /\ tree = d.tree
    BY DEF CipherInit
  <2>3. format \in Formats /\ IsPlain(tree)
    BY <2>2, TreeAssumption, PlainAssumption
  <2>4. Sound(tree, "plain")
    BY <2>3, SoundTree DEF IsPlain
  <2> QED BY <2>1, <2>3, <2>4, TreeAssumption DEF CipherInit, PlainInv
<1>2. CipherInv' /\ PlainInv /\ [CipherNext]_cipherVars => PlainInv'
  <2> SUFFICES ASSUME CipherInv', PlainInv, [CipherNext]_cipherVars PROVE PlainInv'
    OBVIOUS
  <2>0. CipherInv /\ MaxRounds \in Nat
    BY TreeAssumption DEF PlainInv
  <2>1. CASE EncryptTree
    <3>1. tree' = tree /\ lossy' = lossy /\ format' = format /\ round < MaxRounds
      BY <2>1 DEF EncryptTree
    <3> DEFINE w == Walk(rule, tree, Encrypting(stash, round))
    <3>2. Stored(w)
      BY <2>1 DEF EncryptTree
    <3> HIDE DEF w
    <3>3. /\ phase' \in {"stored", "refused"} /\ round' \in {round, round + 1}
          /\ tangled' = tangled \/ tangled' = (tangled \/ w.tangled)
      BY <3>2 DEF Stored
    <3>4. ~tangled' => ~tangled
      BY <3>3
    <3> QED BY <2>0, <3>1, <3>3, <3>4 DEF PlainInv
  <2>2. CASE DecryptTree
    <3>1. /\ phase = "stored" /\ phase' \in {"open", "failed"} /\ tangled' = tangled
          /\ lossy' = (lossy \/ ~ReadsAsWritten) /\ format' = format /\ round' = round
      BY <2>2 DEF DecryptTree, Opened
    <3>2. ASSUME ~tangled', ~lossy' PROVE Sound(tree', "plain")
      <4>1. ~tangled /\ ~lossy /\ ReadsAsWritten
        BY <3>1, <3>2
      <4>2. Sound(tree, "plain")
        BY <4>1 DEF PlainInv
      <4>3. PICK s, n : LET w == Walk(rule, tree, Encrypting(s, n))
                        IN file = [tree |-> w.value, mac |-> Mac(rule, w)] /\ ~w.tangled
        BY <2>0, <3>1, <4>1 DEF CipherInv
      <4> DEFINE w == Walk(rule, tree, Encrypting(s, n))
                 c == w.value
                 d == Walk(rule, c, Decrypting)
      <4>4. Reload(format, file.tree) = w.value
        BY <4>1, <4>3 DEF ReadsAsWritten
      <4>5. d.value = tree
        <5>1. IsTree(tree) /\ ~w.tangled
          BY <2>0, <4>3 DEF CipherInv
        <5>2. w = Walk(rule, tree, Encrypting(s, n)) /\ c = w.value /\ d = Walk(rule, c, Decrypting)
          OBVIOUS
        <5> HIDE DEF w, c, d
        <5> QED BY <5>1, <5>2, DecryptedTree
      <4>6. d = Walk(rule, Reload(format, file.tree), Decrypting)
        BY <4>4
      <4> HIDE DEF d, w
      <4>7. tree' = tree
        BY <2>2, <4>5, <4>6 DEF DecryptTree, Opened
      <4> QED BY <4>2, <4>7
    <3> QED BY <3>1, <3>2 DEF PlainInv
  <2>3. ASSUME NEW e \in Edits, Set(e) \/ Unset(e) PROVE PlainInv'
    <3> DEFINE path == e.path
    <3>1. /\ e.op \in {"set", "unset"} /\ (e.op = "set" => IsPlain(e.value))
          /\ path \in Seq(ToSet(path)) /\ \A d \in DOMAIN path : IsComponent(path[d])
      BY PlainAssumption
    <3>2. /\ phase' = "plain" /\ tangled' = tangled /\ lossy' = lossy /\ format' = format
          /\ round' = round
      BY <2>3 DEF Set, Unset, Edited
    <3>3. ASSUME ~tangled, ~lossy PROVE Sound(tree', "plain")
      <4>1. Sound(tree, "plain")
        BY <3>3 DEF PlainInv
      <4>2. CASE Set(e)
        <5> DEFINE r == SetIn(tree, path, e.value)
                   leaf == e.value
                   n == Len(path)
        <5>1. r.ok /\ tree' = r.value /\ e.op = "set"
          BY <4>2 DEF Set, Edited
        <5>2. Sound(leaf, "plain")
          BY <3>1, <5>1, SoundTree DEF IsPlain
        <5>3. r = SetIn(tree, path, leaf) /\ path # <<>>
          BY <5>1 DEF SetIn, Failed
        <5> HIDE DEF r, leaf, path
        <5>4. n = Len(path) /\ n \in Nat /\ \A d \in 1..n : IsComponent(path[d])
          BY <3>1, LenProperties
        <5> HIDE DEF n
        <5>5. Sound(r.value, "plain")
          BY <4>1, <5>1, <5>2, <5>3, <5>4, SetSound
        <5> QED BY <5>1, <5>5
      <4>3. CASE Unset(e)
        <5> DEFINE r == UnsetIn(tree, path)
                   n == Len(path) - 1
        <5>1. r.ok /\ tree' = r.value
          BY <4>3 DEF Unset, Edited
        <5>2. r = UnsetIn(tree, path) /\ path # <<>>
          BY <5>1 DEF UnsetIn, Failed
        <5> HIDE DEF r, path
        <5>3. n = Len(path) - 1 /\ n \in Nat /\ \A d \in 1..(n + 1) : IsComponent(path[d])
          <6>1. Len(path) \in Nat /\ DOMAIN path = 1..Len(path)
            BY <3>1, LenProperties
          <6>2. Len(path) # 0
            BY <3>1, <5>2
          <6> QED BY <3>1, <6>1, <6>2
        <5> HIDE DEF n
        <5>4. Sound(r.value, "plain")
          BY <4>1, <5>1, <5>2, <5>3, UnsetSound
        <5> QED BY <5>1, <5>4
      <4> QED BY <2>3, <4>2, <4>3
    <3> QED BY <3>2, <3>3 DEF PlainInv
  <2>4. CASE UNCHANGED cipherVars
    BY <2>4 DEF PlainInv, cipherVars
  <2> QED BY <2>1, <2>2, <2>3, <2>4 DEF CipherNext
<1> QED BY <1>1, <1>2, CipherInvHolds, PTL DEF CipherSpec

\* An open document has no ciphertext left in it, however often it was encrypted, decrypted and
\* edited, unless a comment of a list was encrypted or a format has not kept an encrypted tree.
THEOREM CipherTypeOKHolds == CipherSpec => []CipherTypeOK
<1>1. PlainInv => CipherTypeOK
  <2> SUFFICES ASSUME PlainInv PROVE CipherTypeOK
    OBVIOUS
  <2>1. IsTree(tree) /\ rule \in Rules
    BY DEF PlainInv, CipherInv
  <2>2. ASSUME ~tangled, ~lossy PROVE \A p \in Places(tree) : ~IsSealed(At(tree, p))
    <3>1. Sound(tree, "plain")
      BY <2>2 DEF PlainInv
    <3> QED BY <2>1, <3>1, PlainPlaces
  <2> QED BY <2>1, <2>2 DEF PlainInv, CipherTypeOK
<1> QED BY <1>1, PlainInvHolds, PTL

\* What is known of the last edit: what it was and what came of it.
LastInv ==
  LET e == last.edit
      made(r) == r.ok /\ last.after = r.value /\ last.changed = r.changed
  IN /\ IsTree(last.before)
     /\ e.op = "set" => e \in Edits /\ made(SetIn(last.before, e.path, e.value))
     /\ e.op = "unset" => e \in Edits /\ made(UnsetIn(last.before, e.path))

\* The last edit is one of those the user may do, of a document that is a tree.
THEOREM LastInvHolds == CipherSpec => []LastInv
<1>1. CipherInit => LastInv
  <2> SUFFICES ASSUME CipherInit PROVE LastInv
    OBVIOUS
  <2>1. IsTree(tree)
    BY TreeAssumption DEF CipherInit
  <2>2. last.before = tree /\ last.edit.op = "none"
    BY DEF CipherInit, NoEdit
  <2> QED BY <2>1, <2>2 DEF LastInv
<1>2. CipherInv /\ LastInv /\ [CipherNext]_cipherVars => LastInv'
  <2> SUFFICES ASSUME CipherInv, LastInv, [CipherNext]_cipherVars PROVE LastInv'
    OBVIOUS
  <2>1. CASE last' = last
    BY <2>1 DEF LastInv
  <2>2. ASSUME NEW e \in Edits, Set(e) PROVE LastInv'
    <3> DEFINE r == SetIn(tree, e.path, e.value)
    <3>1. /\ r.ok /\ e.op = "set"
          /\ last' = [before |-> tree, after |-> r.value, sealed |-> Reload(format, file.tree),
                      edit |-> e, changed |-> r.changed]
      BY <2>2 DEF Set, Edited
    <3>2. IsTree(tree)
      BY DEF CipherInv
    <3>3. /\ last'.before = tree /\ last'.edit = e /\ last'.after = r.value /\ last'.changed = r.changed
          /\ r = SetIn(tree, e.path, e.value)
      BY <3>1
    <3> HIDE DEF r
    <3> QED BY <3>1, <3>2, <3>3 DEF LastInv
  <2>3. ASSUME NEW e \in Edits, Unset(e) PROVE LastInv'
    <3> DEFINE r == UnsetIn(tree, e.path)
    <3>1. /\ r.ok /\ e.op = "unset"
          /\ last' = [before |-> tree, after |-> r.value, sealed |-> Reload(format, file.tree),
                      edit |-> e, changed |-> r.changed]
      BY <2>3 DEF Unset, Edited
    <3>2. IsTree(tree)
      BY DEF CipherInv
    <3>3. /\ last'.before = tree /\ last'.edit = e /\ last'.after = r.value /\ last'.changed = r.changed
          /\ r = UnsetIn(tree, e.path)
      BY <3>1
    <3> HIDE DEF r
    <3> QED BY <3>1, <3>2, <3>3 DEF LastInv
  <2>4. EncryptTree \/ DecryptTree \/ UNCHANGED cipherVars => last' = last
    BY DEF EncryptTree, DecryptTree, cipherVars
  <2> QED BY <2>1, <2>2, <2>3, <2>4 DEF CipherNext
<1> QED BY <1>1, <1>2, CipherInvHolds, PTL DEF CipherSpec

\* An edit does what it says and nothing else, to documents of any shape (set, unset, Truncate).
THEOREM EditsAreLocalHolds == CipherSpec => []EditsAreLocal
<1>1. LastInv => EditsAreLocal
  <2> SUFFICES ASSUME LastInv PROVE EditsAreLocal
    OBVIOUS
  <2> DEFINE v == last.before
             u == last.after
             e == last.edit
             path == e.path
             S == ToSet(path)
  <2>1. IsTree(v)
    BY DEF LastInv
  <2>2. ASSUME e.op = "set"
        PROVE  /\ Fits(v, path) => Truncate(u, path) = Found(e.value)
               /\ ~last.changed => u = v
               /\ ElsewhereSame(v, u, path)
    <3> DEFINE leaf == e.value
               r == SetIn(v, path, leaf)
    <3>1. e \in Edits /\ r.ok /\ u = r.value /\ last.changed = r.changed
      BY <2>2 DEF LastInv
    <3>2. path \in Seq(S) /\ \A d \in DOMAIN path : IsComponent(path[d])
      BY <3>1, PlainAssumption
    <3>3. r = SetIn(v, path, leaf)
      OBVIOUS
    <3> HIDE DEF r, leaf, u, v, S, path
    <3>4. /\ Fits(v, path) => Truncate(u, path) = Found(leaf)
          /\ ~r.changed => u = v
          /\ ElsewhereSame(v, u, path)
      BY <2>1, <3>1, <3>2, <3>3, SetIsLocal
    <3> QED BY <3>1, <3>4 DEF leaf
  <2>3. ASSUME e.op = "unset", Last(path).kind = "key"
        PROVE  /\ NotTwice(v, path) => ~Truncate(u, path).ok
               /\ ElsewhereSame(v, u, path)
    <3> DEFINE r == UnsetIn(v, path)
    <3>1. e \in Edits /\ r.ok /\ u = r.value
      BY <2>3 DEF LastInv
    <3>2. path \in Seq(S) /\ \A d \in DOMAIN path : IsComponent(path[d])
      BY <3>1, PlainAssumption
    <3>3. r = UnsetIn(v, path)
      OBVIOUS
    <3> HIDE DEF r, u, v, S, path
    <3> QED BY <2>1, <2>3, <3>1, <3>2, <3>3, UnsetIsLocal
  <2> QED BY <2>2, <2>3 DEF EditsAreLocal, ElsewhereSame
<1> QED BY <1>1, LastInvHolds, PTL

\* Whatever has happened to a document, all that is sealed in it, and in the file, is as the cipher
\* makes it.
GenuineInv ==
  /\ Sound(tree, "genuine") /\ tree.kind = "map"
  /\ phase = "stored" => /\ Emits(format, file.tree)
                         /\ Sound(file.tree, "genuine") /\ file.tree.kind = "map" /\ IsTree(file.tree)

\* A document stays genuine: neither the walk nor a format nor an edit breaks a ciphertext up.
THEOREM GenuineInvHolds == CipherSpec => []GenuineInv
<1>1. CipherInit => GenuineInv
  <2> SUFFICES ASSUME CipherInit PROVE GenuineInv
    OBVIOUS
  <2>1. PICK d \in Documents : tree = d.tree
    BY DEF CipherInit
  <2>2. IsPlain(tree) /\ tree.kind = "map" /\ phase = "plain"
    BY <2>1, TreeAssumption, PlainAssumption DEF CipherInit
  <2>3. Sound(tree, "genuine")
    BY <2>2, SoundTree DEF IsPlain
  <2> QED BY <2>2, <2>3 DEF GenuineInv
<1>2. PlainInv /\ GenuineInv /\ [CipherNext]_cipherVars => GenuineInv'
  <2> SUFFICES ASSUME PlainInv, GenuineInv, [CipherNext]_cipherVars PROVE GenuineInv'
    OBVIOUS
  <2>0. IsTree(tree) /\ format \in Formats
    BY DEF PlainInv, CipherInv
  <2>1. CASE EncryptTree
    <3> DEFINE cipher == Encrypting(stash, round)
               w == Walk(rule, tree, cipher)
               c == w.value
    <3>1. tree' = tree /\ format' = format /\ Stored(w)
      BY <2>1 DEF EncryptTree
    <3>2. Sound(tree, "genuine") /\ tree.kind = "map" /\ \E s, n : cipher = Encrypting(s, n)
      BY DEF GenuineInv
    <3>3. c = Walk(rule, tree, cipher).value
      OBVIOUS
    <3> HIDE DEF cipher, w, c
    <3>4. IsTree(c) /\ Sound(c, "genuine") /\ \A p \in Places(tree) : ~IsContainer(OnLeaf(rule, tree, p, cipher).value)
      BY <2>0, <3>2, <3>3, WalkSound
    <3>5. c.kind = "map"
      BY <2>0, <3>2, <3>3, <3>4, WalkKeepsMap
    <3>6. phase' = "stored" => Emits(format, c) /\ file'.tree = c
      BY <3>1 DEF Stored, c
    <3> QED BY <3>1, <3>2, <3>4, <3>5, <3>6 DEF GenuineInv
  <2>2. CASE DecryptTree /\ IsTree(Reload(format, file.tree))
    <3> DEFINE g == Reload(format, file.tree)
               v == file.tree
               cipher == Decrypting
               c == Walk(rule, g, cipher).value
    <3>1. phase = "stored" /\ phase' \in {"open", "failed"} /\ tree' \in {tree, c}
      BY <2>2 DEF DecryptTree, Opened
    <3>2. IsTree(v) /\ Sound(v, "genuine") /\ v.kind = "map" /\ Emits(format, v)
      BY <3>1 DEF GenuineInv
    <3>3. g = Reload(format, v) /\ cipher = Decrypting /\ c = Walk(rule, g, cipher).value /\ IsTree(g)
      BY <2>2
    <3> HIDE DEF v, g, c, cipher
    <3>4. Sound(g, "genuine") /\ g.kind = "map"
      BY <2>0, <3>2, <3>3, ReloadSound
    <3>5. Sound(c, "genuine") /\ \A p \in Places(g) : ~IsContainer(OnLeaf(rule, g, p, cipher).value)
      BY <3>3, <3>4, WalkSound
    <3>6. c.kind = "map"
      BY <3>3, <3>4, <3>5, WalkKeepsMap
    <3> QED BY <3>1, <3>5, <3>6 DEF GenuineInv
  <2>3. ASSUME NEW e \in Edits, Set(e) \/ Unset(e) PROVE GenuineInv'
    <3> DEFINE path == e.path
               v == tree
    <3>1. /\ e.op \in {"set", "unset"} /\ (e.op = "set" => IsPlain(e.value))
          /\ path \in Seq(ToSet(path)) /\ \A d \in DOMAIN path : IsComponent(path[d])
      BY PlainAssumption
    <3>2. Sound(v, "genuine") /\ v.kind = "map" /\ Proper(v)
      BY SoundInside DEF GenuineInv
    <3>3. Len(path) \in Nat /\ DOMAIN path = 1..Len(path) /\ (path # <<>> => Len(path) # 0)
      BY <3>1, LenProperties
    <3>4. CASE Set(e)
      <4> DEFINE leaf == e.value
                 r == SetIn(v, path, leaf)
                 n == Len(path)
      <4>1. r.ok /\ tree' = r.value /\ phase' = "plain" /\ e.op = "set"
        BY <3>4 DEF Set, Edited
      <4>2. Sound(leaf, "genuine")
        BY <3>1, <4>1, SoundTree DEF IsPlain
      <4>3. r = SetIn(v, path, leaf) /\ path # <<>>
        BY <4>1 DEF SetIn, Failed
      <4> HIDE DEF r, leaf, path, v
      <4>4. n = Len(path) /\ n \in Nat \ {0} /\ \A d \in 1..n : IsComponent(path[d])
        BY <3>1, <3>3, <4>3
      <4> HIDE DEF n
      <4>5. Sound(r.value, "genuine")
        BY <3>2, <4>1, <4>2, <4>3, <4>4, SetSound
      <4>6. r.value.kind = "map"
        BY <3>2, <4>1, <4>3, <4>4, SetKeepsMap
      <4> QED BY <4>1, <4>5, <4>6 DEF GenuineInv
    <3>5. CASE Unset(e)
      <4> DEFINE r == UnsetIn(v, path)
                 n == Len(path) - 1
      <4>1. r.ok /\ tree' = r.value /\ phase' = "plain"
        BY <3>5 DEF Unset, Edited
      <4>2. r = UnsetIn(v, path) /\ path # <<>>
        BY <4>1 DEF UnsetIn, Failed
      <4> HIDE DEF r, path, v
      <4>3. n = Len(path) - 1 /\ n \in Nat /\ \A d \in 1..(n + 1) : IsComponent(path[d])
        BY <3>1, <3>3, <4>2
      <4> HIDE DEF n
      <4>4. Sound(r.value, "genuine")
        BY <3>2, <4>1, <4>2, <4>3, UnsetSound
      <4>5. r.value.kind = "map"
        BY <3>2, <3>3, <4>1, <4>2, <4>3, UnsetKeepsMap
      <4> QED BY <4>1, <4>4, <4>5 DEF GenuineInv
    <3> QED BY <2>3, <3>4, <3>5
  <2>4. CASE UNCHANGED cipherVars
    BY <2>4 DEF GenuineInv, cipherVars
  <2> QED BY <2>1, <2>2, <2>3, <2>4 DEF CipherNext
<1> QED BY <1>1, <1>2, PlainInvHolds, PTL DEF CipherSpec

\* The document b is what the genuine tree g was decrypted to, and the stash is what that found.
DecryptedFrom(g, b) ==
  LET d == Walk(rule, g, Decrypting)
  IN IsTree(g) /\ Sound(g, "genuine") /\ b = d.value /\ stash = Stashed(d.opened)

\* Where the stash comes from, and where it has gone: an open document and its stash are what the
\* file was decrypted to, an edit keeps the stash, and encryption uses it.
StashInv ==
  /\ phase = "stored" => \E n : file.tree = Walk(rule, tree, Encrypting(stash, n)).value
  /\ phase = "open" => DecryptedFrom(Reload(format, file.tree), tree)
  /\ phase \in {"plain", "stored"} /\ last.edit # NoEdit => DecryptedFrom(last.sealed, last.before)

\* The cipher encrypts with the IVs that it found when it decrypted the document before the edit.
THEOREM StashInvHolds == CipherSpec => []StashInv
<1>1. CipherInit => StashInv
  BY DEF CipherInit, StashInv
<1>2. PlainInv /\ GenuineInv /\ StashInv /\ [CipherNext]_cipherVars => StashInv'
  <2> SUFFICES ASSUME PlainInv, GenuineInv, StashInv, [CipherNext]_cipherVars PROVE StashInv'
    OBVIOUS
  <2>1. CASE EncryptTree
    <3> DEFINE w == Walk(rule, tree, Encrypting(stash, round))
    <3>1. /\ phase = "plain" /\ rule' = rule /\ tree' = tree /\ stash' = stash /\ last' = last
          /\ Stored(w)
      BY <2>1 DEF EncryptTree
    <3>2. (phase' = "stored" /\ file'.tree = w.value) \/ phase' = "refused"
      BY <3>1 DEF Stored
    <3>3. phase' = "stored" => \E n : file'.tree = Walk(rule', tree', Encrypting(stash', n)).value
      BY <3>1, <3>2
    <3>4. last.edit # NoEdit => DecryptedFrom(last.sealed, last.before)'
      BY <3>1 DEF StashInv, DecryptedFrom
    <3>5. phase' # "open" /\ last'.edit = last.edit
      BY <3>1, <3>2
    <3> QED BY <3>3, <3>4, <3>5 DEF StashInv
  <2>2. CASE DecryptTree /\ IsTree(Reload(format, file.tree))
    <3> DEFINE g == Reload(format, file.tree)
               v == file.tree
               w == Walk(rule, g, Decrypting)
    <3>1. /\ phase = "stored" /\ phase' \in {"open", "failed"}
          /\ phase' = "open" => tree' = w.value /\ stash' = Stashed(w.opened)
          /\ rule' = rule /\ file' = file /\ format' = format
      BY <2>2 DEF DecryptTree, Opened
    <3>2. IsTree(v) /\ Sound(v, "genuine") /\ v.kind = "map" /\ Emits(format, v) /\ format \in Formats
      BY <3>1 DEF GenuineInv, PlainInv
    <3>3. g = Reload(format, v) /\ IsTree(g)
      BY <2>2
    <3>4. Sound(g, "genuine")
      <4> HIDE DEF v, g
      <4> QED BY <3>2, <3>3, ReloadSound
    <3>5. phase' = "open" => DecryptedFrom(Reload(format, file.tree), tree)'
      BY <3>1, <3>3, <3>4 DEF DecryptedFrom
    <3> QED BY <3>1, <3>5 DEF StashInv
  <2>3. ASSUME NEW e \in Edits, Set(e) \/ Unset(e) PROVE StashInv'
    <3>1. /\ phase = "open" /\ phase' = "plain" /\ rule' = rule /\ stash' = stash
          /\ last'.sealed = Reload(format, file.tree) /\ last'.before = tree
      BY <2>3 DEF Set, Unset, Edited
    <3>2. DecryptedFrom(Reload(format, file.tree), tree)
      BY <3>1 DEF StashInv
    <3>3. DecryptedFrom(last.sealed, last.before)'
      BY <3>1, <3>2 DEF DecryptedFrom
    <3> QED BY <3>1, <3>3 DEF StashInv
  <2>4. CASE UNCHANGED cipherVars
    BY <2>4 DEF StashInv, DecryptedFrom, cipherVars
  <2> QED BY <2>1, <2>2, <2>3, <2>4 DEF CipherNext
<1> QED BY <1>1, <1>2, PlainInvHolds, GenuineInvHolds, PTL DEF CipherSpec

\* The ciphertext of a value that an edit did not touch is written as it was read, whatever the
\* format, the rule and the edit, unless the value has an equal in its list (the stash of aes/cipher.go).
THEOREM UnchangedKeepTheirCiphertextHolds == CipherSpec => []UnchangedKeepTheirCiphertext
<1>1. PlainInv /\ GenuineInv /\ StashInv => UnchangedKeepTheirCiphertext
  <2> SUFFICES ASSUME PlainInv, GenuineInv, StashInv, phase = "stored", last.edit # NoEdit,
                      NEW p \in Places(last.before) \cap Places(tree),
                      At(tree, p) = At(last.before, p), Path(tree, p) = Path(last.before, p),
                      Alone(last.before, p), ~IsSealed(At(tree, p)),
                      IsSealed(At(file.tree, p)), IsSealed(At(last.sealed, p))
               PROVE  Encrypted(file.tree, p) = Encrypted(last.sealed, p)
    BY DEF UnchangedKeepTheirCiphertext
  <2>1. DecryptedFrom(last.sealed, last.before)
    BY DEF StashInv
  <2>2. PICK n : file.tree = Walk(rule, tree, Encrypting(stash, n)).value
    BY DEF StashInv
  <2> DEFINE g == last.sealed
             d == Walk(rule, g, Decrypting)
             b == last.before
             opened == d.opened
             cipher == Encrypting(Stashed(opened), n)
             v == tree
             c == file.tree
  <2>3. IsTree(g) /\ Sound(g, "genuine") /\ b = d.value /\ stash = Stashed(opened)
    BY <2>1 DEF DecryptedFrom
  <2>4. IsTree(v) /\ Sound(v, "genuine")
    BY DEF PlainInv, CipherInv, GenuineInv
  <2>5. /\ d = Walk(rule, g, Decrypting) /\ opened = d.opened /\ cipher = Encrypting(Stashed(opened), n)
        /\ c = Walk(rule, v, cipher).value
    BY <2>2, <2>3
  <2>6. /\ p \in Places(b) /\ p \in Places(v) /\ At(v, p) = At(b, p) /\ Path(v, p) = Path(b, p)
        /\ Alone(b, p) /\ ~IsSealed(At(v, p)) /\ IsSealed(At(c, p)) /\ IsSealed(At(g, p))
    OBVIOUS
  <2> HIDE DEF g, d, b, opened, cipher, v, c
  <2>7. Encrypted(c, p) = Encrypted(g, p)
    BY <2>3, <2>4, <2>5, <2>6, CiphertextKept
  <2> QED BY <2>7 DEF c, g
<1> QED BY <1>1, PlainInvHolds, GenuineInvHolds, StashInvHolds, PTL
=============================================================================
