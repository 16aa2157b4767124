--------------------------- MODULE KeyWrapProofs ---------------------------
(***************************************************************************)
(* Proofs about KeyWrap for every set of data keys, every decryption order *)
(* and every bound.  Five inductive invariants are shown one after the     *)
(* other: TypeInv (types, and positions within the groups), SealInv (what  *)
(* a running update has written, for UpdateSeals), OpenInv (where the      *)
(* parts of a running recovery come from, for what GetDataKey returns),    *)
(* GetInv (which keys of a group a recovery has tried, and in what order), *)
(* and CustodyInv (of which splittings the shares in the groups are, for   *)
(* the refinement of KeyCustody).                                          *)
(***************************************************************************)
EXTENDS KeyWrap, SequenceTheorems, FiniteSetTheorems, TLAPS

Group == Seq(MasterKey)

-----------------------------------------------------------------------------
(***************************************************************************)
(* Sequences of key groups                                                 *)
(***************************************************************************)

\* append(s[:i], s[i+1:]...) is a sequence one element shorter.
LEMMA WithoutType ==
  ASSUME NEW S, NEW seq \in Seq(S), NEW i \in 1..Len(seq)
  PROVE  Without(seq, i) \in Seq(S)
<1>1. Len(seq) \in Nat /\ seq \in [1..Len(seq) -> S]
  BY LenProperties
<1>2. Len(seq) - 1 \in Nat
  BY <1>1
<1>3. \A j \in 1..(Len(seq) - 1) : (IF j < i THEN seq[j] ELSE seq[j + 1]) \in S
  BY <1>1
<1> QED
  BY <1>1, <1>2, <1>3 DEF Without

\* key.SetEncryptedDataKey changes the encrypted data key of that master key only.
LEMMA SetEncryptedDataKeyChanges ==
  ASSUME NEW gs \in Seq(Group), NEW i \in 1..Len(gs), NEW j \in 1..Len(gs[i]),
         NEW p \in Part \cup {NoPart},
         NEW hs, hs = SetEncryptedDataKey(gs, i, j, p)
  PROVE  /\ hs \in Seq(Group)
         /\ Len(hs) = Len(gs)
         /\ \A m \in 1..Len(gs) :
              /\ Len(hs[m]) = Len(gs[m])
              /\ m # i => hs[m] = gs[m]
              /\ \A n \in 1..Len(gs[m]) :
                   hs[m][n].enc = IF m = i /\ n = j THEN p ELSE gs[m][n].enc
<1> DEFINE mk == [type |-> gs[i][j].type, enc |-> p]
           gr == [gs[i] EXCEPT ![j] = mk]
<1>1. gs[i] \in Seq(MasterKey)
  BY ElementOfSeq DEF Group
<1>2. gs[i][j] \in MasterKey
  BY <1>1, ElementOfSeq
<1>3. mk \in MasterKey /\ mk.enc = p
  BY <1>2 DEF MasterKey
<1> HIDE DEF mk
<1>4. /\ gr \in Group
      /\ Len(gr) = Len(gs[i])
      /\ \A n \in 1..Len(gs[i]) : gr[n] = IF n = j THEN mk ELSE gs[i][n]
  BY <1>1, <1>3, ExceptSeq DEF Group
<1>5. hs = [gs EXCEPT ![i] = gr]
  BY DEF SetEncryptedDataKey, gr, mk
<1> HIDE DEF gr
<1>6. /\ hs \in Seq(Group)
      /\ Len(hs) = Len(gs)
      /\ \A m \in 1..Len(gs) : hs[m] = IF m = i THEN gr ELSE gs[m]
  BY <1>4, <1>5, ExceptSeq
<1>7. ASSUME NEW m \in 1..Len(gs)
      PROVE  /\ Len(hs[m]) = Len(gs[m])
             /\ m # i => hs[m] = gs[m]
             /\ \A n \in 1..Len(gs[m]) :
                  hs[m][n].enc = IF m = i /\ n = j THEN p ELSE gs[m][n].enc
  BY <1>3, <1>4, <1>6
<1> QED
  BY <1>6, <1>7

\* The part written for a group, whole key or share, is a Part.
LEMMA PartForType ==
  ASSUME groups \in Seq(Group), threshold \in Nat, NEW key \in DataKey,
         NEW split \in Nat, NEW i \in Nat
  PROVE  PartFor(key, split, i) \in Part
BY DEF PartFor, Part

-----------------------------------------------------------------------------
(***************************************************************************)
(* Types                                                                   *)
(***************************************************************************)
\* The positions of the loops stay inside the key groups; this is what TypeOK
\* needs to be inductive.
InRange ==
  /\ loc.g \in Nat \ {0} /\ loc.k \in Nat \ {0}
  /\ Updating => loc.newKey \in DataKey
  /\ pc \in {"upd.key", "upd.svc", "get.key", "get.svc"} => loc.g \in 1..Len(groups)
  /\ pc \in {"upd.svc", "get.svc"} => loc.k \in 1..Len(groups[loc.g])
  /\ Getting => Len(loc.parts) = Len(groups)

TypeInv == TypeOK /\ InRange

LEMMA InitTypeInv == Init => TypeInv
<1> SUFFICES ASSUME Init PROVE TypeInv
  OBVIOUS
<1>1. <<>> \in Seq(Seq(MasterKey)) /\ <<>> \in Seq(Part \cup {NoPart})
  BY EmptySeq
<1>2. NoLocals \in Locals
  BY <1>1 DEF NoLocals, Locals
<1>3. NoRet \in Returns
  BY DEF NoRet, Returns
<1>4. NoLocals.g \in Nat \ {0} /\ NoLocals.k \in Nat \ {0}
  BY DEF NoLocals
<1> QED
  BY <1>1, <1>2, <1>3, <1>4 DEF Init, TypeInv, TypeOK, InRange, PC, Updating, Getting

\* The locals a call starts or ends with.
LEMMA NoLocalsType ==
  /\ NoLocals \in Locals /\ NoLocals.g \in Nat \ {0} /\ NoLocals.k \in Nat \ {0}
  /\ NoRet \in Returns
BY EmptySeq DEF NoLocals, Locals, NoRet, Returns

\* The locals of a new call.
LEMMA UpdateLocals ==
  ASSUME NEW n \in Nat, NEW key \in DataKey
  PROVE  LET l == [NoLocals EXCEPT !.newKey = key, !.svcs = n]
         IN  l \in Locals /\ l.newKey = key /\ l.g = 1 /\ l.k = 1
BY EmptySeq DEF NoLocals, Locals

LEMMA GetLocals ==
  ASSUME NEW n \in Nat, NEW ps \in Seq(Part \cup {NoPart})
  PROVE  LET l == [NoLocals EXCEPT !.svcs = n, !.parts = ps]
         IN  l \in Locals /\ l.parts = ps /\ l.g = 1 /\ l.k = 1
BY EmptySeq DEF NoLocals, Locals

\* The locals after one turn of each loop.
LEMMA LocalsKey ==
  ASSUME NEW l \in Locals, NEW n \in Nat, NEW m, m = [l EXCEPT !.k = n]
  PROVE  /\ m \in Locals
         /\ m.svcs = l.svcs /\ m.g = l.g /\ m.k = n /\ m.s = l.s
         /\ m.newKey = l.newKey /\ m.errs = l.errs /\ m.failed = l.failed /\ m.parts = l.parts
BY DEF Locals

\* The next service.
LEMMA LocalsService ==
  ASSUME NEW l \in Locals, NEW n \in Nat, NEW m, m = [l EXCEPT !.s = n]
  PROVE  /\ m \in Locals
         /\ m.svcs = l.svcs /\ m.g = l.g /\ m.k = l.k /\ m.s = n
         /\ m.newKey = l.newKey /\ m.errs = l.errs /\ m.failed = l.failed /\ m.parts = l.parts
BY DEF Locals

\* The next key group.
LEMMA LocalsGroup ==
  ASSUME NEW l \in Locals, NEW n \in Nat, NEW m, m = [l EXCEPT !.g = n]
  PROVE  /\ m \in Locals
         /\ m.svcs = l.svcs /\ m.g = n /\ m.k = l.k /\ m.s = l.s
         /\ m.newKey = l.newKey /\ m.errs = l.errs /\ m.failed = l.failed /\ m.parts = l.parts
BY DEF Locals

\* What a caller may do to the key groups keeps them key groups.
LEMMA CallerEditTypes ==
  ASSUME TypeInv
  PROVE  /\ \A n \in Nat, ty \in KeyType :
              Append(groups, [m \in 1..n |-> Fresh(ty)]) \in Seq(Group)
         /\ \A i \in DOMAIN groups : Without(groups, i) \in Seq(Group)
         /\ \A i \in DOMAIN groups, ty \in KeyType :
              [groups EXCEPT ![i] = Append(groups[i], Fresh(ty))] \in Seq(Group)
         /\ \A i \in DOMAIN groups : \A j \in DOMAIN groups[i] :
              [groups EXCEPT ![i] = Without(groups[i], j)] \in Seq(Group)
<1>1. groups \in Seq(Group)
  BY DEF TypeInv, TypeOK, Group
<1>2. DOMAIN groups = 1..Len(groups)
  BY <1>1
<1>3. \A i \in DOMAIN groups : groups[i] \in Group /\ DOMAIN groups[i] = 1..Len(groups[i])
  BY <1>1, <1>2, ElementOfSeq DEF Group
<1>4. \A ty \in KeyType : Fresh(ty) \in MasterKey
  BY DEF Fresh, MasterKey
<1>5. ASSUME NEW n \in Nat, NEW ty \in KeyType
      PROVE  Append(groups, [m \in 1..n |-> Fresh(ty)]) \in Seq(Group)
  <2>1. [m \in 1..n |-> Fresh(ty)] \in Group
    BY <1>4 DEF Group
  <2> QED BY <1>1, <2>1, AppendProperties
<1>6. ASSUME NEW i \in DOMAIN groups
      PROVE  Without(groups, i) \in Seq(Group)
  BY <1>1, <1>2, WithoutType
<1>7. ASSUME NEW i \in DOMAIN groups, NEW ty \in KeyType
      PROVE  [groups EXCEPT ![i] = Append(groups[i], Fresh(ty))] \in Seq(Group)
  <2>1. Append(groups[i], Fresh(ty)) \in Group
    BY <1>3, <1>4, AppendProperties DEF Group
  <2> QED BY <1>1, <1>2, <2>1, ExceptSeq
<1>8. ASSUME NEW i \in DOMAIN groups, NEW j \in DOMAIN groups[i]
      PROVE  [groups EXCEPT ![i] = Without(groups[i], j)] \in Seq(Group)
  <2>1. Without(groups[i], j) \in Group
    BY <1>3, WithoutType DEF Group
  <2> QED BY <1>1, <1>2, <2>1, ExceptSeq
<1> QED
  BY <1>5, <1>6, <1>7, <1>8

\* A caller's edit, or reading the file back, leaves no call running.
LEMMA CallerEditsTypeInv ==
  ASSUME TypeInv, NEW gs \in Seq(Group), NEW t \in Nat, CallerEdits(gs, t)
  PROVE  TypeInv'
BY NoLocalsType DEF TypeInv, TypeOK, InRange, CallerEdits, PC, Returns, Group, Updating, Getting

LEMMA CallerTypeInv ==
  ASSUME TypeInv, Caller
  PROVE  TypeInv'
<1> USE NoLocalsType, KeyWrapAssumption DEF PC, Updating, Getting
<1>0. Len(groups) \in Nat /\ Quorum \in Nat
  BY LenProperties DEF TypeInv, TypeOK, Quorum
<1>1. ASSUME NEW n \in 0..MaxKeys, NEW ty \in KeyType, NEW t \in 0..MaxGroups,
             AddGroup(n, ty, t)
      PROVE  TypeInv'
  <2>1. n \in Nat /\ t \in Nat
    BY <1>1
  <2> QED BY <1>1, <2>1, CallerEditTypes, CallerEditsTypeInv, Zenon DEF AddGroup
<1>2. ASSUME NEW i \in DOMAIN groups, NEW t \in 0..MaxGroups, DeleteGroup(i, t)
      PROVE  TypeInv'
  BY <1>2, CallerEditTypes, CallerEditsTypeInv DEF DeleteGroup
<1>3. ASSUME NEW i \in DOMAIN groups, NEW ty \in KeyType, AddKey(i, ty)
      PROVE  TypeInv'
  BY <1>3, CallerEditTypes, CallerEditsTypeInv DEF AddKey
<1>4. ASSUME NEW i \in DOMAIN groups, NEW j \in DOMAIN groups[i], RemoveKey(i, j)
      PROVE  TypeInv'
  BY <1>4, CallerEditTypes, CallerEditsTypeInv DEF RemoveKey
<1>5. CASE Reload
  BY <1>5 DEF Reload, TypeInv, TypeOK, InRange
<1>6. ASSUME NEW key \in DataKey, NEW n \in 0..MaxSvcs, NEW c \in BOOLEAN,
             UpdateRejected(key, n, c)
      PROVE  TypeInv'
  <2>1. threshold' \in Nat
    BY <1>0, <1>6 DEF UpdateRejected, TypeInv, TypeOK
  <2>2. ret' \in Returns
    BY <1>6 DEF UpdateRejected, UpdateReturns, NoRet, Returns
  <2> QED
    BY <1>6, <2>1, <2>2 DEF UpdateRejected, UpdateReturns, TypeInv, TypeOK, InRange
<1>7. ASSUME NEW key \in DataKey, NEW n \in 1..MaxSvcs, UpdateStart(key, n)
      PROVE  TypeInv'
  <2>1. threshold' \in Nat /\ splits' \in Nat
    BY <1>0, <1>7 DEF UpdateStart, TypeInv, TypeOK
  <2>2. loc' \in Locals /\ loc'.newKey = key /\ loc'.g \in Nat \ {0} /\ loc'.k \in Nat \ {0}
    <3>1. n \in Nat
      OBVIOUS
    <3>2. loc' = [NoLocals EXCEPT !.newKey = key, !.svcs = n]
      BY <1>7 DEF UpdateStart
    <3>3. loc' \in Locals /\ loc'.newKey = key /\ loc'.g = 1 /\ loc'.k = 1
      BY <3>1, <3>2, UpdateLocals, Zenon
    <3> QED BY <3>3
  <2> QED
    <3>1. TypeOK'
      BY <1>7, <2>1, <2>2 DEF UpdateStart, TypeInv, TypeOK
    <3>2. InRange'
      BY <1>7, <2>2 DEF UpdateStart, InRange
    <3> QED BY <3>1, <3>2 DEF TypeInv
<1>8. CASE GetRejected
  <2>1. ret' \in Returns
    BY <1>8 DEF GetRejected, GetReturns, Returns, TypeInv, TypeOK
  <2> QED
    BY <1>8, <2>1 DEF GetRejected, GetReturns, TypeInv, TypeOK, InRange, meta
<1>9. CASE GetCached
  <2>1. ret' \in Returns
    BY <1>9 DEF GetCached, GetReturns, Returns, TypeInv, TypeOK
  <2> QED
    BY <1>9, <2>1 DEF GetCached, GetReturns, TypeInv, TypeOK, InRange, meta
<1>10. ASSUME NEW n \in 0..MaxSvcs, GetStart(n)
       PROVE  TypeInv'
  <2>1. [i \in 1..Len(groups) |-> NoPart] \in Seq(Part \cup {NoPart})
        /\ Len([i \in 1..Len(groups) |-> NoPart]) = Len(groups)
    BY DEF TypeInv, TypeOK
  <2>2. loc' \in Locals /\ Len(loc'.parts) = Len(groups) /\ loc'.g \in Nat \ {0} /\ loc'.k \in Nat \ {0}
    <3>1. n \in Nat
      OBVIOUS
    <3> DEFINE ps == [i \in 1..Len(groups) |-> NoPart]
    <3>2. loc' = [NoLocals EXCEPT !.svcs = n, !.parts = ps]
      BY <1>10 DEF GetStart
    <3>3. ps \in Seq(Part \cup {NoPart}) /\ Len(ps) = Len(groups)
      BY <2>1
    <3> HIDE DEF ps
    <3>4. /\ loc' \in Locals /\ loc'.parts = ps
          /\ loc'.g = 1 /\ loc'.k = 1
      BY <3>1, <3>2, <3>3, GetLocals, Zenon
    <3> QED BY <3>3, <3>4
  <2> QED
    <3>1. TypeOK'
      BY <1>10, <2>2 DEF GetStart, TypeInv, TypeOK, meta
    <3>2. InRange'
      BY <1>10, <2>2 DEF GetStart, InRange, meta
    <3> QED BY <3>1, <3>2 DEF TypeInv
<1> QED
  BY <1>1, <1>2, <1>3, <1>4, <1>5, <1>6, <1>7, <1>8, <1>9, <1>10 DEF Caller

\* A step of the loops of UpdateMasterKeys.
LEMMA UpdateTypeInv ==
  ASSUME TypeInv, UpdateStep
  PROVE  TypeInv'
<1> USE DEF PC, Updating, Getting
<1>a. loc \in Locals /\ loc.g \in Nat /\ loc.k \in Nat /\ loc.s \in Nat
  BY DEF TypeInv, TypeOK, Locals
<1>0. loc.g \in Nat /\ loc.k \in Nat /\ groups \in Seq(Group) /\ Len(groups) \in Nat
  BY <1>a, LenProperties DEF TypeInv, TypeOK, Group
<1>1. ASSUME NEW key \in DataKey \cup {NoKey}, NEW ok \in BOOLEAN, UpdateReturns(key, ok),
             threshold' \in Nat, dataKey' \in DataKey \cup {NoKey, Garbage},
             UNCHANGED <<groups, splits>>
      PROVE  TypeInv'
  <2>1. ret' \in Returns
    BY <1>1 DEF UpdateReturns, NoRet, Returns
  <2> QED
    BY <1>1, <2>1, NoLocalsType DEF UpdateReturns, TypeInv, TypeOK, InRange
<1>2. CASE UpdateEnterGroup
  <2>1. loc' \in Locals /\ loc'.g = loc.g /\ loc'.k = 1 /\ loc'.newKey = loc.newKey
    BY <1>a, <1>2 DEF UpdateEnterGroup, Locals
  <2> QED
    BY <1>0, <1>2, <2>1 DEF UpdateEnterGroup, TypeInv, TypeOK, InRange, meta
<1>3. CASE UpdateEmptyGroup
  BY <1>1, <1>3 DEF UpdateEmptyGroup, TypeInv, TypeOK, InRange, meta
<1>4. CASE UpdateCancelled
  BY <1>1, <1>4 DEF UpdateCancelled, TypeInv, TypeOK, InRange, meta
<1>5. CASE UpdateEnterKey
  <2>1. loc' \in Locals /\ loc'.g = loc.g /\ loc'.k = loc.k /\ loc'.newKey = loc.newKey
    BY <1>a, <1>5 DEF UpdateEnterKey, Locals
  <2> QED
    BY <1>0, <1>5, <2>1 DEF UpdateEnterKey, TypeInv, TypeOK, InRange, meta
<1>6. CASE UpdateEncrypted
  <2> DEFINE part == PartFor(loc.newKey, splits, loc.g)
  <2>1. part \in Part
    BY <1>0, <1>6, PartForType DEF UpdateEncrypted, TypeInv, TypeOK, InRange
  <2>2. loc.g \in 1..Len(groups) /\ loc.k \in 1..Len(groups[loc.g])
    BY <1>6 DEF UpdateEncrypted, TypeInv, InRange
  <2>3. groups' \in Seq(Group) /\ Len(groups') = Len(groups)
    BY <1>0, <1>6, <2>1, <2>2, SetEncryptedDataKeyChanges DEF UpdateEncrypted
  <2>4. loc' \in Locals /\ loc'.g = loc.g /\ loc'.k \in Nat \ {0} /\ loc'.newKey = loc.newKey
    <3>1. loc' = [loc EXCEPT !.k = loc.k + 1]
      BY <1>6 DEF UpdateEncrypted
    <3> QED BY <1>a, <3>1, LocalsKey
  <2>5. TypeOK'
    BY <1>6, <2>3, <2>4 DEF UpdateEncrypted, TypeInv, TypeOK, Group
  <2>6. InRange'
    BY <1>6, <2>2, <2>3, <2>4 DEF UpdateEncrypted, TypeInv, InRange
  <2> QED BY <2>5, <2>6 DEF TypeInv
<1>7. CASE UpdateEncryptFailed
  <2>1. CASE loc' = [loc EXCEPT !.s = loc.s + 1] /\ UNCHANGED pc
    <3>1. loc' \in Locals /\ loc'.g = loc.g /\ loc'.newKey = loc.newKey /\ loc'.k = loc.k
      BY <1>a, <2>1, LocalsService
    <3> QED
      BY <1>0, <1>7, <2>1, <3>1 DEF UpdateEncryptFailed, TypeInv, TypeOK, InRange, meta
  <2>2. CASE loc' = [loc EXCEPT !.k = loc.k + 1, !.errs = TRUE] /\ pc' = "upd.key"
    <3> DEFINE n == loc.k + 1
    <3>1. n \in Nat /\ loc' = [loc EXCEPT !.k = n, !.errs = TRUE]
      BY <1>a, <2>2
    <3>3. n \in Nat \ {0}
      BY <1>a
    <3> HIDE DEF n
    <3>2. loc' \in Locals /\ loc'.g = loc.g /\ loc'.newKey = loc.newKey /\ loc'.k = n
      BY <1>a, <3>1 DEF Locals
    <3> QED
      BY <1>0, <1>7, <2>2, <3>2, <3>3 DEF UpdateEncryptFailed, TypeInv, TypeOK, InRange, meta
  <2> QED
    BY <1>7, <2>1, <2>2 DEF UpdateEncryptFailed
<1>8. CASE UpdateLeaveGroup
  <2>1. /\ loc' \in Locals /\ loc'.newKey = loc.newKey
        /\ loc'.g = loc.g + 1 /\ loc'.k = loc.k
    <3>1. loc' = [loc EXCEPT !.g = loc.g + 1]
      BY <1>8 DEF UpdateLeaveGroup
    <3>2. loc.g + 1 \in Nat
      BY <1>a
    <3> QED BY <1>a, <3>1, <3>2, LocalsGroup
  <2> QED
    BY <1>0, <1>8, <2>1 DEF UpdateLeaveGroup, TypeInv, TypeOK, InRange, meta
<1>9. CASE UpdateDone
  <2>1. loc.newKey \in DataKey
    BY <1>9 DEF UpdateDone, TypeInv, InRange
  <2> QED
    BY <1>1, <1>9, <2>1 DEF UpdateDone, TypeInv, TypeOK
<1> QED
  BY <1>2, <1>3, <1>4, <1>5, <1>6, <1>7, <1>8, <1>9 DEF UpdateStep, TypeInv

\* Combine and a lone group's part give a data key, garbage or an error.
LEMMA RecoveredType == TypeInv /\ Getting => Recovered \in DataKey \cup {NoKey, Garbage}
<1> SUFFICES ASSUME TypeInv, Getting PROVE Recovered \in DataKey \cup {NoKey, Garbage}
  OBVIOUS
<1>1. Combine(loc.parts) \in DataKey \cup {NoKey, Garbage}
  BY Zenon DEF Combine
<1>2. ASSUME Len(groups) <= 1, Answered(loc.parts) # {}
      PROVE  WholeKey(loc.parts[1]) \in DataKey \cup {Garbage}
  <2>1. loc.parts \in Seq(Part \cup {NoPart}) /\ Len(loc.parts) = Len(groups)
    BY DEF TypeInv, TypeOK, InRange, Locals
  <2>2. 1 \in DOMAIN loc.parts /\ loc.parts[1] # NoPart
    <3>1. PICK i \in DOMAIN loc.parts : loc.parts[i] # NoPart
      BY <1>2 DEF Answered
    <3>2. Len(groups) \in Nat
      BY LenProperties DEF TypeInv, TypeOK
    <3>3. i = 1
      BY <1>2, <2>1, <3>2
    <3> QED BY <3>1, <3>3
  <2>3. loc.parts[1] \in Part
    BY <2>1, <2>2
  <2> QED BY <2>3 DEF WholeKey, Part
<1>3. Len(groups) \in Nat
  BY LenProperties DEF TypeInv, TypeOK
<1> QED
  BY <1>1, <1>2, <1>3 DEF Recovered

\* A step of the loops of GetDataKey.
LEMMA GetTypeInv ==
  ASSUME TypeInv, GetStep
  PROVE  TypeInv'
<1> USE DEF PC, Updating, Getting
<1>a. loc \in Locals /\ loc.g \in Nat /\ loc.k \in Nat /\ loc.s \in Nat
  BY DEF TypeInv, TypeOK, Locals
<1>0. /\ loc.g \in Nat /\ loc.k \in Nat /\ loc.parts \in Seq(Part \cup {NoPart})
      /\ groups \in Seq(Group) /\ Len(groups) \in Nat
  BY <1>a, LenProperties DEF TypeInv, TypeOK, Locals, Group
<1>1. ASSUME NEW key \in DataKey \cup {NoKey, Garbage},
             NEW why \in {"none", "cancelled", "cached", "parts"},
             GetReturns(key, why, Answered(loc.parts)),
             dataKey' \in DataKey \cup {NoKey, Garbage},
             UNCHANGED <<groups, threshold, splits>>
      PROVE  TypeInv'
  <2>1. Answered(loc.parts) \in SUBSET Nat
    BY <1>0 DEF Answered
  <2>2. ret' \in Returns
    BY <1>1, <2>1 DEF GetReturns, Returns
  <2> QED
    BY <1>1, <2>2, NoLocalsType DEF GetReturns, TypeInv, TypeOK, InRange
<1>2. CASE GetCancelled
  BY <1>1, <1>2 DEF GetCancelled, TypeInv, TypeOK, meta
<1>3. CASE GetEnterGroup
  <2>1. loc.g \in 1..Len(groups)
    BY <1>0, <1>3 DEF GetEnterGroup, TypeInv, InRange
  <2> QED
    BY <1>0, <1>3, <2>1 DEF GetEnterGroup, TypeInv, TypeOK, InRange, meta
<1>4. ASSUME NEW j \in 1..MaxKeys, GetEnterKey(j) PROVE TypeInv'
  <2>1. j \in Nat /\ j \in 1..Len(groups[loc.g])
    BY <1>4 DEF GetEnterKey, Untried
  <2>2. /\ loc' \in Locals /\ loc'.g = loc.g /\ loc'.k = j
        /\ loc'.newKey = loc.newKey /\ loc'.parts = loc.parts
    BY <1>a, <1>4, <2>1 DEF GetEnterKey, Locals
  <2> QED
    BY <1>0, <1>4, <2>1, <2>2 DEF GetEnterKey, TypeInv, TypeOK, InRange, meta
<1>5. CASE GetLeaveGroup
  <2>1. /\ loc' \in Locals /\ loc'.newKey = loc.newKey /\ loc'.parts = loc.parts
        /\ loc'.g = loc.g + 1 /\ loc'.k = loc.k
    <3>1. loc' = [loc EXCEPT !.g = loc.g + 1]
      BY <1>5 DEF GetLeaveGroup
    <3>2. loc.g + 1 \in Nat
      BY <1>a
    <3> QED BY <1>a, <3>1, <3>2, LocalsGroup
  <2> QED
    BY <1>0, <1>5, <2>1 DEF GetLeaveGroup, TypeInv, TypeOK, InRange, meta
<1>6. CASE GetDecrypted
  <2> DEFINE part == groups[loc.g][loc.k].enc
             ps == [loc.parts EXCEPT ![loc.g] = part]
  <2>1. loc.g \in 1..Len(groups) /\ loc.k \in 1..Len(groups[loc.g])
        /\ Len(loc.parts) = Len(groups)
    BY <1>6 DEF GetDecrypted, TypeInv, InRange
  <2>2. part \in Part \cup {NoPart}
    <3>1. groups[loc.g] \in Seq(MasterKey)
      BY <1>0, <2>1, ElementOfSeq DEF Group
    <3>2. groups[loc.g][loc.k] \in MasterKey
      BY <2>1, <3>1, ElementOfSeq
    <3> QED BY <3>2 DEF MasterKey
  <2> HIDE DEF part
  <2>3. ps \in Seq(Part \cup {NoPart}) /\ Len(ps) = Len(loc.parts)
    BY <1>0, <2>1, <2>2, ExceptSeq
  <2>4. loc' = [loc EXCEPT !.parts = ps, !.g = loc.g + 1]
    BY <1>6 DEF GetDecrypted, part
  <2> HIDE DEF ps
  <2>5. /\ loc' \in Locals /\ loc'.newKey = loc.newKey /\ loc'.parts = ps
        /\ loc'.g = loc.g + 1 /\ loc'.k = loc.k
    <3> DEFINE n == loc.g + 1
    <3>1. n \in Nat /\ loc' = [loc EXCEPT !.parts = ps, !.g = n]
      BY <1>a, <2>4
    <3> HIDE DEF n
    <3>2. /\ loc' \in Locals /\ loc'.newKey = loc.newKey /\ loc'.parts = ps
          /\ loc'.g = n /\ loc'.k = loc.k
      BY <1>a, <2>3, <3>1 DEF Locals
    <3> QED BY <3>2 DEF n
  <2> QED
    BY <1>0, <1>6, <2>1, <2>3, <2>5 DEF GetDecrypted, TypeInv, TypeOK, InRange, meta
<1>7. CASE GetDecryptFailed
  <2>1. /\ loc' \in Locals /\ loc'.g = loc.g /\ loc'.k = loc.k
        /\ loc'.newKey = loc.newKey /\ loc'.parts = loc.parts
    <3>1. loc' = [loc EXCEPT !.s = loc.s + 1]
      BY <1>7 DEF GetDecryptFailed
    <3> QED BY <1>a, <3>1, LocalsService
  <2> QED
    BY <1>0, <1>7, <2>1 DEF GetDecryptFailed, TypeInv, TypeOK, InRange, meta
<1>8. CASE GetKeyFailed
  <2>1. loc.failed \cup {<<loc.g, loc.k>>} \in SUBSET (Nat \X Nat)
    BY <1>a DEF Locals
  <2>2. /\ loc' \in Locals /\ loc'.g = loc.g /\ loc'.k = loc.k
        /\ loc'.newKey = loc.newKey /\ loc'.parts = loc.parts
    BY <1>a, <1>8, <2>1 DEF GetKeyFailed, Locals
  <2> QED
    BY <1>0, <1>8, <2>2 DEF GetKeyFailed, TypeInv, TypeOK, InRange, meta
<1>9. CASE GetDone
  <2>1. Recovered \in DataKey \cup {NoKey, Garbage}
    BY <1>9, RecoveredType DEF GetDone
  <2>2. dataKey' \in DataKey \cup {NoKey, Garbage}
    BY <1>9, <2>1 DEF GetDone, TypeInv, TypeOK
  <2> QED
    BY <1>1, <1>9, <2>1, <2>2 DEF GetDone
<1> QED
  BY <1>2, <1>3, <1>4, <1>5, <1>6, <1>7, <1>8, <1>9 DEF GetStep

LEMMA NextTypeInv == TypeInv /\ [Next]_vars => TypeInv'
<1> SUFFICES ASSUME TypeInv, [Next]_vars PROVE TypeInv'
  OBVIOUS
<1>1. CASE Caller
  BY <1>1, CallerTypeInv
<1>2. CASE UpdateStep
  BY <1>2, UpdateTypeInv
<1>3. CASE GetStep
  BY <1>3, GetTypeInv
<1>4. CASE Cancel
  BY <1>4 DEF Cancel, TypeInv, TypeOK, InRange, Updating, Getting, PC, meta
<1>5. CASE UNCHANGED vars
  BY <1>5 DEF vars, TypeInv, TypeOK, InRange, Updating, Getting
<1> QED
  BY <1>1, <1>2, <1>3, <1>4, <1>5 DEF Next

\* Every variable keeps its type, and the loops stay inside the key groups.
THEOREM TypeInvariant == Spec => []TypeInv
<1>1. Init => TypeInv
  BY InitTypeInv
<1>2. TypeInv /\ [Next]_vars => TypeInv'
  BY NextTypeInv
<1> QED
  BY <1>1, <1>2, PTL DEF Spec

\* Whatever the callers, the key services and cancellation do, and however many data
\* keys, key groups and keys there are, the variables keep their types.
THEOREM TypeCorrect == Spec => []TypeOK
<1>1. TypeInv => TypeOK
  BY DEF TypeInv
<1> QED
  BY <1>1, TypeInvariant, PTL
-----------------------------------------------------------------------------
(***************************************************************************)
(* UpdateMasterKeys seals the data key                                     *)
(***************************************************************************)
Silent == pc # "idle" => ret = NoRet

SealInv == TypeInv /\ Silent /\ UpdateProgress /\ UpdateSeals

\* A step that leaves no update running and reports no sealed key.
LEMMA NotSealing ==
  ASSUME TypeInv', ~Updating',
         ret'.call # "update" \/ ~ret'.ok,
         pc' # "idle" => ret' = NoRet
  PROVE  SealInv'
BY DEF SealInv, Silent, UpdateProgress, UpdateSeals

LEMMA NoRetFields == NoRet.call = "none" /\ NoRet.ok = FALSE
BY DEF NoRet

\* A key service is asked only after the split of the data key has succeeded.
LEMMA UpdateStartSealInv ==
  ASSUME SealInv, NEW key \in DataKey, NEW n \in 1..MaxSvcs, UpdateStart(key, n), TypeInv'
  PROVE  SealInv'
<1>1. n \in Nat
  BY KeyWrapAssumption
<1>2. loc' = [NoLocals EXCEPT !.newKey = key, !.svcs = n]
  BY DEF UpdateStart
<1>3. loc'.newKey = key /\ loc'.g = 1
  BY <1>1, <1>2, UpdateLocals, Zenon
<1>4. /\ pc' = "upd.group" /\ ret' = NoRet
      /\ groups' = groups /\ groups # <<>>
  BY DEF UpdateStart
<1>5. Len(groups) \in Nat /\ Quorum \in Nat /\ splits \in Nat
  BY LenProperties DEF SealInv, TypeInv, TypeOK, Quorum
<1>6. Len(groups) > 1 => splits' > 0 /\ threshold' \in 2..Len(groups)
  BY <1>5 DEF UpdateStart, SplitFails
<1>7. Len(groups) # 0
  BY <1>4, EmptySeq DEF SealInv, TypeInv, TypeOK
<1>8. UpdateProgress'
  BY <1>3, <1>4, <1>5, <1>6, <1>7 DEF UpdateProgress, Updating
<1> QED
  BY <1>4, <1>8, NoRetFields DEF SealInv, Silent, UpdateSeals

LEMMA CallerSealInv ==
  ASSUME SealInv, Caller
  PROVE  SealInv'
<1>1. TypeInv'
  BY CallerTypeInv DEF SealInv
<1>2. ASSUME NEW gs, NEW t, CallerEdits(gs, t)
      PROVE  SealInv'
  BY <1>1, <1>2, NotSealing, NoRetFields DEF CallerEdits, Updating
<1>3. CASE Reload
  BY <1>1, <1>3, NotSealing, NoRetFields DEF Reload, Updating
<1>4. ASSUME NEW key \in DataKey, NEW n, NEW c, UpdateRejected(key, n, c)
      PROVE  SealInv'
  <2>1. pc' = "idle" /\ ~ret'.ok
    BY <1>4 DEF UpdateRejected, UpdateReturns, NoRet
  <2> QED BY <1>1, <2>1, NotSealing DEF Updating
<1>5. ASSUME NEW key \in DataKey, NEW n \in 1..MaxSvcs, UpdateStart(key, n)
      PROVE  SealInv'
  BY <1>1, <1>5, UpdateStartSealInv
<1>6. CASE GetRejected
  BY <1>1, <1>6, NotSealing DEF GetRejected, GetReturns, Updating
<1>7. CASE GetCached
  BY <1>1, <1>7, NotSealing DEF GetCached, GetReturns, Updating
<1>8. ASSUME NEW n \in 0..MaxSvcs, GetStart(n)
      PROVE  SealInv'
  BY <1>1, <1>8, NotSealing, NoRetFields DEF GetStart, Updating
<1> QED
  BY <1>2, <1>3, <1>4, <1>5, <1>6, <1>7, <1>8
     DEF Caller, AddGroup, DeleteGroup, AddKey, RemoveKey

\* The steps of a recovery, none of which writes a key group.
LEMMA GetSealInv ==
  ASSUME SealInv, GetStep
  PROVE  SealInv'
<1>1. TypeInv'
  BY GetTypeInv DEF SealInv
<1>2. CASE GetCancelled
  BY <1>1, <1>2, NotSealing DEF GetCancelled, GetReturns, Updating
<1>3. CASE GetDone
  BY <1>1, <1>3, NotSealing DEF GetDone, GetReturns, Updating
<1>4. CASE /\ pc \in {"get.group", "get.key", "get.svc"} /\ ret' = ret
           /\ pc' \in {"get.group", "get.key", "get.svc"}
  BY <1>1, <1>4, NotSealing, NoRetFields DEF SealInv, Silent, Updating
<1> QED
  BY <1>2, <1>3, <1>4
     DEF GetStep, GetEnterGroup, GetEnterKey, GetLeaveGroup, GetDecrypted,
         GetDecryptFailed, GetKeyFailed

\* A step inside the loops of an update reports nothing.
LEMMA StillSealing ==
  ASSUME SealInv, Updating, ret' = ret, TypeInv', UpdateProgress'
  PROVE  SealInv'
BY NoRetFields DEF SealInv, Silent, Updating, UpdateSeals

\* The new part of one master key, and every part written before it.
LEMMA UpdateEncryptedProgress ==
  ASSUME SealInv, UpdateEncrypted
  PROVE  UpdateProgress'
<1>1. /\ groups \in Seq(Group) /\ Len(groups) \in Nat /\ threshold \in Nat /\ splits \in Nat
      /\ loc \in Locals /\ loc.k \in Nat
  BY LenProperties DEF SealInv, TypeInv, TypeOK, Group, Locals
<1>2. pc = "upd.svc" /\ pc' = "upd.key" /\ threshold' = threshold /\ splits' = splits
  BY DEF UpdateEncrypted
<1>3. /\ loc.newKey \in DataKey /\ groups # <<>>
      /\ Len(groups) > 1 => splits > 0 /\ threshold \in 2..Len(groups)
      /\ loc.g \in 1..Len(groups) /\ groups[loc.g] # <<>>
      /\ loc.k \in 1..Len(groups[loc.g])
  BY <1>1, <1>2 DEF SealInv, UpdateProgress, Updating
<1> DEFINE part == PartFor(loc.newKey, splits, loc.g)
<1>4. part \in Part
  BY <1>1, <1>3, PartForType
<1>5. groups' = SetEncryptedDataKey(groups, loc.g, loc.k, part)
  BY DEF UpdateEncrypted
<1> HIDE DEF part
<1>6. /\ groups' \in Seq(Group) /\ Len(groups') = Len(groups)
      /\ \A m \in 1..Len(groups) :
           /\ Len(groups'[m]) = Len(groups[m])
           /\ m # loc.g => groups'[m] = groups[m]
           /\ \A n \in 1..Len(groups[m]) :
                groups'[m][n].enc = IF m = loc.g /\ n = loc.k THEN part ELSE groups[m][n].enc
  <2>1. groups \in Seq(Group) /\ loc.g \in 1..Len(groups) /\ loc.k \in 1..Len(groups[loc.g])
    BY <1>1, <1>3
  <2>2. part \in Part \cup {NoPart}
    BY <1>4
  <2>3. groups' = SetEncryptedDataKey(groups, loc.g, loc.k, part)
    BY <1>5
  <2> QED BY <2>1, <2>2, <2>3, SetEncryptedDataKeyChanges, SMTT(30)
<1>7. loc'.newKey = loc.newKey /\ loc'.errs = loc.errs /\ loc'.g = loc.g /\ loc'.k = loc.k + 1
  <2> DEFINE n == loc.k + 1
  <2>1. n \in Nat /\ loc' = [loc EXCEPT !.k = n]
    BY <1>1 DEF UpdateEncrypted
  <2> HIDE DEF n
  <2>2. loc'.newKey = loc.newKey /\ loc'.errs = loc.errs /\ loc'.g = loc.g /\ loc'.k = n
    BY <1>1, <2>1, LocalsKey
  <2> QED BY <2>2 DEF n
<1>8. \A i \in Nat : PartFor(loc.newKey, splits, i)' = PartFor(loc.newKey, splits, i)
  BY <1>2, <1>6, <1>7 DEF PartFor
<1>9. groups' # <<>> /\ groups'[loc.g] # <<>>
  <2>1. Len(groups) # 0 /\ Len(groups[loc.g]) # 0
    BY <1>1, <1>3
  <2> QED BY <1>3, <1>6, <2>1, EmptySeq
<1>10. ASSUME ~loc.errs, NEW i \in 1..(loc.g - 1)
       PROVE  /\ groups'[i] # <<>>
              /\ \A j \in 1..Len(groups'[i]) :
                   groups'[i][j].enc = PartFor(loc.newKey, splits, i)
  <2>1. i \in 1..Len(groups) /\ i # loc.g
    BY <1>1, <1>3
  <2>2. groups'[i] = groups[i]
    BY <1>6, <2>1
  <2>3. /\ groups[i] # <<>>
        /\ \A j \in 1..Len(groups[i]) : groups[i][j].enc = PartFor(loc.newKey, splits, i)
    BY <1>2, <1>10 DEF SealInv, UpdateProgress, Updating
  <2> QED BY <2>2, <2>3
<1>11. ASSUME ~loc.errs, NEW j \in 1..loc.k
       PROVE  groups'[loc.g][j].enc = part
  <2>1. CASE j = loc.k
    BY <1>3, <1>6, <2>1
  <2>2. CASE j # loc.k
    <3>1. j \in 1..(loc.k - 1) /\ j \in 1..Len(groups[loc.g])
      BY <1>1, <1>3, <2>2
    <3>2. groups[loc.g][j].enc = part
      BY <1>2, <1>11, <3>1 DEF SealInv, UpdateProgress, Updating, part
    <3> QED BY <1>3, <1>6, <2>2, <3>1, <3>2
  <2> QED BY <2>1, <2>2
<1> DEFINE range ==
      /\ loc'.newKey \in DataKey
      /\ groups' # <<>>
      /\ Len(groups') > 1 => splits' > 0 /\ threshold' \in 2..Len(groups')
      /\ loc'.g \in 1..(Len(groups') + 1)
      /\ loc'.g <= Len(groups') /\ groups'[loc'.g] # <<>>
      /\ loc'.k \in 1..(Len(groups'[loc'.g]) + 1)
<1>12. range
  BY <1>1, <1>2, <1>3, <1>6, <1>7, <1>9
<1>13. ASSUME ~loc'.errs
       PROVE  /\ \A i \in 1..(loc'.g - 1) :
                   /\ groups'[i] # <<>>
                   /\ \A j \in 1..Len(groups'[i]) :
                        groups'[i][j].enc = PartFor(loc.newKey, splits, i)'
              /\ \A j \in 1..(loc'.k - 1) :
                   groups'[loc'.g][j].enc = PartFor(loc.newKey, splits, loc.g)'
  <2>1. \A i \in 1..(loc.g - 1) : i \in Nat
    OBVIOUS
  <2>2. loc'.k - 1 = loc.k /\ loc.g \in Nat
    BY <1>1, <1>3, <1>7
  <2> QED BY <1>7, <1>8, <1>10, <1>11, <1>13, <2>1, <2>2 DEF part
<1> QED
  BY <1>2, <1>12, <1>13 DEF UpdateProgress, Updating
\* The remaining steps of the loops write no key group.
LEMMA UpdateLoopProgress ==
  ASSUME SealInv,
         UpdateEnterGroup \/ UpdateEnterKey \/ UpdateEncryptFailed \/ UpdateLeaveGroup
  PROVE  UpdateProgress'
<1>a. loc \in Locals /\ loc.g \in Nat /\ loc.k \in Nat /\ loc.s \in Nat
  BY DEF SealInv, TypeInv, TypeOK, Locals
<1>1. /\ loc.newKey \in DataKey /\ groups # <<>>
      /\ Len(groups) > 1 => splits > 0 /\ threshold \in 2..Len(groups)
      /\ loc.g \in 1..(Len(groups) + 1) /\ Len(groups) \in Nat
      /\ UNCHANGED <<groups, threshold, splits>>
  BY LenProperties DEF SealInv, TypeInv, TypeOK, UpdateProgress, Updating, meta,
     UpdateEnterGroup, UpdateEnterKey, UpdateEncryptFailed, UpdateLeaveGroup
<1>2. \A i \in 1..Len(groups) : Len(groups[i]) \in Nat
  BY ElementOfSeq, LenProperties DEF SealInv, TypeInv, TypeOK
<1>3. loc'.newKey = loc.newKey =>
        \A i : PartFor(loc.newKey, splits, i)' = PartFor(loc.newKey, splits, i)
  BY <1>1 DEF PartFor
<1>4. CASE UpdateEnterGroup
  <2>1. loc'.newKey = loc.newKey /\ loc'.errs = loc.errs /\ loc'.g = loc.g /\ loc'.k = 1
    BY <1>a, <1>4 DEF UpdateEnterGroup, Locals
  <2>2. pc = "upd.group" /\ pc' = "upd.key" /\ loc.g \in 1..Len(groups) /\ groups[loc.g] # <<>>
    BY <1>1, <1>4 DEF UpdateEnterGroup
  <2> QED
    BY <1>1, <1>2, <1>3, <2>1, <2>2 DEF SealInv, UpdateProgress, Updating
<1>5. CASE UpdateEnterKey
  <2>1. loc'.newKey = loc.newKey /\ loc'.errs = loc.errs /\ loc'.g = loc.g /\ loc'.k = loc.k
    BY <1>a, <1>5 DEF UpdateEnterKey, Locals
  <2>2. pc = "upd.key" /\ pc' = "upd.svc" /\ loc.k <= Len(groups[loc.g])
    BY <1>5 DEF UpdateEnterKey
  <2> QED
    BY <1>1, <1>2, <1>3, <2>1, <2>2 DEF SealInv, UpdateProgress, Updating
<1>6. CASE UpdateEncryptFailed
  <2>1. CASE loc' = [loc EXCEPT !.s = loc.s + 1] /\ UNCHANGED pc
    <3>1. loc'.newKey = loc.newKey /\ loc'.errs = loc.errs /\ loc'.g = loc.g /\ loc'.k = loc.k
      BY <1>a, <2>1 DEF Locals
    <3> QED
      BY <1>1, <1>2, <1>3, <1>6, <2>1, <3>1
         DEF UpdateEncryptFailed, SealInv, UpdateProgress, Updating
  <2>2. CASE loc' = [loc EXCEPT !.k = loc.k + 1, !.errs = TRUE] /\ pc' = "upd.key"
    <3>1. loc'.newKey = loc.newKey /\ loc'.errs = TRUE /\ loc'.g = loc.g /\ loc'.k = loc.k + 1
      BY <1>a, <2>2 DEF Locals
    <3> QED
      BY <1>1, <1>2, <1>6, <2>2, <3>1
         DEF UpdateEncryptFailed, SealInv, UpdateProgress, Updating
  <2> QED
    BY <1>6, <2>1, <2>2 DEF UpdateEncryptFailed
<1>7. CASE UpdateLeaveGroup
  <2>1. loc'.newKey = loc.newKey /\ loc'.errs = loc.errs /\ loc'.g = loc.g + 1
    BY <1>a, <1>7 DEF UpdateLeaveGroup, Locals
  <2>2. /\ pc = "upd.key" /\ pc' = "upd.group"
        /\ loc.g \in 1..Len(groups) /\ groups[loc.g] # <<>>
        /\ loc.k = Len(groups[loc.g]) + 1
    BY <1>1, <1>2, <1>7, <1>a DEF UpdateLeaveGroup, SealInv, UpdateProgress, Updating
  <2>3. ASSUME ~loc.errs, NEW i \in 1..loc.g
        PROVE  /\ groups[i] # <<>>
               /\ \A j \in 1..Len(groups[i]) : groups[i][j].enc = PartFor(loc.newKey, splits, i)
    <3>1. CASE i = loc.g
      <4>1. loc.k - 1 = Len(groups[loc.g])
        BY <1>2, <2>2
      <4> QED BY <2>2, <2>3, <3>1, <4>1 DEF SealInv, UpdateProgress, Updating
    <3>2. CASE i # loc.g
      <4>1. i \in 1..(loc.g - 1)
        BY <1>1, <3>2
      <4> QED BY <2>2, <2>3, <4>1 DEF SealInv, UpdateProgress, Updating
    <3> QED BY <3>1, <3>2
  <2>4. loc'.g \in 1..(Len(groups) + 1) /\ loc'.g - 1 = loc.g
    BY <1>1, <2>1, <2>2
  <2> QED
    BY <1>1, <1>3, <2>1, <2>2, <2>3, <2>4 DEF UpdateProgress, Updating
<1> QED
  BY <1>4, <1>5, <1>6, <1>7

\* An update that ends without an error has wrapped every key of every group.
LEMMA UpdateDoneSeals ==
  ASSUME SealInv, UpdateDone
  PROVE  UpdateSeals'
<1>1. /\ pc = "upd.group" /\ loc.g > Len(groups)
      /\ UNCHANGED <<groups, threshold, splits>>
      /\ ret'.call = "update" /\ ret'.ok = ~loc.errs /\ ret'.key = loc.newKey
  BY DEF UpdateDone, UpdateReturns, NoRet
<1>2. /\ groups # <<>> /\ Len(groups) \in Nat /\ splits \in Nat
      /\ Len(groups) > 1 => splits > 0 /\ threshold \in 2..Len(groups)
      /\ loc.g = Len(groups) + 1
  BY <1>1, LenProperties DEF SealInv, TypeInv, TypeOK, UpdateProgress, Updating
<1>3. ASSUME ~loc.errs
      PROVE  SealedBy(loc.newKey, splits)
  <2>1. loc.g - 1 = Len(groups)
    BY <1>2
  <2>2. \A i \in 1..Len(groups) :
           /\ groups[i] # <<>>
           /\ \A j \in 1..Len(groups[i]) : groups[i][j].enc = PartFor(loc.newKey, splits, i)
    BY <1>1, <1>3, <2>1 DEF SealInv, UpdateProgress, Updating
  <2> QED BY <1>2, <2>2 DEF SealedBy
<1>4. ASSUME ~loc.errs
      PROVE  Sealed(ret.key)'
  <2>1. splits \in 0..splits
    BY <1>2
  <2>2. \E split \in 0..splits : SealedBy(loc.newKey, split)
    BY <1>3, <1>4, <2>1
  <2> QED BY <1>1, <2>2 DEF Sealed, SealedBy, PartFor
<1> QED
  BY <1>1, <1>4 DEF UpdateSeals

LEMMA UpdateSealInv ==
  ASSUME SealInv, UpdateStep
  PROVE  SealInv'
<1>1. TypeInv'
  BY UpdateTypeInv DEF SealInv
<1>2. CASE UpdateEmptyGroup \/ UpdateCancelled
  <2>1. pc' = "idle" /\ ~ret'.ok
    BY <1>2 DEF UpdateEmptyGroup, UpdateCancelled, UpdateReturns, NoRet
  <2> QED BY <1>1, <2>1, NotSealing DEF Updating
<1>3. CASE UpdateDone
  <2>1. pc' = "idle"
    BY <1>3 DEF UpdateDone, UpdateReturns
  <2> QED
    BY <1>1, <1>3, <2>1, UpdateDoneSeals DEF SealInv, Silent, UpdateProgress, Updating
<1>4. CASE UpdateEncrypted
  BY <1>1, <1>4, UpdateEncryptedProgress, StillSealing DEF UpdateEncrypted, Updating
<1>5. CASE UpdateEnterGroup \/ UpdateEnterKey \/ UpdateEncryptFailed \/ UpdateLeaveGroup
  BY <1>1, <1>5, UpdateLoopProgress, StillSealing
     DEF UpdateEnterGroup, UpdateEnterKey, UpdateEncryptFailed, UpdateLeaveGroup, Updating
<1> QED
  BY <1>2, <1>3, <1>4, <1>5 DEF UpdateStep

LEMMA NextSealInv == SealInv /\ [Next]_vars => SealInv'
<1> SUFFICES ASSUME SealInv, [Next]_vars PROVE SealInv'
  OBVIOUS
<1>1. TypeInv'
  BY NextTypeInv DEF SealInv
<1>2. CASE Caller
  BY <1>2, CallerSealInv
<1>3. CASE UpdateStep
  BY <1>3, UpdateSealInv
<1>4. CASE GetStep
  BY <1>4, GetSealInv
<1>5. CASE UNCHANGED <<groups, threshold, splits, pc, loc, ret>>
  <2>1. UpdateProgress' /\ UpdateSeals'
    BY <1>5 DEF SealInv, UpdateProgress, UpdateSeals, Updating, Sealed, SealedBy, PartFor
  <2> QED BY <1>1, <1>5, <2>1 DEF SealInv, Silent
<1> QED
  BY <1>2, <1>3, <1>4, <1>5 DEF Next, Cancel, vars, meta

LEMMA SealInvariant == Spec => []SealInv
<1>1. Init => SealInv
  BY InitTypeInv, NoRetFields
     DEF Init, SealInv, Silent, UpdateProgress, UpdateSeals, Updating
<1>2. SealInv /\ [Next]_vars => SealInv'
  BY NextSealInv
<1> QED
  BY <1>1, <1>2, PTL DEF Spec

\* An UpdateMasterKeys call that reports no error has sealed the data key, for every
\* number of key groups, keys and services, whatever failed or was cancelled before.
THEOREM UpdateSealsTheDataKey == Spec => []UpdateSeals
<1>1. SealInv => UpdateSeals
  BY DEF SealInv
<1> QED
  BY <1>1, SealInvariant, PTL
-----------------------------------------------------------------------------
(***************************************************************************)
(* GetDataKey recovers the sealed key from a quorum                        *)
(***************************************************************************)
\* A part obtained so far is what some key of its group holds.
PartsFromGroups ==
  Getting => \A i \in Answered(loc.parts) :
               \E j \in 1..Len(groups[i]) : loc.parts[i] = groups[i][j].enc

OpenInv ==
  /\ TypeInv /\ Silent /\ PartsFromGroups
  /\ RecoversTheSealedKey /\ QuorumDecides

\* A step that leaves no recovery running and does not report its parts.
LEMMA NotOpening ==
  ASSUME TypeInv', ~Getting',
         ret'.call # "get" \/ ret'.why # "parts",
         pc' # "idle" => ret' = NoRet
  PROVE  OpenInv'
BY DEF OpenInv, Silent, PartsFromGroups, RecoversTheSealedKey, QuorumDecides

\* A step inside the loops of a recovery, or the step that begins one.
LEMMA StillOpening ==
  ASSUME TypeInv', ret' = NoRet, PartsFromGroups'
  PROVE  OpenInv'
BY NoRetFields DEF OpenInv, Silent, RecoversTheSealedKey, QuorumDecides

LEMMA CallerOpenInv ==
  ASSUME OpenInv, Caller
  PROVE  OpenInv'
<1>1. TypeInv'
  BY CallerTypeInv DEF OpenInv
<1>2. ASSUME NEW gs, NEW t, CallerEdits(gs, t)
      PROVE  OpenInv'
  BY <1>1, <1>2, NotOpening, NoRetFields DEF CallerEdits, Getting
<1>3. CASE Reload
  BY <1>1, <1>3, NotOpening, NoRetFields DEF Reload, Getting
<1>4. ASSUME NEW key \in DataKey, NEW n, NEW c, UpdateRejected(key, n, c)
      PROVE  OpenInv'
  <2>1. pc' = "idle" /\ ret'.call = "update"
    BY <1>4 DEF UpdateRejected, UpdateReturns, NoRet
  <2> QED BY <1>1, <2>1, NotOpening DEF Getting
<1>5. ASSUME NEW key \in DataKey, NEW n, UpdateStart(key, n)
      PROVE  OpenInv'
  BY <1>1, <1>5, NotOpening, NoRetFields DEF UpdateStart, Getting
<1>6. CASE GetRejected
  BY <1>1, <1>6, NotOpening DEF GetRejected, GetReturns, Getting
<1>7. CASE GetCached
  BY <1>1, <1>7, NotOpening DEF GetCached, GetReturns, Getting
<1>8. ASSUME NEW n \in 0..MaxSvcs, GetStart(n)
      PROVE  OpenInv'
  <2> DEFINE ps == [i \in 1..Len(groups) |-> NoPart]
  <2>1. loc' = [NoLocals EXCEPT !.svcs = n, !.parts = ps] /\ ret' = NoRet
    BY <1>8 DEF GetStart
  <2>2. loc'.parts = ps
    BY <2>1 DEF NoLocals
  <2>3. Answered(loc.parts)' = {}
    BY <2>2 DEF Answered
  <2> QED
    BY <1>1, <2>1, <2>3, StillOpening DEF PartsFromGroups
<1> QED
  BY <1>2, <1>3, <1>4, <1>5, <1>6, <1>7, <1>8
     DEF Caller, AddGroup, DeleteGroup, AddKey, RemoveKey

LEMMA UpdateOpenInv ==
  ASSUME OpenInv, UpdateStep
  PROVE  OpenInv'
<1>1. TypeInv'
  BY UpdateTypeInv DEF OpenInv
<1>2. CASE UpdateEmptyGroup \/ UpdateCancelled \/ UpdateDone
  <2>1. pc' = "idle" /\ ret'.call = "update"
    BY <1>2 DEF UpdateEmptyGroup, UpdateCancelled, UpdateDone, UpdateReturns, NoRet
  <2> QED BY <1>1, <2>1, NotOpening DEF Getting
<1>3. CASE /\ pc \in {"upd.group", "upd.key", "upd.svc"} /\ ret' = ret
           /\ pc' \in {"upd.group", "upd.key", "upd.svc"}
  BY <1>1, <1>3, NotOpening, NoRetFields DEF OpenInv, Silent, Getting
<1> QED
  BY <1>2, <1>3
     DEF UpdateStep, UpdateEnterGroup, UpdateEnterKey, UpdateEncrypted,
         UpdateEncryptFailed, UpdateLeaveGroup

\* What the parts of sealed groups say when they are put together: the sealed key if a
\* quorum of the groups answered, an error if not.
LEMMA SealedParts ==
  ASSUME TypeInv, Getting, PartsFromGroups,
         NEW key \in DataKey, NEW split \in 0..splits, SealedBy(key, split)
  PROVE  Recovered = IF Cardinality(Answered(loc.parts))
                          >= (IF Len(groups) > 1 THEN threshold ELSE 1)
                     THEN key ELSE NoKey
<1> DEFINE ps == loc.parts
           A == Answered(ps)
<1>1. /\ groups \in Seq(Group) /\ Len(groups) \in Nat /\ threshold \in Nat /\ split \in Nat
      /\ ps \in Seq(Part \cup {NoPart}) /\ Len(ps) = Len(groups)
  BY LenProperties DEF TypeInv, TypeOK, InRange, Locals, Group
<1>2. Len(groups) # 0
  BY <1>1, EmptySeq DEF SealedBy
<1>3. A = {i \in 1..Len(groups) : ps[i] # NoPart}
  BY <1>1 DEF Answered
<1>4. ASSUME NEW i \in A
      PROVE  i \in 1..Len(groups) /\ ps[i] = PartFor(key, split, i)
  <2>1. i \in 1..Len(groups)
    BY <1>3
  <2>2. PICK j \in 1..Len(groups[i]) : ps[i] = groups[i][j].enc
    BY DEF PartsFromGroups
  <2> QED BY <2>1, <2>2 DEF SealedBy
<1>5. IsFiniteSet(A) /\ Cardinality(A) \in Nat
  <2>1. IsFiniteSet(1..Len(groups))
    BY <1>1, FS_Interval
  <2>2. A \subseteq 1..Len(groups)
    BY <1>3
  <2> QED BY <2>1, <2>2, FS_Subset, FS_CardinalityType
<1> HIDE DEF A, ps
<1>6. CASE Len(groups) > 1
  <2>1. threshold \in 2..Len(groups) /\ split > 0
    BY <1>6 DEF SealedBy
  <2>2. \A i \in A : /\ i \in 1..Len(groups)
                     /\ ps[i].key = key /\ ps[i].split = split
                     /\ ps[i].need = threshold /\ ps[i].x = i
    <3> SUFFICES ASSUME NEW i \in A
                 PROVE  /\ i \in 1..Len(groups)
                        /\ ps[i].key = key /\ ps[i].split = split
                        /\ ps[i].need = threshold /\ ps[i].x = i
      OBVIOUS
    <3>1. i \in 1..Len(groups) /\ ps[i] = PartFor(key, split, i)
      BY <1>4
    <3>2. PartFor(key, split, i) = [key |-> key, split |-> split, need |-> threshold, x |-> i]
      <4>1. Len(groups) # 1
        BY <1>1, <1>6
      <4> QED BY <4>1, Zenon DEF PartFor
    <3> QED BY <3>1, <3>2
  <2>3. CASE Cardinality(A) < threshold
    BY <1>1, <1>5, <1>6, <2>3 DEF Recovered, A, ps
  <2>4. CASE Cardinality(A) >= threshold
    <3>1. A # {}
      BY <1>1, <1>5, <2>1, <2>4, FS_EmptySet
    <3>2. ~CombineRefuses(ps)
      BY <1>1, <1>5, <2>1, <2>2, <2>4 DEF CombineRefuses, SameLength, SameX, A
    <3>3. OnePolynomial(ps, key)
      BY <1>1, <1>5, <2>1, <2>2, <2>4 DEF OnePolynomial, A
    <3>4. \A k \in DataKey : OnePolynomial(ps, k) => k = key
      BY <2>2, <3>1 DEF OnePolynomial, A
    <3>5. Combine(ps) = key
      BY <3>2, <3>3, <3>4 DEF Combine
    <3> QED
      BY <1>1, <1>5, <1>6, <2>4, <3>5 DEF Recovered, A, ps
  <2> QED BY <1>1, <1>5, <2>3, <2>4
<1>7. CASE Len(groups) = 1
  <2>1. CASE A = {}
    BY <1>7, <2>1, FS_EmptySet DEF Recovered, A, ps
  <2>2. CASE A # {}
    <3>1. A = {1}
      BY <1>3, <1>7, <2>2
    <3>2. Cardinality(A) = 1
      BY <3>1, FS_Singleton
    <3>3. ps[1] = PartFor(key, split, 1)
      BY <1>4, <3>1
    <3>4. ps[1].key = key /\ ps[1].split = 0
      BY <1>7, <3>3 DEF PartFor
    <3> QED
      BY <1>7, <2>2, <3>2, <3>4 DEF Recovered, WholeKey, A, ps
  <2> QED BY <2>1, <2>2
<1> QED
  BY <1>1, <1>2, <1>6, <1>7

LEMMA GetOpenInv ==
  ASSUME OpenInv, GetStep
  PROVE  OpenInv'
<1>a. loc \in Locals /\ loc.g \in Nat /\ loc.k \in Nat /\ loc.s \in Nat
  BY DEF OpenInv, TypeInv, TypeOK, Locals
<1>1. TypeInv'
  BY GetTypeInv DEF OpenInv
<1>2. CASE GetCancelled
  BY <1>1, <1>2, NotOpening DEF GetCancelled, GetReturns, Getting
<1>3. ASSUME pc \in {"get.group", "get.key", "get.svc"}, ret' = ret,
             UNCHANGED groups, loc'.parts = loc.parts
      PROVE  OpenInv'
  <2>1. ret' = NoRet /\ PartsFromGroups'
    BY <1>3 DEF OpenInv, Silent, PartsFromGroups, Getting, Answered
  <2> QED BY <1>1, <2>1, StillOpening
<1>4. CASE GetEnterGroup
  BY <1>3, <1>4 DEF GetEnterGroup, meta
<1>5. ASSUME NEW j \in 1..MaxKeys, GetEnterKey(j) PROVE OpenInv'
  <2>1. loc'.parts = loc.parts
    BY <1>a, <1>5 DEF GetEnterKey, Locals
  <2> QED BY <1>3, <1>5, <2>1 DEF GetEnterKey, meta
<1>6. CASE GetLeaveGroup
  <2>1. loc'.parts = loc.parts
    BY <1>a, <1>6 DEF GetLeaveGroup, Locals
  <2> QED BY <1>3, <1>6, <2>1 DEF GetLeaveGroup, meta
<1>7. CASE GetDecryptFailed
  <2>1. loc'.parts = loc.parts
    BY <1>a, <1>7 DEF GetDecryptFailed, Locals
  <2> QED BY <1>3, <1>7, <2>1 DEF GetDecryptFailed, meta
<1>8. CASE GetKeyFailed
  <2>1. loc'.parts = loc.parts
    BY <1>a, <1>8 DEF GetKeyFailed, Locals
  <2> QED BY <1>3, <1>8, <2>1 DEF GetKeyFailed, meta
<1>9. CASE GetDecrypted
  <2> DEFINE part == groups[loc.g][loc.k].enc
             qs == [loc.parts EXCEPT ![loc.g] = part]
  <2>1. /\ pc = "get.svc" /\ ret' = ret /\ groups' = groups
        /\ loc.g \in 1..Len(groups) /\ loc.k \in 1..Len(groups[loc.g])
        /\ loc' = [loc EXCEPT !.parts = qs, !.g = loc.g + 1]
    BY <1>9 DEF GetDecrypted, OpenInv, TypeInv, InRange, meta
  <2>2. loc'.parts = qs
    BY <1>a, <2>1 DEF Locals
  <2>3. loc.parts \in Seq(Part \cup {NoPart})
    BY <1>a DEF Locals
  <2>4. \A i \in Answered(qs) :
           i \in DOMAIN loc.parts /\ qs[i] = IF i = loc.g THEN part ELSE loc.parts[i]
    BY <2>3 DEF Answered
  <2>5. \A i \in Answered(qs) : \E j \in 1..Len(groups[i]) : qs[i] = groups[i][j].enc
    <3> SUFFICES ASSUME NEW i \in Answered(qs)
                 PROVE  \E j \in 1..Len(groups[i]) : qs[i] = groups[i][j].enc
      OBVIOUS
    <3>1. CASE i = loc.g
      BY <2>1, <2>4, <3>1
    <3>2. CASE i # loc.g
      <4>1. i \in Answered(loc.parts) /\ qs[i] = loc.parts[i]
        BY <2>4, <3>2 DEF Answered
      <4> QED BY <2>1, <4>1 DEF OpenInv, PartsFromGroups, Getting
    <3> QED BY <3>1, <3>2
  <2> HIDE DEF qs
  <2>6. ret' = NoRet /\ PartsFromGroups'
    BY <2>1, <2>2, <2>5 DEF OpenInv, Silent, PartsFromGroups
  <2> QED BY <1>1, <2>6, StillOpening
<1>10. CASE GetDone
  <2> DEFINE quorum == IF Len(groups) > 1 THEN threshold ELSE 1
  <2>1. /\ pc = "get.group" /\ pc' = "idle" /\ UNCHANGED <<groups, threshold, splits>>
        /\ ret'.key = Recovered /\ ret'.ok = (Recovered # NoKey)
        /\ ret'.answered = Answered(loc.parts)
    BY <1>10 DEF GetDone, GetReturns
  <2>2. ASSUME NEW key \in DataKey, Sealed(key)
        PROVE  Recovered = IF Cardinality(Answered(loc.parts)) >= quorum THEN key ELSE NoKey
    BY <2>1, <2>2, SealedParts DEF Sealed, OpenInv, Getting
  <2> HIDE DEF quorum
  <2>3. \A key \in DataKey : Sealed(key)' <=> Sealed(key)
    BY <2>1 DEF Sealed, SealedBy, PartFor
  <2>4. RecoversTheSealedKey'
    BY <2>1, <2>2, <2>3 DEF RecoversTheSealedKey
  <2>5. QuorumDecides'
    BY <2>1, <2>2, <2>3, KeyWrapAssumption DEF QuorumDecides, quorum
  <2> QED
    BY <1>1, <2>1, <2>4, <2>5 DEF OpenInv, Silent, PartsFromGroups, Getting
<1> QED
  BY <1>2, <1>4, <1>5, <1>6, <1>7, <1>8, <1>9, <1>10 DEF GetStep

LEMMA NextOpenInv == OpenInv /\ [Next]_vars => OpenInv'
<1> SUFFICES ASSUME OpenInv, [Next]_vars PROVE OpenInv'
  OBVIOUS
<1>1. TypeInv'
  BY NextTypeInv DEF OpenInv
<1>2. CASE Caller
  BY <1>2, CallerOpenInv
<1>3. CASE UpdateStep
  BY <1>3, UpdateOpenInv
<1>4. CASE GetStep
  BY <1>4, GetOpenInv
<1>5. CASE UNCHANGED <<groups, threshold, splits, pc, loc, ret>>
  <2>1. \A key \in DataKey : Sealed(key)' <=> Sealed(key)
    BY <1>5 DEF Sealed, SealedBy, PartFor
  <2>2. RecoversTheSealedKey' /\ QuorumDecides'
    BY <1>5, <2>1 DEF OpenInv, RecoversTheSealedKey, QuorumDecides
  <2>3. PartsFromGroups'
    BY <1>5 DEF OpenInv, PartsFromGroups, Getting, Answered
  <2> QED BY <1>1, <1>5, <2>2, <2>3 DEF OpenInv, Silent
<1> QED
  BY <1>2, <1>3, <1>4, <1>5 DEF Next, Cancel, vars, meta

LEMMA OpenInvariant == Spec => []OpenInv
<1>1. Init => OpenInv
  BY InitTypeInv, NoRetFields
     DEF Init, OpenInv, Silent, PartsFromGroups, RecoversTheSealedKey, QuorumDecides, Getting
<1>2. OpenInv /\ [Next]_vars => OpenInv'
  BY NextOpenInv
<1> QED
  BY <1>1, <1>2, PTL DEF Spec

\* Whichever groups and keys answer, what GetDataKey puts together from metadata that
\* seals a data key is that data key, or an error.
THEOREM GetDataKeyRecoversTheSealedKey == Spec => []RecoversTheSealedKey
<1>1. OpenInv => RecoversTheSealedKey
  BY DEF OpenInv
<1> QED
  BY <1>1, OpenInvariant, PTL

\* From sealed metadata GetDataKey gives the data key exactly when a quorum of the key
\* groups answered: fewer never suffice and enough never fail.
THEOREM QuorumOfGroupsDecides == Spec => []QuorumDecides
<1>1. OpenInv => QuorumDecides
  BY DEF OpenInv
<1> QED
  BY <1>1, OpenInvariant, PTL
-----------------------------------------------------------------------------
(***************************************************************************)
(* The keys of a group are tried in order                                  *)
(***************************************************************************)
\* A set of positions has a last one: of the intervals from its members to n, one is in no
\* other (the library's subset ordering is well-founded).
LEMMA LastPosition ==
  ASSUME NEW n \in Nat, NEW T \in SUBSET (1..n), T # {}
  PROVE  \E i \in T : \A j \in T : j <= i
<1> DEFINE behind == {i..n : i \in T}
<1>1. IsFiniteSet(1..n)
  BY FS_Interval
<1>2. IsWellFoundedOn(StrictSubsetOrdering(1..n), SUBSET (1..n))
  BY <1>1, FS_StrictSubsetOrderingWellFounded, FS_FiniteSubsetsOfFinite
<1>3. behind \subseteq SUBSET (1..n)
  <2> SUFFICES ASSUME NEW i \in T PROVE i..n \subseteq 1..n
    OBVIOUS
  <2> QED OBVIOUS
<1>4. behind # {}
  OBVIOUS
<1>5. PICK x \in behind : \A y \in behind : <<y, x>> \notin StrictSubsetOrdering(1..n)
  <2> HIDE DEF behind
  <2> QED BY <1>2, <1>3, <1>4, WFMin
<1>6. PICK i \in T : x = i..n
  OBVIOUS
<1>7. ASSUME NEW j \in T, ~(j <= i) PROVE FALSE
  <2>1. j..n \subseteq i..n /\ j..n # i..n
    BY <1>7
  <2>2. j..n \in behind /\ j..n \in SUBSET (1..n) /\ i..n \in SUBSET (1..n)
    OBVIOUS
  <2> QED BY <1>5, <1>6, <2>1, <2>2 DEF StrictSubsetOrdering
<1> QED BY <1>7

LEMMA PriorityIsNatural == \A t : Priority(t) \in Nat
<1> SUFFICES ASSUME NEW t PROVE Priority(t) \in Nat
  OBVIOUS
<1>1. Len(DecryptionOrder) \in Nat
  BY KeyWrapAssumption, LenProperties
<1>2. CASE Places(t) = {}
  BY <1>1, <1>2 DEF Priority
<1>3. CASE Places(t) # {}
  <2>1. Places(t) \in SUBSET (1..Len(DecryptionOrder))
    BY DEF Places
  <2>2. \E i \in Places(t) : \A j \in Places(t) : j <= i
    BY <1>1, <1>3, <2>1, LastPosition
  <2>3. Priority(t) \in Places(t)
    BY <1>3, <2>2 DEF Priority
  <2> QED BY <2>1, <2>3
<1> QED BY <1>2, <1>3

\* Of two keys of a group one comes first.
LEMMA BeforeIsStrict ==
  ASSUME NEW group, NEW i \in Nat, NEW j \in Nat, Before(group, i, j)
  PROVE  ~Before(group, j, i)
<1>1. Priority(group[i].type) \in Nat /\ Priority(group[j].type) \in Nat
  BY PriorityIsNatural
<1> QED BY <1>1 DEF Before

\* What GroupAnswersByFirstGoodKey needs to be inductive: the types, and what lies ahead.
GetInv == TypeInv /\ GetProgress /\ GroupAnswersByFirstGoodKey

\* A step that leaves no recovery running.
LEMMA NotGetting ==
  ASSUME TypeInv', ~Getting'
  PROVE  GetInv'
BY DEF GetInv, GetProgress, GroupAnswersByFirstGoodKey, Getting

LEMMA CallerGetInv ==
  ASSUME GetInv, Caller
  PROVE  GetInv'
<1>1. TypeInv'
  BY CallerTypeInv DEF GetInv
<1>2. ASSUME NEW n \in 0..MaxSvcs, GetStart(n)
      PROVE  GetInv'
  <2> DEFINE ps == [i \in 1..Len(groups) |-> NoPart]
  <2>1. Len(groups) \in Nat
    BY LenProperties DEF GetInv, TypeInv, TypeOK
  <2>2. /\ loc' = [NoLocals EXCEPT !.svcs = n, !.parts = ps]
        /\ groups' = groups /\ pc' = "get.group"
    BY <1>2 DEF GetStart, meta
  <2>3. loc'.parts = ps /\ loc'.g = 1
    BY <2>2 DEF NoLocals
  <2>4. Len(ps) = Len(groups) /\ \A i \in 1..Len(groups) : ps[i] = NoPart
    BY <2>1
  <2> HIDE DEF ps
  <2>5. GetProgress'
    BY <2>1, <2>2, <2>3, <2>4 DEF GetProgress, Getting
  <2>6. GroupAnswersByFirstGoodKey'
    BY <2>3 DEF GroupAnswersByFirstGoodKey
  <2> QED BY <1>1, <2>5, <2>6 DEF GetInv
<1>3. CASE pc' \in {"idle", "upd.group"}
  BY <1>1, <1>3, NotGetting DEF Getting
<1> QED
  BY <1>2, <1>3
     DEF Caller, AddGroup, DeleteGroup, AddKey, RemoveKey, CallerEdits, Reload, UpdateRejected,
         UpdateReturns, UpdateStart, GetRejected, GetCached, GetReturns

LEMMA UpdateGetInv ==
  ASSUME GetInv, UpdateStep
  PROVE  GetInv'
<1>1. TypeInv'
  BY UpdateTypeInv DEF GetInv
<1>2. pc' \in {"idle", "upd.group", "upd.key", "upd.svc"}
  BY DEF UpdateStep, UpdateEnterGroup, UpdateEmptyGroup, UpdateCancelled, UpdateEnterKey,
         UpdateEncrypted, UpdateEncryptFailed, UpdateLeaveGroup, UpdateDone, UpdateReturns
<1> QED BY <1>1, <1>2, NotGetting DEF Getting

\* Where the answers are: in every group that a recovery has left, and in none ahead of it.
GroupAnswered(i) ==
  \/ ctxDone /\ loc.parts[i] = NoPart
  \/ /\ loc.parts[i] = NoPart
     /\ \A j \in 1..Len(groups[i]) : <<i, j>> \in loc.failed
  \/ \E j \in 1..Len(groups[i]) :
       /\ loc.parts[i] = groups[i][j].enc
       /\ \A m \in 1..Len(groups[i]) :
            m # j /\ Before(groups[i], m, j) => <<i, m>> \in loc.failed

\* A group that is done stays so while the recovery goes on.
LEMMA AnswersStay ==
  ASSUME GroupAnswersByFirstGoodKey, Getting, groups' = groups, ctxDone => ctxDone',
         loc.failed \subseteq loc'.failed,
         \A i \in 1..(loc.g - 1) : loc'.parts[i] = loc.parts[i]
  PROVE  \A i \in 1..(loc.g - 1) : GroupAnswered(i)'
BY DEF GroupAnswersByFirstGoodKey, GroupAnswered, Getting, Before

LEMMA GetGetInv ==
  ASSUME GetInv, GetStep
  PROVE  GetInv'
<1>a. /\ groups \in Seq(Group) /\ Len(groups) \in Nat
      /\ loc \in Locals /\ loc.g \in Nat \ {0} /\ loc.k \in Nat /\ loc.s \in Nat
      /\ loc.parts \in Seq(Part \cup {NoPart}) /\ DOMAIN loc.parts = 1..Len(loc.parts)
  BY LenProperties DEF GetInv, TypeInv, TypeOK, InRange, Locals, Group
<1>1. TypeInv'
  BY GetTypeInv DEF GetInv
<1>2. CASE GetCancelled \/ GetDone
  BY <1>1, <1>2, NotGetting DEF GetCancelled, GetDone, GetReturns, Getting
<1>3. CASE GetEnterGroup
  <2>1. /\ pc = "get.group" /\ pc' = "get.key" /\ groups' = groups /\ loc' = loc
        /\ ctxDone' = ctxDone /\ loc.g <= Len(groups)
    BY <1>3 DEF GetEnterGroup, meta
  <2>2. GetProgress'
    BY <2>1 DEF GetInv, GetProgress, Getting
  <2>3. GroupAnswersByFirstGoodKey'
    BY <2>1 DEF GetInv, GroupAnswersByFirstGoodKey, Before
  <2> QED BY <1>1, <2>2, <2>3 DEF GetInv
<1>4. ASSUME NEW j \in 1..MaxKeys, GetEnterKey(j) PROVE GetInv'
  <2>1. /\ pc = "get.key" /\ pc' = "get.svc" /\ groups' = groups /\ ctxDone' = ctxDone
        /\ loc' = [loc EXCEPT !.k = j, !.s = 1]
        /\ j \in Untried /\ \A i \in Untried : i = j \/ Before(groups[loc.g], j, i)
    BY <1>4 DEF GetEnterKey, meta
  <2>2. /\ loc'.g = loc.g /\ loc'.parts = loc.parts /\ loc'.failed = loc.failed /\ loc'.k = j
    BY <1>a, <2>1 DEF Locals
  <2>3. Untried' = Untried
    BY <2>1, <2>2 DEF Untried
  <2>4. \A m \in 1..Len(groups[loc.g]) :
          m # j /\ Before(groups[loc.g], m, j) => <<loc.g, m>> \in loc.failed
    <3> SUFFICES ASSUME NEW m \in 1..Len(groups[loc.g]), m # j, Before(groups[loc.g], m, j),
                        m \in Untried
                 PROVE  FALSE
      BY DEF Untried
    <3>1. Before(groups[loc.g], j, m) /\ m \in Nat /\ j \in Nat
      BY <2>1, KeyWrapAssumption
    <3> QED BY <3>1, BeforeIsStrict
  <2>5. GetProgress'
    BY <2>1, <2>2, <2>3, <2>4 DEF GetInv, GetProgress, Getting, Before
  <2>6. \A i \in 1..(loc.g - 1) : GroupAnswered(i)'
    BY <2>1, <2>2, AnswersStay DEF GetInv, Getting
  <2>7. GroupAnswersByFirstGoodKey'
    BY <2>2, <2>6 DEF GroupAnswersByFirstGoodKey, GroupAnswered
  <2> QED BY <1>1, <2>5, <2>7 DEF GetInv
<1>5. CASE GetLeaveGroup
  <2>1. /\ pc = "get.key" /\ pc' = "get.group" /\ groups' = groups /\ ctxDone' = ctxDone
        /\ loc' = [loc EXCEPT !.g = loc.g + 1] /\ (Untried = {} \/ ctxDone)
    BY <1>5 DEF GetLeaveGroup, meta
  <2>2. /\ loc'.g = loc.g + 1 /\ loc'.parts = loc.parts /\ loc'.failed = loc.failed
    BY <1>a, <2>1 DEF Locals
  <2>3. loc.g \in 1..Len(groups) /\ loc.parts[loc.g] = NoPart
    BY <1>a, <2>1 DEF GetInv, GetProgress, Getting
  <2>4. GetProgress'
    BY <1>a, <2>1, <2>2, <2>3 DEF GetInv, GetProgress, Getting
  <2>5. ASSUME NEW i \in Nat, i = loc.g PROVE GroupAnswered(i)'
    <3>1. groups'[i] = groups[i] /\ loc'.parts[i] = NoPart
      BY <2>1, <2>2, <2>3, <2>5
    <3>2. CASE ctxDone
      BY <2>1, <3>1, <3>2 DEF GroupAnswered
    <3>3. CASE Untried = {}
      <4>1. \A j \in 1..Len(groups[i]) : <<i, j>> \in loc.failed
        BY <2>5, <3>3 DEF Untried
      <4> QED BY <2>2, <3>1, <4>1 DEF GroupAnswered
    <3> QED BY <2>1, <3>2, <3>3
  <2>6. \A i \in 1..(loc.g - 1) : GroupAnswered(i)'
    BY <2>1, <2>2, AnswersStay DEF GetInv, Getting
  <2>7. \A i \in 1..loc.g : GroupAnswered(i)'
    <3> TAKE i \in 1..loc.g
    <3>1. CASE i = loc.g
      BY <1>a, <2>5, <3>1
    <3>2. CASE i # loc.g
      BY <1>a, <2>6, <3>2
    <3> QED BY <3>1, <3>2
  <2>8. GroupAnswersByFirstGoodKey'
    <3>1. loc'.g - 1 = loc.g
      BY <1>a, <2>2
    <3> QED BY <2>7, <3>1 DEF GroupAnswersByFirstGoodKey, GroupAnswered
  <2> QED BY <1>1, <2>4, <2>8 DEF GetInv
<1>6. CASE GetDecrypted
  <2> DEFINE part == groups[loc.g][loc.k].enc
             qs == [loc.parts EXCEPT ![loc.g] = part]
  <2>1. /\ pc = "get.svc" /\ pc' = "get.group" /\ groups' = groups /\ ctxDone' = ctxDone
        /\ loc' = [loc EXCEPT !.parts = qs, !.g = loc.g + 1]
        /\ loc.g \in 1..Len(groups) /\ loc.k \in 1..Len(groups[loc.g])
    BY <1>6 DEF GetDecrypted, meta, GetInv, TypeInv, InRange
  <2>2. loc'.g = loc.g + 1 /\ loc'.parts = qs /\ loc'.failed = loc.failed
    BY <1>a, <2>1 DEF Locals
  <2>3. /\ Len(loc.parts) = Len(groups) /\ \A i \in loc.g..Len(groups) : loc.parts[i] = NoPart
        /\ \A m \in 1..Len(groups[loc.g]) :
             m # loc.k /\ Before(groups[loc.g], m, loc.k) => <<loc.g, m>> \in loc.failed
    BY <2>1 DEF GetInv, GetProgress, Getting
  <2>4. /\ Len(qs) = Len(groups) /\ qs[loc.g] = part
        /\ \A i \in 1..Len(groups) : i # loc.g => qs[i] = loc.parts[i]
    BY <1>a, <2>1, <2>3
  <2> HIDE DEF qs
  <2>5. GetProgress'
    BY <1>a, <2>1, <2>2, <2>3, <2>4 DEF GetProgress, Getting
  <2>6. ASSUME NEW i \in Nat, i = loc.g PROVE GroupAnswered(i)'
    <3>1. groups'[i] = groups[i] /\ loc'.parts[i] = groups[i][loc.k].enc
      BY <2>1, <2>2, <2>4, <2>6
    <3>2. PICK j \in 1..Len(groups[i]) : j = loc.k
      BY <2>1, <2>6
    <3>3. \A m \in 1..Len(groups[i]) :
            m # j /\ Before(groups[i], m, j) => <<i, m>> \in loc'.failed
      BY <2>2, <2>3, <2>6, <3>2
    <3>4. /\ loc'.parts[i] = groups'[i][j].enc
          /\ \A m \in 1..Len(groups'[i]) :
               m # j /\ Before(groups'[i], m, j) => <<i, m>> \in loc'.failed
      BY <3>1, <3>2, <3>3
    <3> QED BY <3>1, <3>4 DEF GroupAnswered, Before
  <2>7. \A i \in 1..(loc.g - 1) : GroupAnswered(i)'
    <3>1. \A i \in 1..(loc.g - 1) : loc'.parts[i] = loc.parts[i]
      BY <1>a, <2>1, <2>2, <2>4
    <3> QED BY <2>1, <2>2, <3>1, AnswersStay DEF GetInv, Getting
  <2>8. \A i \in 1..loc.g : GroupAnswered(i)'
    <3> TAKE i \in 1..loc.g
    <3>1. CASE i = loc.g
      BY <1>a, <2>6, <3>1
    <3>2. CASE i # loc.g
      BY <1>a, <2>7, <3>2
    <3> QED BY <3>1, <3>2
  <2>9. GroupAnswersByFirstGoodKey'
    <3>1. loc'.g - 1 = loc.g
      BY <1>a, <2>2
    <3> QED BY <2>8, <3>1 DEF GroupAnswersByFirstGoodKey, GroupAnswered
  <2> QED BY <1>1, <2>5, <2>9 DEF GetInv
<1>7. CASE GetDecryptFailed
  <2>1. /\ pc = "get.svc" /\ pc' = pc /\ groups' = groups /\ ctxDone' = ctxDone
        /\ loc' = [loc EXCEPT !.s = loc.s + 1]
    BY <1>7 DEF GetDecryptFailed, meta
  <2>2. /\ loc'.g = loc.g /\ loc'.parts = loc.parts /\ loc'.failed = loc.failed
        /\ loc'.k = loc.k
    BY <1>a, <2>1 DEF Locals
  <2>3. GetProgress'
    BY <2>1, <2>2 DEF GetInv, GetProgress, Getting, Untried, Before
  <2>4. \A i \in 1..(loc.g - 1) : GroupAnswered(i)'
    BY <2>1, <2>2, AnswersStay DEF GetInv, Getting
  <2>5. GroupAnswersByFirstGoodKey'
    BY <2>2, <2>4 DEF GroupAnswersByFirstGoodKey, GroupAnswered
  <2> QED BY <1>1, <2>3, <2>5 DEF GetInv
<1>8. CASE GetKeyFailed
  <2>1. /\ pc = "get.svc" /\ pc' = "get.key" /\ groups' = groups /\ ctxDone' = ctxDone
        /\ loc' = [loc EXCEPT !.failed = loc.failed \cup {<<loc.g, loc.k>>}]
    BY <1>8 DEF GetKeyFailed, meta
  <2>2. /\ loc'.g = loc.g /\ loc'.parts = loc.parts
        /\ loc'.failed = loc.failed \cup {<<loc.g, loc.k>>}
    BY <1>a, <2>1 DEF Locals
  <2>3. GetProgress'
    BY <2>1, <2>2 DEF GetInv, GetProgress, Getting
  <2>4. \A i \in 1..(loc.g - 1) : GroupAnswered(i)'
    BY <2>1, <2>2, AnswersStay DEF GetInv, Getting
  <2>5. GroupAnswersByFirstGoodKey'
    BY <2>2, <2>4 DEF GroupAnswersByFirstGoodKey, GroupAnswered
  <2> QED BY <1>1, <2>3, <2>5 DEF GetInv
<1> QED
  BY <1>2, <1>3, <1>4, <1>5, <1>6, <1>7, <1>8 DEF GetStep

LEMMA NextGetInv == GetInv /\ [Next]_vars => GetInv'
<1> SUFFICES ASSUME GetInv, [Next]_vars PROVE GetInv'
  OBVIOUS
<1>1. TypeInv'
  BY NextTypeInv DEF GetInv
<1>2. CASE Caller
  BY <1>2, CallerGetInv
<1>3. CASE UpdateStep
  BY <1>3, UpdateGetInv
<1>4. CASE GetStep
  BY <1>4, GetGetInv
<1>5. CASE UNCHANGED <<groups, pc, loc>> /\ (ctxDone => ctxDone')
  <2>1. GetProgress'
    BY <1>5 DEF GetInv, GetProgress, Getting, Untried, Before
  <2>2. GroupAnswersByFirstGoodKey'
    BY <1>5 DEF GetInv, GroupAnswersByFirstGoodKey, Before
  <2> QED BY <1>1, <2>1, <2>2 DEF GetInv
<1> QED
  BY <1>2, <1>3, <1>4, <1>5 DEF Next, Cancel, vars, meta

LEMMA GetInvariant == Spec => []GetInv
<1>1. Init => GetInv
  BY InitTypeInv DEF Init, GetInv, GetProgress, GroupAnswersByFirstGoodKey, Getting
<1>2. GetInv /\ [Next]_vars => GetInv'
  BY NextGetInv
<1> QED
  BY <1>1, <1>2, PTL DEF Spec

\* decryptKeyGroupCtx: a group is given up only after each of its keys has failed, unless the
\* call was cancelled, and answers with the first key in decryption order that did not fail, for
\* any number of groups and keys and any order of types.
THEOREM GroupsAnswerByFirstGoodKey == Spec => []GroupAnswersByFirstGoodKey
<1>1. GetInv => GroupAnswersByFirstGoodKey
  BY DEF GetInv
<1> QED
  BY <1>1, GetInvariant, PTL

\* The loops of both calls leave behind them, and find ahead, what they should.
THEOREM LoopsProgress == Spec => []LoopProgress
<1>1. SealInv /\ GetInv => LoopProgress
  BY DEF SealInv, GetInv, LoopProgress
<1> QED
  BY <1>1, SealInvariant, GetInvariant, PTL

-----------------------------------------------------------------------------
(***************************************************************************)
(* KeyWrap implements KeyCustody: whatever the number of key groups, keys, *)
(* shares and services, a caller of UpdateMasterKeys and GetDataKey sees   *)
(* one data key in custody, or none.                                       *)
(*                                                                         *)
(* Each step of the loops is a step of Custody!SealSome or a stutter; the  *)
(* steps at which a call returns are Custody's answers.  CustodyInv adds   *)
(* to the invariants above what the refinement mapping needs: no share in  *)
(* a group is of a split yet to come, so that a new threshold cannot make  *)
(* old shares look sealed.                                                 *)
(***************************************************************************)

\* Master keys that hold nothing of a split after the n-th.
OldKeys(n) == {k \in MasterKey : k.enc # NoPart => k.enc.split <= n}
OldGroups(n) == Seq(Seq(OldKeys(n)))

CustodyInv ==
  /\ SealInv /\ OpenInv
  /\ ~Updating => loc.newKey = NoKey
  /\ groups \in OldGroups(splits)
  /\ threshold = 0 => splits = 0

-----------------------------------------------------------------------------
(***************************************************************************)
(* The data key in custody                                                 *)
(***************************************************************************)
LEMMA OneOrMore == \A n \in Nat : (n > 1 => n # 1) /\ (n = 0 \/ n = 1 \/ n > 1)
OBVIOUS

\* Sealed metadata has a first master key, and it holds its part.
LEMMA FirstMasterKey ==
  ASSUME TypeInv, NEW key, NEW split, SealedBy(key, split)
  PROVE  /\ 1 \in 1..Len(groups) /\ 1 \in 1..Len(groups[1])
         /\ groups[1][1].enc = PartFor(key, split, 1)
<1>1. groups # <<>> /\ groups \in Seq(Group)
  BY DEF SealedBy, TypeInv, TypeOK, Group
<1>2. 1 \in 1..Len(groups) /\ groups[1] \in Group
  BY <1>1, LenProperties, EmptySeq
<1>3. groups[1] # <<>>
  BY <1>2 DEF SealedBy
<1>4. 1 \in 1..Len(groups[1])
  BY <1>2, <1>3, LenProperties, EmptySeq DEF Group
<1> QED BY <1>2, <1>4 DEF SealedBy

\* Metadata seals one data key at the most.
LEMMA OneSealedKey ==
  ASSUME TypeInv, NEW k1, NEW k2, Sealed(k1), Sealed(k2)
  PROVE  k1 = k2
<1>1. PICK s1 \in 0..splits : SealedBy(k1, s1)
  BY DEF Sealed
<1>2. PICK s2 \in 0..splits : SealedBy(k2, s2)
  BY DEF Sealed
<1>3. PartFor(k1, s1, 1) = PartFor(k2, s2, 1)
  BY <1>1, <1>2, FirstMasterKey
<1>4. PartFor(k1, s1, 1).key = k1 /\ PartFor(k2, s2, 1).key = k2
  BY DEF PartFor
<1> QED BY <1>3, <1>4

\* No group holds a share of a split to come.
LEMMA NoShareOfLaterSplit ==
  ASSUME TypeInv, groups \in OldGroups(splits), 1 \in 1..Len(groups), 1 \in 1..Len(groups[1]),
         NEW key \in DataKey, NEW split \in Nat, NEW t \in Nat,
         groups[1][1].enc = [key |-> key, split |-> split, need |-> t, x |-> 1]
  PROVE  split <= splits
<1> DEFINE share == [key |-> key, split |-> split, need |-> t, x |-> 1]
<1>1. groups[1] \in Seq(OldKeys(splits))
  BY ElementOfSeq DEF OldGroups
<1>2. groups[1][1] \in OldKeys(splits)
  BY <1>1, ElementOfSeq
<1>3. share \in Part /\ share.split = split
  BY DEF Part
<1>4. groups[1][1].enc = share
  OBVIOUS
<1> HIDE DEF share
<1> QED BY <1>2, <1>3, <1>4, NoPartAssumption DEF OldKeys

SealedKeyHeld ==
  /\ SealedKey \in DataKey \cup {NoKey}
  /\ \A key \in DataKey : Sealed(key) <=> SealedKey = key

LEMMA SealedKeyIsHeld == TypeInv => SealedKeyHeld
<1> SUFFICES ASSUME TypeInv PROVE SealedKeyHeld
  OBVIOUS
<1>1. CASE \E key \in DataKey : Sealed(key)
  <2>1. SealedKey \in DataKey /\ Sealed(SealedKey)
    BY <1>1 DEF SealedKey
  <2> QED BY <2>1, OneSealedKey DEF SealedKeyHeld
<1>2. CASE ~\E key \in DataKey : Sealed(key)
  <2>1. SealedKey = NoKey
    BY <1>2 DEF SealedKey
  <2> QED BY <1>2, <2>1, KeyWrapAssumption DEF SealedKeyHeld
<1> QED BY <1>1, <1>2

LEMMA SealedKeyIsHeldNext == TypeInv' => SealedKeyHeld'
BY SealedKeyIsHeld, PTL

\* The custody is what it was when the same keys are sealed.
LEMMA SameCustody ==
  ASSUME TypeInv, TypeInv', \A key \in DataKey : Sealed(key)' <=> Sealed(key)
  PROVE  SealedKey' = SealedKey
<1>1. SealedKeyHeld /\ SealedKeyHeld'
  BY SealedKeyIsHeld, SealedKeyIsHeldNext
<1> QED BY <1>1, KeyWrapAssumption DEF SealedKeyHeld

LEMMA GroupsKeepCustody ==
  ASSUME TypeInv, TypeInv', UNCHANGED <<groups, threshold, splits>>
  PROVE  SealedKey' = SealedKey
<1>1. \A key \in DataKey : Sealed(key)' <=> Sealed(key)
  BY DEF Sealed, SealedBy, PartFor
<1> QED BY <1>1, SameCustody

\* A threshold that is set to the number of groups, and the split of a data key, leave in
\* custody what was there: a threshold left at zero means that nothing was ever split, and
\* no group holds a share of the split to come.
LEMMA SplitKeepsCustody ==
  ASSUME CustodyInv, TypeInv', groups' = groups, threshold' = Quorum,
         splits' = splits \/ (Len(groups) > 1 /\ splits' = splits + 1)
  PROVE  SealedKey' = SealedKey
<1>0. Len(groups) \in Nat
  BY LenProperties DEF CustodyInv, SealInv, TypeInv, TypeOK
<1>1. /\ splits \in Nat /\ splits' \in Nat /\ threshold \in Nat
      /\ Len(groups) \in Nat /\ groups \in OldGroups(splits)
  BY LenProperties DEF CustodyInv, SealInv, TypeInv, TypeOK
<1>2. CASE Len(groups) = 0
  <2>1. groups = <<>>
    BY <1>1, <1>2, EmptySeq DEF OldGroups
  <2>2. \A key \in DataKey : Sealed(key)' <=> Sealed(key)
    BY <2>1 DEF Sealed, SealedBy
  <2> QED BY <2>2, SameCustody DEF CustodyInv, SealInv
<1>3. CASE Len(groups) = 1
  BY <1>0, <1>3, GroupsKeepCustody DEF Quorum, CustodyInv, SealInv
<1>4. ASSUME Len(groups) > 1, NEW key \in DataKey, NEW split \in 0..splits', SealedBy(key, split)'
      PROVE  split \in 0..splits
  <2>1. threshold' \in Nat /\ split \in Nat
    BY <1>1 DEF TypeInv, TypeOK
  <2>2. groups' # <<>> /\ 1 \in 1..Len(groups) /\ groups[1] # <<>>
    BY <1>1, <1>4 DEF SealedBy
  <2>3. 1 \in 1..Len(groups[1])
    <3>1. groups[1] \in Seq(OldKeys(splits))
      BY <1>1, <2>2, ElementOfSeq DEF OldGroups
    <3> QED BY <2>2, <3>1, LenProperties, EmptySeq
  <2>4. groups[1][1].enc = [key |-> key, split |-> split, need |-> threshold', x |-> 1]
    <3>1. groups'[1][1].enc = PartFor(key, split, 1)'
      BY <1>4, <2>2, <2>3 DEF SealedBy
    <3>2. PartFor(key, split, 1)' = [key |-> key, split |-> split, need |-> threshold', x |-> 1]
      <4>1. Len(groups') # 1
        BY <1>0, <1>4, OneOrMore
      <4> QED BY <4>1 DEF PartFor
    <3> QED BY <3>1, <3>2
  <2> QED BY <1>1, <2>1, <2>2, <2>3, <2>4, NoShareOfLaterSplit DEF CustodyInv, SealInv
<1>5. CASE Len(groups) > 1 /\ threshold = 0
  <2>1. splits = 0
    BY <1>5 DEF CustodyInv
  <2>2. \A key : ~Sealed(key)
    BY <1>5, <2>1 DEF Sealed, SealedBy
  <2>3. \A key \in DataKey : ~Sealed(key)'
    <3> SUFFICES ASSUME NEW key \in DataKey, NEW split \in 0..splits', SealedBy(key, split)'
                 PROVE  FALSE
      BY DEF Sealed
    <3> QED BY <1>4, <1>5, <2>1 DEF SealedBy
  <2> QED BY <2>2, <2>3, SameCustody DEF CustodyInv, SealInv
<1>6. CASE Len(groups) > 1 /\ threshold # 0
  <2>1. \A key, split : SealedBy(key, split)' <=> SealedBy(key, split)
    BY <1>6 DEF SealedBy, PartFor, Quorum
  <2>2. \A split : split \in 0..splits => split \in 0..splits'
    BY <1>1, <1>6
  <2>3. \A key \in DataKey : Sealed(key)' <=> Sealed(key)
    <3> SUFFICES ASSUME NEW key \in DataKey PROVE Sealed(key)' <=> Sealed(key)
      OBVIOUS
    <3>1. Sealed(key) => Sealed(key)'
      BY <2>1, <2>2 DEF Sealed
    <3>2. Sealed(key)' => Sealed(key)
      BY <1>4, <1>6, <2>1 DEF Sealed
    <3> QED BY <3>1, <3>2
  <2> QED BY <2>3, SameCustody DEF CustodyInv, SealInv
<1>7. Len(groups) = 0 \/ Len(groups) = 1 \/ Len(groups) > 1
  BY <1>0, OneOrMore
<1> QED BY <1>2, <1>3, <1>5, <1>6, <1>7

-----------------------------------------------------------------------------
(***************************************************************************)
(* The invariant                                                           *)
(***************************************************************************)
LEMMA SeqGrows ==
  ASSUME NEW S, NEW T, S \subseteq T
  PROVE  Seq(S) \subseteq Seq(T)
<1> SUFFICES ASSUME NEW s \in Seq(S) PROVE s \in Seq(T)
  OBVIOUS
<1>1. Len(s) \in Nat /\ s \in [1..Len(s) -> S]
  BY LenProperties
<1>2. s \in [1..Len(s) -> T]
  BY <1>1
<1> QED BY <1>1, <1>2, SeqDef

LEMMA OldGroupsGrow ==
  ASSUME NEW m \in Nat, NEW n \in Nat, m <= n
  PROVE  OldGroups(m) \subseteq OldGroups(n)
<1>1. OldKeys(m) \subseteq OldKeys(n)
  BY DEF OldKeys, MasterKey, Part
<1> QED BY <1>1, SeqGrows DEF OldGroups

\* A key that is added to a group holds nothing yet.
LEMMA FreshIsOld ==
  ASSUME NEW ty \in KeyType, NEW n
  PROVE  Fresh(ty) \in OldKeys(n)
BY DEF Fresh, OldKeys, MasterKey

LEMMA CallerOldGroups ==
  ASSUME TypeInv, groups \in OldGroups(splits), Caller
  PROVE  groups' \in OldGroups(splits')
<1>0. /\ splits \in Nat /\ groups \in Seq(Seq(OldKeys(splits)))
      /\ Len(groups) \in Nat /\ DOMAIN groups = 1..Len(groups)
  BY LenProperties DEF TypeInv, TypeOK, OldGroups
<1>1. ASSUME NEW n \in 0..MaxKeys, NEW ty \in KeyType, NEW t \in 0..MaxGroups, AddGroup(n, ty, t)
      PROVE  groups' \in OldGroups(splits')
  <2> DEFINE new == [i \in 1..n |-> Fresh(ty)]
  <2>1. new \in Seq(OldKeys(splits))
    BY KeyWrapAssumption, FreshIsOld, SeqDef
  <2>2. groups' = Append(groups, new) /\ splits' = splits
    BY <1>1 DEF AddGroup, CallerEdits
  <2> HIDE DEF new
  <2> QED BY <1>0, <2>1, <2>2, AppendProperties DEF OldGroups
<1>2. ASSUME NEW i \in DOMAIN groups, NEW t \in 0..MaxGroups, DeleteGroup(i, t)
      PROVE  groups' \in OldGroups(splits')
  <2>1. Without(groups, i) \in Seq(Seq(OldKeys(splits)))
    BY <1>0, WithoutType
  <2> QED BY <1>2, <2>1 DEF DeleteGroup, CallerEdits, OldGroups
<1>3. ASSUME NEW i \in DOMAIN groups, NEW ty \in KeyType, AddKey(i, ty)
      PROVE  groups' \in OldGroups(splits')
  <2> DEFINE new == Append(groups[i], Fresh(ty))
  <2>1. new \in Seq(OldKeys(splits))
    BY <1>0, FreshIsOld, AppendProperties, ElementOfSeq
  <2>2. groups' = [groups EXCEPT ![i] = new] /\ splits' = splits
    BY <1>3 DEF AddKey, CallerEdits
  <2> HIDE DEF new
  <2> QED BY <1>0, <2>1, <2>2, ExceptSeq DEF OldGroups
<1>4. ASSUME NEW i \in DOMAIN groups, NEW j \in DOMAIN groups[i], RemoveKey(i, j)
      PROVE  groups' \in OldGroups(splits')
  <2> DEFINE new == Without(groups[i], j)
  <2>1. groups[i] \in Seq(OldKeys(splits)) /\ DOMAIN groups[i] = 1..Len(groups[i])
    BY <1>0, ElementOfSeq, LenProperties
  <2>2. new \in Seq(OldKeys(splits))
    BY <2>1, WithoutType
  <2>3. groups' = [groups EXCEPT ![i] = new] /\ splits' = splits
    BY <1>4 DEF RemoveKey, CallerEdits
  <2> HIDE DEF new
  <2> QED BY <1>0, <2>2, <2>3, ExceptSeq DEF OldGroups
<1>5. ASSUME NEW key \in DataKey, NEW n \in 1..MaxSvcs, UpdateStart(key, n)
      PROVE  groups' \in OldGroups(splits')
  <2>1. groups' = groups /\ (splits' = splits \/ splits' = splits + 1)
    BY <1>5 DEF UpdateStart
  <2>2. OldGroups(splits) \subseteq OldGroups(splits')
    BY <1>0, <2>1, OldGroupsGrow
  <2> QED BY <2>1, <2>2
<1>6. CASE groups' = groups /\ splits' = splits
  BY <1>6
<1> QED
  BY <1>1, <1>2, <1>3, <1>4, <1>5, <1>6
     DEF Caller, Reload, UpdateRejected, GetRejected, GetCached, GetStart, meta

LEMMA UpdateOldGroups ==
  ASSUME TypeInv, groups \in OldGroups(splits), UpdateStep
  PROVE  groups' \in OldGroups(splits')
<1>1. CASE UpdateEncrypted
  <2> DEFINE part == PartFor(loc.newKey, splits, loc.g)
             key == [type |-> groups[loc.g][loc.k].type, enc |-> part]
             group == [groups[loc.g] EXCEPT ![loc.k] = key]
  <2>0. /\ pc = "upd.svc" /\ splits' = splits
        /\ groups' = SetEncryptedDataKey(groups, loc.g, loc.k, part)
    BY <1>1 DEF UpdateEncrypted
  <2>1. /\ groups \in Seq(Group) /\ threshold \in Nat /\ splits \in Nat
        /\ loc.newKey \in DataKey /\ loc.g \in Nat /\ loc.g \in 1..Len(groups)
        /\ loc.k \in 1..Len(groups[loc.g])
    BY <2>0 DEF TypeInv, TypeOK, InRange, Updating, Group
  <2>2. part \in Part
    BY <2>1, PartForType
  <2>3. part.split <= splits
    BY <2>1 DEF PartFor
  <2>4. /\ groups[loc.g] \in Seq(OldKeys(splits))
        /\ groups[loc.g][loc.k] \in OldKeys(splits)
    BY <2>1, ElementOfSeq DEF OldGroups
  <2> HIDE DEF part
  <2>5. key \in OldKeys(splits)
    BY <2>2, <2>3, <2>4 DEF OldKeys, MasterKey
  <2> HIDE DEF key
  <2>6. group \in Seq(OldKeys(splits))
    BY <2>1, <2>4, <2>5, ExceptSeq
  <2>7. groups' = [groups EXCEPT ![loc.g] = group]
    BY <2>0 DEF SetEncryptedDataKey, key
  <2> HIDE DEF group
  <2> QED BY <2>0, <2>1, <2>6, <2>7, ExceptSeq DEF OldGroups
<1>2. CASE groups' = groups /\ splits' = splits
  BY <1>2
<1> QED
  BY <1>1, <1>2
     DEF UpdateStep, UpdateEnterGroup, UpdateEmptyGroup, UpdateCancelled, UpdateEnterKey,
         UpdateEncryptFailed, UpdateLeaveGroup, UpdateDone, meta

\* A recovery, and a cancellation, change no metadata and no data key to be sealed.
LEMMA GetKeepsGroups ==
  ASSUME GetStep
  PROVE  UNCHANGED <<groups, threshold, splits>>
BY DEF GetStep, GetCancelled, GetEnterGroup, GetEnterKey, GetLeaveGroup, GetDecrypted,
       GetDecryptFailed, GetKeyFailed, GetDone, meta

\* The key of an update is known as long as the update runs.
LEMMA NewKeyWhileUpdating ==
  ASSUME TypeInv, ~Updating => loc.newKey = NoKey, [Next]_vars
  PROVE  ~Updating' => loc'.newKey = NoKey
<1>0. loc \in Locals
  BY DEF TypeInv, TypeOK
<1>a. NoLocals.newKey = NoKey
  BY DEF NoLocals
<1>b. CASE UNCHANGED <<pc, loc>>
  BY <1>b DEF Updating
<1>1. CASE Caller
  <2>1. ASSUME NEW n \in 0..MaxSvcs, GetStart(n)
        PROVE  loc'.newKey = NoKey
    BY <2>1 DEF GetStart, NoLocals
  <2>2. CASE loc' = NoLocals
    BY <1>a, <2>2
  <2>3. CASE pc' = "upd.group"
    BY <2>3 DEF Updating
  <2> QED
    BY <1>1, <1>b, <2>1, <2>2, <2>3
       DEF Caller, AddGroup, DeleteGroup, AddKey, RemoveKey, CallerEdits, Reload, UpdateRejected,
           UpdateReturns, UpdateStart, GetRejected, GetCached, GetReturns
<1>2. CASE UpdateStep
  BY <1>2
     DEF UpdateStep, UpdateEnterGroup, UpdateEmptyGroup, UpdateCancelled, UpdateEnterKey,
         UpdateEncrypted, UpdateEncryptFailed, UpdateLeaveGroup, UpdateDone, UpdateReturns,
         NoLocals, Updating
<1>3. CASE GetStep
  <2>1. \/ loc' = NoLocals
        \/ loc' = loc
        \/ \E j \in 1..MaxKeys : loc' = [loc EXCEPT !.k = j, !.s = 1]
        \/ loc' = [loc EXCEPT !.g = loc.g + 1]
        \/ \E ps : loc' = [loc EXCEPT !.parts = ps, !.g = loc.g + 1]
        \/ loc' = [loc EXCEPT !.s = loc.s + 1]
        \/ \E f : loc' = [loc EXCEPT !.failed = f]
    BY <1>3
       DEF GetStep, GetCancelled, GetEnterGroup, GetEnterKey, GetLeaveGroup, GetDecrypted,
           GetDecryptFailed, GetKeyFailed, GetDone, GetReturns
  <2>2. loc'.newKey \in {loc.newKey, NoKey}
    BY <1>0, <1>a, <2>1 DEF Locals
  <2>3. ~Updating
    BY <1>3
       DEF GetStep, GetCancelled, GetEnterGroup, GetEnterKey, GetLeaveGroup, GetDecrypted,
           GetDecryptFailed, GetKeyFailed, GetDone, Updating
  <2> QED BY <2>2, <2>3
<1> QED
  BY <1>b, <1>1, <1>2, <1>3 DEF Next, Cancel, vars

\* Nothing is split before there is a threshold.
LEMMA ThresholdBeforeSplit ==
  ASSUME TypeInv, threshold = 0 => splits = 0, [Next]_vars
  PROVE  threshold' = 0 => splits' = 0
<1>0. threshold \in Nat /\ Len(groups) \in Nat
  BY LenProperties DEF TypeInv, TypeOK
<1>1. CASE Caller
  <2>1. ASSUME NEW gs, NEW t \in 0..MaxGroups, CallerEdits(gs, t)
        PROVE  threshold' = 0 => splits' = 0
    BY <2>1 DEF CallerEdits
  <2>2. ASSUME NEW key \in DataKey, NEW n \in 0..MaxSvcs, NEW c \in BOOLEAN, UpdateRejected(key, n, c)
        PROVE  threshold' = 0 => splits' = 0
    BY <1>0, <2>2 DEF UpdateRejected, Quorum
  <2>3. ASSUME NEW key \in DataKey, NEW n \in 1..MaxSvcs, UpdateStart(key, n)
        PROVE  threshold' = 0 => splits' = 0
    <3>1. Len(groups) > 1 => Quorum >= 2
      BY <1>0, <2>3 DEF UpdateStart, SplitFails, Quorum
    <3> QED BY <1>0, <2>3, <3>1 DEF UpdateStart, Quorum
  <2>4. CASE UNCHANGED <<threshold, splits>>
    BY <2>4
  <2>5. 0 \in 0..MaxGroups
    BY KeyWrapAssumption
  <2> QED
    BY <1>1, <2>1, <2>2, <2>3, <2>4, <2>5
       DEF Caller, AddGroup, DeleteGroup, AddKey, RemoveKey, Reload, GetRejected, GetCached,
           GetStart, meta
<1>2. CASE UNCHANGED <<threshold, splits>>
  BY <1>2
<1> QED
  BY <1>1, <1>2, GetKeepsGroups
     DEF Next, Cancel, UpdateStep, UpdateEnterGroup, UpdateEmptyGroup, UpdateCancelled,
         UpdateEnterKey, UpdateEncrypted, UpdateEncryptFailed, UpdateLeaveGroup, UpdateDone,
         meta, vars

LEMMA NextCustodyInv == CustodyInv /\ [Next]_vars => CustodyInv'
<1> SUFFICES ASSUME CustodyInv, [Next]_vars PROVE CustodyInv'
  OBVIOUS
<1>0. TypeInv
  BY DEF CustodyInv, SealInv
<1>1. SealInv' /\ OpenInv'
  BY NextSealInv, NextOpenInv DEF CustodyInv
<1>2. groups' \in OldGroups(splits')
  <2>1. CASE UNCHANGED <<groups, splits>>
    BY <2>1 DEF CustodyInv
  <2> QED
    BY <1>0, <2>1, CallerOldGroups, UpdateOldGroups, GetKeepsGroups
       DEF CustodyInv, Next, Cancel, vars, meta
<1> QED
  BY <1>0, <1>1, <1>2, NewKeyWhileUpdating, ThresholdBeforeSplit DEF CustodyInv

LEMMA CustodyInvariant == Spec => []CustodyInv
<1>1. Init => CustodyInv
  <2> SUFFICES ASSUME Init PROVE CustodyInv
    OBVIOUS
  <2>1. <<>> \in OldGroups(splits)
    BY EmptySeq DEF OldGroups
  <2> QED
    BY <2>1, InitTypeInv, NoRetFields
       DEF Init, CustodyInv, SealInv, OpenInv, Silent, UpdateProgress, UpdateSeals,
           PartsFromGroups, RecoversTheSealedKey, QuorumDecides, Getting, Updating, NoLocals
<1>2. CustodyInv /\ [Next]_vars => CustodyInv'
  BY NextCustodyInv
<1> QED
  BY <1>1, <1>2, PTL DEF Spec

-----------------------------------------------------------------------------
(***************************************************************************)
(* Every step of KeyWrap is a step of KeyCustody, or a stutter             *)
(***************************************************************************)
LEMMA CustodyInit == Init => Custody!Init
<1> SUFFICES ASSUME Init PROVE Custody!Init
  OBVIOUS
<1>1. TypeInv /\ SealedKeyHeld
  BY InitTypeInv, SealedKeyIsHeld
<1>2. \A key : ~Sealed(key)
  BY DEF Init, Sealed, SealedBy
<1>3. SealedKey = NoKey
  BY <1>1, <1>2 DEF SealedKeyHeld
<1> QED
  BY <1>3 DEF Init, NoLocals, NoRet, Custody!Init, Custody!None

\* What a caller does to the metadata.
LEMMA EditsRearrange ==
  ASSUME CustodyInv, CustodyInv', pc = "idle", ret' = NoRet, loc' = loc,
         dataKey' \in {dataKey, NoKey}
  PROVE  Custody!Rearrange
<1>1. SealedKey' \in DataKey \cup {NoKey}
  BY SealedKeyIsHeldNext DEF CustodyInv, SealInv, SealedKeyHeld
<1>2. loc.newKey = NoKey
  BY DEF CustodyInv, Updating
<1> QED
  BY <1>1, <1>2 DEF Custody!Rearrange, Custody!None, NoRet

LEMMA CallerImplements ==
  ASSUME CustodyInv, CustodyInv', Caller
  PROVE  Custody!Next
<1>0. /\ TypeInv /\ TypeInv' /\ pc = "idle" /\ loc.newKey = NoKey
      /\ Len(groups) \in Nat /\ splits \in Nat
  BY LenProperties
     DEF Caller, AddGroup, DeleteGroup, AddKey, RemoveKey, CallerEdits, Reload, UpdateRejected,
         UpdateStart, GetRejected, GetCached, GetStart, CustodyInv, SealInv, Updating, TypeInv,
         TypeOK
<1>a. NoLocals.newKey = NoKey
  BY DEF NoLocals
<1>1. ASSUME ret' = NoRet, loc' = loc, dataKey' \in {dataKey, NoKey}
      PROVE  Custody!Next
  BY <1>0, <1>1, EditsRearrange DEF Custody!Next
<1>2. ASSUME NEW key \in DataKey, NEW n \in 0..MaxSvcs, NEW c \in BOOLEAN, UpdateRejected(key, n, c)
      PROVE  Custody!Next
  <2>1. SealedKey' = SealedKey
    <3>1. CASE UNCHANGED threshold
      BY <1>0, <1>2, <3>1, GroupsKeepCustody DEF UpdateRejected
    <3>2. CASE threshold' = Quorum
      BY <1>0, <1>2, <3>2, SplitKeepsCustody DEF UpdateRejected
    <3> QED BY <1>2, <3>1, <3>2 DEF UpdateRejected
  <2>2. Custody!Reject(key)
    BY <1>0, <1>a, <1>2, <2>1
       DEF UpdateRejected, UpdateReturns, NoRet, Custody!Reject, Custody!Answer
  <2> QED BY <2>2 DEF Custody!Next
<1>3. ASSUME NEW key \in DataKey, NEW n \in 1..MaxSvcs, UpdateStart(key, n)
      PROVE  Custody!Next
  <2>1. SealedKey' = SealedKey
    BY <1>0, <1>3, SplitKeepsCustody DEF UpdateStart
  <2>2. loc'.newKey = key
    BY <1>3 DEF UpdateStart, NoLocals
  <2>3. Custody!BeginSeal(key)
    BY <1>0, <1>3, <2>1, <2>2 DEF UpdateStart, NoRet, Custody!BeginSeal, Custody!None
  <2> QED BY <2>3 DEF Custody!Next
<1>4. CASE GetRejected
  <2>1. SealedKey' = SealedKey
    BY <1>0, <1>4, GroupsKeepCustody DEF GetRejected, meta
  <2>2. Custody!FailOpen
    BY <1>0, <1>a, <1>4, <2>1
       DEF GetRejected, GetReturns, meta, Custody!FailOpen, Custody!Answer
  <2> QED BY <2>2 DEF Custody!Next
<1>5. CASE GetCached
  <2>1. SealedKey' = SealedKey
    BY <1>0, <1>5, GroupsKeepCustody DEF GetCached, meta
  <2>2. Custody!OpenFromMemory
    BY <1>0, <1>a, <1>5, <2>1
       DEF GetCached, GetReturns, meta, Custody!OpenFromMemory, Custody!Answer
  <2> QED BY <2>2 DEF Custody!Next
<1>6. ASSUME NEW n \in 0..MaxSvcs, GetStart(n)
      PROVE  Custody!Next
  <2>1. SealedKey' = SealedKey
    BY <1>0, <1>6, GroupsKeepCustody DEF GetStart, meta
  <2>2. loc'.newKey = NoKey
    BY <1>6 DEF GetStart, NoLocals
  <2>3. Custody!Request
    BY <1>0, <1>6, <2>1, <2>2
       DEF GetStart, meta, NoRet, Custody!Request, Custody!None
  <2> QED BY <2>3 DEF Custody!Next
<1> QED
  BY <1>1, <1>2, <1>3, <1>4, <1>5, <1>6
     DEF Caller, AddGroup, DeleteGroup, AddKey, RemoveKey, CallerEdits, Reload

\* A key of one group takes its part of the new data key: no other data key is whole now.
LEMMA EncryptedSealsSome ==
  ASSUME CustodyInv, CustodyInv', UpdateEncrypted
  PROVE  Custody!SealSome
<1> DEFINE part == PartFor(loc.newKey, splits, loc.g)
<1>1. /\ pc = "upd.svc" /\ groups' = SetEncryptedDataKey(groups, loc.g, loc.k, part)
      /\ UNCHANGED <<threshold, dataKey, splits, ret>>
      /\ loc' = [loc EXCEPT !.k = loc.k + 1]
  BY DEF UpdateEncrypted
<1>2. /\ TypeInv /\ TypeInv' /\ groups \in Seq(Group) /\ threshold \in Nat /\ splits \in Nat
      /\ loc \in Locals /\ loc.newKey \in DataKey /\ loc.g \in Nat
      /\ loc.g \in 1..Len(groups) /\ loc.k \in 1..Len(groups[loc.g])
  BY <1>1 DEF CustodyInv, SealInv, TypeInv, TypeOK, InRange, Updating, Group
<1>3. part \in Part /\ part.key = loc.newKey
  BY <1>2, PartForType DEF PartFor
<1> HIDE DEF part
<1>4. /\ Len(groups') = Len(groups)
      /\ Len(groups'[loc.g]) = Len(groups[loc.g])
      /\ groups'[loc.g][loc.k].enc = part
  BY <1>1, <1>2, <1>3, SetEncryptedDataKeyChanges
<1>5. ASSUME NEW key \in DataKey, Sealed(key)'
      PROVE  key = loc.newKey
  <2>1. PICK split : SealedBy(key, split)'
    BY <1>5 DEF Sealed
  <2>2. loc'.g = loc.g
    BY <1>1, <1>2 DEF Locals
  <2>3. groups'[loc.g][loc.k].enc = PartFor(key, split, loc.g)'
    BY <1>2, <1>4, <2>1, <2>2 DEF SealedBy
  <2>4. PartFor(key, split, loc.g)'.key = key
    BY DEF PartFor
  <2> QED BY <1>3, <1>4, <2>3, <2>4
<1>6. SealedKey' \in {loc.newKey, NoKey}
  BY <1>2, <1>5, SealedKeyIsHeldNext DEF SealedKeyHeld
<1>7. loc'.newKey = loc.newKey /\ loc.newKey # NoKey
  BY <1>1, <1>2, KeyWrapAssumption DEF Locals
<1> QED
  BY <1>1, <1>6, <1>7 DEF Custody!SealSome

LEMMA UpdateImplements ==
  ASSUME CustodyInv, CustodyInv', UpdateStep
  PROVE  Custody!Next \/ UNCHANGED Custody!vars
<1>0. /\ TypeInv /\ TypeInv' /\ loc \in Locals /\ loc.newKey \in DataKey /\ loc.newKey # NoKey
  BY KeyWrapAssumption
     DEF UpdateStep, UpdateEnterGroup, UpdateEmptyGroup, UpdateCancelled, UpdateEnterKey,
         UpdateEncrypted, UpdateEncryptFailed, UpdateLeaveGroup, UpdateDone, CustodyInv, SealInv,
         TypeInv, TypeOK, InRange, Updating
<1>a. NoLocals.newKey = NoKey
  BY DEF NoLocals
<1>1. CASE UpdateEncrypted
  BY <1>1, EncryptedSealsSome DEF Custody!Next
<1>2. ASSUME UpdateReturns(loc.newKey, FALSE), UNCHANGED <<groups, threshold, splits>>,
             dataKey' \in {dataKey, loc.newKey}
      PROVE  Custody!Next
  <2>1. SealedKey' = SealedKey
    BY <1>0, <1>2, GroupsKeepCustody
  <2>2. Custody!FailSeal
    BY <1>0, <1>a, <1>2, <2>1 DEF UpdateReturns, NoRet, Custody!FailSeal, Custody!Answer
  <2> QED BY <2>2 DEF Custody!Next
<1>3. CASE UpdateEmptyGroup \/ UpdateCancelled
  BY <1>2, <1>3 DEF UpdateEmptyGroup, UpdateCancelled, meta
<1>4. CASE UpdateDone
  <2>1. CASE loc.errs
    BY <1>2, <1>4, <2>1 DEF UpdateDone
  <2>2. CASE ~loc.errs
    <3>1. /\ ret' = [NoRet EXCEPT !.call = "update", !.ok = TRUE, !.key = loc.newKey]
          /\ loc' = NoLocals /\ dataKey' = loc.newKey /\ UNCHANGED <<groups, threshold, splits>>
      BY <1>0, <1>4, <2>2 DEF UpdateDone, UpdateReturns, Locals
    <3>2. ret'.call = "update" /\ ret'.ok = TRUE /\ ret'.key = loc.newKey
      BY <3>1 DEF NoRet
    <3>3. Sealed(ret.key)'
      BY <1>4, <3>2, UpdateDoneSeals DEF CustodyInv, UpdateSeals
    <3>4. SealedKey' = loc.newKey
      BY <1>0, <3>2, <3>3, SealedKeyIsHeldNext DEF SealedKeyHeld
    <3>5. SealedKey' = SealedKey
      BY <1>0, <3>1, GroupsKeepCustody
    <3>6. Custody!EndSeal
      BY <1>0, <1>a, <3>1, <3>2, <3>4, <3>5 DEF Custody!EndSeal, Custody!Answer
    <3> QED BY <3>6 DEF Custody!Next
  <2> QED BY <1>0, <2>1, <2>2
<1>5. ASSUME UNCHANGED <<meta, splits, ret>>, loc'.newKey = loc.newKey
      PROVE  UNCHANGED Custody!vars
  <2>1. SealedKey' = SealedKey
    BY <1>0, <1>5, GroupsKeepCustody DEF meta
  <2> QED BY <1>5, <2>1 DEF Custody!vars, meta
<1>6. CASE UpdateEnterGroup
  <2>1. loc'.newKey = loc.newKey
    BY <1>0, <1>6 DEF UpdateEnterGroup, Locals
  <2> QED BY <1>5, <1>6, <2>1 DEF UpdateEnterGroup
<1>7. CASE UpdateEnterKey
  <2>1. loc'.newKey = loc.newKey
    BY <1>0, <1>7 DEF UpdateEnterKey, Locals
  <2> QED BY <1>5, <1>7, <2>1 DEF UpdateEnterKey
<1>8. CASE UpdateEncryptFailed
  <2>1. loc'.newKey = loc.newKey
    BY <1>0, <1>8 DEF UpdateEncryptFailed, Locals
  <2> QED BY <1>5, <1>8, <2>1 DEF UpdateEncryptFailed
<1>9. CASE UpdateLeaveGroup
  <2>1. loc'.newKey = loc.newKey
    BY <1>0, <1>9 DEF UpdateLeaveGroup, Locals
  <2> QED BY <1>5, <1>9, <2>1 DEF UpdateLeaveGroup
<1> QED
  BY <1>1, <1>3, <1>4, <1>6, <1>7, <1>8, <1>9 DEF UpdateStep

\* What GetDataKey puts together is what is in custody, or it is an error.
LEMMA DoneOpens ==
  ASSUME CustodyInv, CustodyInv', GetDone
  PROVE  Custody!Next
<1>0. /\ TypeInv /\ TypeInv' /\ Getting /\ loc.newKey = NoKey /\ SealedKeyHeld
      /\ loc' = NoLocals /\ NoLocals.newKey = NoKey
  BY SealedKeyIsHeld
     DEF GetDone, GetReturns, CustodyInv, SealInv, Getting, Updating, NoLocals
<1>1. /\ ret' = [call |-> "get", ok |-> Recovered # NoKey, key |-> Recovered, why |-> "parts",
                 answered |-> Answered(loc.parts)]
      /\ UNCHANGED <<groups, threshold, splits>>
      /\ dataKey' = IF Recovered = NoKey THEN dataKey ELSE Recovered
  BY DEF GetDone, GetReturns
<1>2. SealedKey' = SealedKey
  BY <1>0, <1>1, GroupsKeepCustody
<1>3. CASE Recovered = NoKey
  <2>1. Custody!FailOpen
    BY <1>0, <1>1, <1>2, <1>3 DEF Custody!FailOpen, Custody!Answer
  <2> QED BY <2>1 DEF Custody!Next
<1>4. CASE Recovered # NoKey
  <2>1. Recovered \in DataKey \cup {Garbage}
    BY <1>0, <1>4, RecoveredType
  <2>2. \A key \in DataKey : Sealed(key)' => Recovered = key
    BY <1>1, <1>4 DEF CustodyInv, OpenInv, RecoversTheSealedKey
  <2>3. SealedKey # NoKey => Recovered = SealedKey
    <3>1. SealedKeyHeld'
      BY <1>0, SealedKeyIsHeldNext
    <3> QED BY <1>2, <2>2, <3>1 DEF SealedKeyHeld
  <2>4. Custody!Open
    BY <1>0, <1>1, <1>2, <1>4, <2>1, <2>3 DEF Custody!Open, Custody!Answer
  <2> QED BY <2>4 DEF Custody!Next
<1> QED BY <1>3, <1>4

LEMMA GetImplements ==
  ASSUME CustodyInv, CustodyInv', GetStep
  PROVE  Custody!Next \/ UNCHANGED Custody!vars
<1>0. TypeInv /\ TypeInv' /\ ~Updating /\ loc.newKey = NoKey
  BY DEF GetStep, GetCancelled, GetEnterGroup, GetEnterKey, GetLeaveGroup, GetDecrypted,
         GetDecryptFailed, GetKeyFailed, GetDone, CustodyInv, SealInv, Updating
<1>1. SealedKey' = SealedKey
  BY <1>0, GetKeepsGroups, GroupsKeepCustody
<1>2. CASE GetDone
  BY <1>2, DoneOpens
<1>3. CASE GetCancelled
  <2>1. loc'.newKey = NoKey
    BY <1>3 DEF GetCancelled, GetReturns, NoLocals
  <2>2. Custody!FailOpen
    BY <1>0, <1>1, <1>3, <2>1
       DEF GetCancelled, GetReturns, meta, Custody!FailOpen, Custody!Answer
  <2> QED BY <2>2 DEF Custody!Next
<1>4. CASE UNCHANGED <<dataKey, ret>> /\ ~Updating'
  BY <1>0, <1>1, <1>4 DEF CustodyInv, Custody!vars
<1> QED
  BY <1>2, <1>3, <1>4
     DEF GetStep, GetEnterGroup, GetEnterKey, GetLeaveGroup, GetDecrypted, GetDecryptFailed,
         GetKeyFailed, meta, Updating

LEMMA CustodyStep == CustodyInv /\ CustodyInv' /\ [Next]_vars => [Custody!Next]_Custody!vars
<1> SUFFICES ASSUME CustodyInv, CustodyInv', [Next]_vars
             PROVE  Custody!Next \/ UNCHANGED Custody!vars
  OBVIOUS
<1>1. CASE UNCHANGED <<meta, splits, loc, ret>>
  <2>1. SealedKey' = SealedKey
    BY <1>1, GroupsKeepCustody DEF meta, CustodyInv, SealInv
  <2> QED BY <1>1, <2>1 DEF Custody!vars, meta
<1> QED
  BY <1>1, CallerImplements, UpdateImplements, GetImplements DEF Next, Cancel, vars, meta

\* Key groups, Shamir shares and key services keep one data key together: every behaviour of
\* UpdateMasterKeys, GetDataKey and the edits between them, with failing services and
\* cancelled calls, is one of KeyCustody.
THEOREM CustodyImplemented == Spec => ImplementsCustody
<1>1. Init => Custody!Init
  BY CustodyInit
<1>2. CustodyInv /\ CustodyInv' /\ [Next]_vars => [Custody!Next]_Custody!vars
  BY CustodyStep
<1> QED
  BY <1>1, <1>2, CustodyInvariant, PTL DEF Spec, ImplementsCustody, Custody!Spec
=============================================================================
