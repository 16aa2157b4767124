---------------------------- MODULE KeyFileProofs ----------------------------
(***************************************************************************)
(* Proofs about KeyFile for every number of key groups, keys, services and *)
(* commands: what a command leaves on disk, whatever fails on the way and  *)
(* wherever the process is killed.                                         *)
(*                                                                         *)
(* The steps of UpdateMasterKeys and GetDataKey are those of KeyWrap, so   *)
(* that its invariants SealInv and OpenInv hold here too.  FileInv adds    *)
(* where a command is, which data key it holds there, and what its key     *)
(* groups in memory and those on disk seal.                                *)
(***************************************************************************)
EXTENDS KeyFile, KeyWrapProofs

-----------------------------------------------------------------------------
(***************************************************************************)
(* A group is read back with the same keys, in another order               *)
(***************************************************************************)
LEMMA StoredPlaceIsNatural ==
  ASSUME NEW ty \in KeyType
  PROVE  StoredPlace(ty) \in Nat
<1>1. \E i \in DOMAIN StoredOrder : StoredOrder[i] = ty
  BY StoredOrderAssumption
<1>2. StoredPlace(ty) \in DOMAIN StoredOrder
  BY <1>1 DEF StoredPlace
<1>3. DOMAIN StoredOrder = 1..Len(StoredOrder) /\ Len(StoredOrder) \in Nat
  BY StoredOrderAssumption, LenProperties
<1> QED BY <1>2, <1>3

\* The keys of a group have a new order, and it is a strict one.
LEMMA StoredBeforeIsStrict ==
  ASSUME NEW group \in Group,
         NEW i \in 1..Len(group), NEW j \in 1..Len(group), NEW m \in 1..Len(group)
  PROVE  /\ i # j => StoredBefore(group, i, j) \/ StoredBefore(group, j, i)
         /\ StoredBefore(group, i, j) => i # j /\ ~StoredBefore(group, j, i)
         /\ StoredBefore(group, i, j) /\ StoredBefore(group, j, m) => StoredBefore(group, i, m)
<1>1. \A k \in 1..Len(group) : StoredPlace(group[k].type) \in Nat
  <2> TAKE k \in 1..Len(group)
  <2>1. group[k] \in MasterKey
    BY ElementOfSeq DEF Group
  <2>2. group[k].type \in KeyType
    BY <2>1 DEF MasterKey
  <2> QED BY <2>2, StoredPlaceIsNatural
<1>2. i \in Nat /\ j \in Nat /\ m \in Nat
  BY LenProperties DEF Group
<1> QED BY <1>1, <1>2 DEF StoredBefore

\* Every place of the new order is taken by a key: two keys have two places, and there are
\* no more places than keys.
LEMMA EveryPlaceIsTaken ==
  ASSUME NEW group \in Group, NEW n \in 1..Len(group)
  PROVE  \E i \in 1..Len(group) : NewPlace(group, i) = n
<1> DEFINE L == Len(group)
           Upto(i) == {j \in 1..L : j = i \/ StoredBefore(group, j, i)}
           f == [i \in 1..L |-> NewPlace(group, i)]
<1>1. L \in Nat /\ DOMAIN group = 1..L
  BY LenProperties DEF Group
<1>2. IsFiniteSet(1..L) /\ Cardinality(1..L) = L
  BY <1>1, FS_Interval
<1>3. \A i \in 1..L : NewPlace(group, i) = Cardinality(Upto(i))
  BY <1>1 DEF NewPlace
<1>4. \A i \in 1..L : Upto(i) \in SUBSET (1..L) /\ i \in Upto(i)
  OBVIOUS
<1>5. \A i \in 1..L : IsFiniteSet(Upto(i)) /\ Cardinality(Upto(i)) \in Nat
                      /\ Cardinality(Upto(i)) <= L
  BY <1>2, <1>4, FS_Subset, FS_CardinalityType
<1>6. \A i \in 1..L : Upto(i) # {}
  BY <1>4
<1>7. \A i \in 1..L : NewPlace(group, i) \in 1..L
  <2> TAKE i \in 1..L
  <2> HIDE DEF Upto
  <2>1. Cardinality(Upto(i)) # 0
    BY <1>5, <1>6, FS_EmptySet
  <2> QED BY <1>1, <1>3, <1>5, <2>1
<1>8. ASSUME NEW i \in 1..L, NEW j \in 1..L, StoredBefore(group, i, j)
      PROVE  Cardinality(Upto(i)) < Cardinality(Upto(j))
  <2>1. Upto(i) \subseteq Upto(j)
    BY <1>8, StoredBeforeIsStrict
  <2>2. j \in Upto(j) /\ j \notin Upto(i)
    BY <1>8, StoredBeforeIsStrict
  <2> HIDE DEF Upto
  <2>3. Cardinality(Upto(i)) <= Cardinality(Upto(j)) /\ Cardinality(Upto(i)) # Cardinality(Upto(j))
    BY <1>5, <2>1, <2>2, FS_Subset
  <2> QED BY <1>5, <2>3
<1> HIDE DEF Upto
<1>9. \A i \in 1..L, j \in 1..L : i # j => NewPlace(group, i) # NewPlace(group, j)
  <2> SUFFICES ASSUME NEW i \in 1..L, NEW j \in 1..L, i # j
               PROVE  Cardinality(Upto(i)) # Cardinality(Upto(j))
    BY <1>3
  <2>1. StoredBefore(group, i, j) \/ StoredBefore(group, j, i)
    BY StoredBeforeIsStrict
  <2> QED BY <1>5, <1>8, <2>1
<1>10. SUFFICES ASSUME \A i \in 1..L : NewPlace(group, i) # n PROVE FALSE
  OBVIOUS
<1>11. f \in [1..L -> (1..L) \ {n}]
  BY <1>7, <1>10
<1>12. IsFiniteSet((1..L) \ {n}) /\ Cardinality((1..L) \ {n}) = L - 1
  BY <1>2, FS_RemoveElement
<1>13. Cardinality((1..L) \ {n}) < Cardinality(1..L)
  BY <1>1, <1>2, <1>12
<1>14. \E x, y \in 1..L : x # y /\ f[x] = f[y]
  <2> HIDE DEF f
  <2> QED BY <1>2, <1>11, <1>12, <1>13, FS_PigeonHole
<1> QED BY <1>9, <1>14

LEMMA StoredGroupKeys ==
  ASSUME NEW group \in Group
  PROVE  /\ StoredGroup(group) \in Group
         /\ Len(StoredGroup(group)) = Len(group)
         /\ \A n \in 1..Len(group) : \E i \in 1..Len(group) : StoredGroup(group)[n] = group[i]
<1> DEFINE s == StoredGroup(group)
<1>1. Len(group) \in Nat /\ DOMAIN group = 1..Len(group)
  BY LenProperties DEF Group
<1>2. \A n \in 1..Len(group) : \E i \in 1..Len(group) : s[n] = group[i]
  <2> TAKE n \in 1..Len(group)
  <2> DEFINE i == CHOOSE i \in 1..Len(group) : NewPlace(group, i) = n
  <2>1. i \in 1..Len(group)
    BY EveryPlaceIsTaken
  <2>2. s[n] = group[i]
    BY <1>1 DEF StoredGroup
  <2> HIDE DEF i
  <2> QED BY <2>1, <2>2
<1>3. s \in [1..Len(group) -> MasterKey]
  <2>1. s = [n \in 1..Len(group) |-> s[n]]
    BY <1>1 DEF StoredGroup
  <2>2. \A n \in 1..Len(group) : s[n] \in MasterKey
    BY <1>2, ElementOfSeq DEF Group
  <2> HIDE DEF s
  <2> QED BY <2>1, <2>2
<1> HIDE DEF s
<1>4. s \in Group /\ Len(s) = Len(group)
  BY <1>1, <1>3, SeqDef, LenProperties DEF Group
<1> QED BY <1>2, <1>4 DEF s

\* A file's key groups, once read back, hold what they hold on disk.
LoadedGroups == [i \in DOMAIN disk.groups |-> StoredGroup(disk.groups[i])]

LEMMA LoadedGroupsType ==
  ASSUME disk \in File
  PROVE  /\ LoadedGroups \in Seq(Group)
         /\ Len(LoadedGroups) = Len(disk.groups)
         /\ \A i \in 1..Len(disk.groups) : LoadedGroups[i] = StoredGroup(disk.groups[i])
<1>1. disk.groups \in Seq(Group)
  BY DEF File, Group
<1>2. Len(disk.groups) \in Nat /\ DOMAIN disk.groups = 1..Len(disk.groups)
  BY <1>1, LenProperties
<1>3. \A i \in 1..Len(disk.groups) : StoredGroup(disk.groups[i]) \in Group
  BY <1>1, ElementOfSeq, StoredGroupKeys
<1>4. LoadedGroups \in [1..Len(disk.groups) -> Group]
  BY <1>2, <1>3 DEF LoadedGroups
<1>5. LoadedGroups \in Seq(Group) /\ Len(LoadedGroups) = Len(disk.groups)
  BY <1>2, <1>4, SeqDef, LenProperties
<1> QED BY <1>2, <1>5 DEF LoadedGroups

LEMMA LoadedGroupsSealed ==
  ASSUME disk \in File, NEW key, OnDisk!Sealed(key),
         groups' = LoadedGroups, threshold' = disk.threshold, splits' = splits
  PROVE  Sealed(key)'
<1>1. PICK split \in 0..splits : OnDisk!SealedBy(key, split)
  BY DEF OnDisk!Sealed
<1>2. /\ disk.groups \in Seq(Group) /\ LoadedGroups \in Seq(Group)
      /\ Len(disk.groups) \in Nat /\ Len(LoadedGroups) = Len(disk.groups)
  BY LoadedGroupsType, LenProperties DEF File, Group
<1>3. LoadedGroups # <<>>
  <2>1. disk.groups # <<>>
    BY <1>1 DEF OnDisk!SealedBy
  <2>2. Len(disk.groups) # 0
    BY <1>2, <2>1, EmptySeq
  <2> QED BY <1>2, <2>2, EmptySeq
<1>4. ASSUME NEW i \in 1..Len(LoadedGroups)
      PROVE  /\ LoadedGroups[i] # <<>>
             /\ \A j \in 1..Len(LoadedGroups[i]) :
                  LoadedGroups[i][j].enc = OnDisk!PartFor(key, split, i)
  <2>1. i \in 1..Len(disk.groups) /\ disk.groups[i] \in Group
    BY <1>2, <1>4, ElementOfSeq
  <2>2. /\ disk.groups[i] # <<>>
        /\ \A j \in 1..Len(disk.groups[i]) : disk.groups[i][j].enc = OnDisk!PartFor(key, split, i)
    BY <1>1, <2>1 DEF OnDisk!SealedBy
  <2>3. /\ LoadedGroups[i] \in Group
        /\ Len(LoadedGroups[i]) = Len(disk.groups[i])
        /\ \A n \in 1..Len(disk.groups[i]) :
             \E m \in 1..Len(disk.groups[i]) : LoadedGroups[i][n] = disk.groups[i][m]
    <3>1. LoadedGroups[i] = StoredGroup(disk.groups[i])
      BY <2>1, LoadedGroupsType
    <3>2. /\ StoredGroup(disk.groups[i]) \in Group
          /\ Len(StoredGroup(disk.groups[i])) = Len(disk.groups[i])
          /\ \A n \in 1..Len(disk.groups[i]) :
               \E m \in 1..Len(disk.groups[i]) : StoredGroup(disk.groups[i])[n] = disk.groups[i][m]
      BY <2>1, StoredGroupKeys
    <3> QED BY <3>1, <3>2
  <2>4. LoadedGroups[i] # <<>>
    <3>1. Len(disk.groups[i]) # 0
      BY <2>1, <2>2, EmptySeq DEF Group
    <3> QED BY <2>3, <3>1, EmptySeq
  <2> QED BY <2>2, <2>3, <2>4
<1>5. \A i : OnDisk!PartFor(key, split, i) = PartFor(key, split, i)'
  BY <1>2 DEF OnDisk!PartFor, PartFor
<1>6. Len(disk.groups) > 1 => split > 0 /\ disk.threshold \in 2..Len(disk.groups)
  BY <1>1 DEF OnDisk!SealedBy
<1>7. SealedBy(key, split)'
  BY <1>2, <1>3, <1>4, <1>5, <1>6 DEF SealedBy
<1> QED BY <1>7 DEF Sealed

\* A command writes its key groups as they are in memory.
LEMMA WrittenGroupsSealed ==
  ASSUME NEW key, Sealed(key), splits' = splits,
         disk' = [whole |-> TRUE, groups |-> groups, threshold |-> threshold, body |-> key]
  PROVE  OnDisk!Sealed(key)'
<1>1. disk'.groups = groups /\ disk'.threshold = threshold
  OBVIOUS
<1> QED BY <1>1 DEF Sealed, SealedBy, PartFor, OnDisk!Sealed, OnDisk!SealedBy, OnDisk!PartFor

\* What a file seals it goes on sealing.
LEMMA FileStaysSealed ==
  ASSUME NEW key, OnDisk!Sealed(key), disk' = disk, splits \in Nat, splits' \in {splits, splits + 1}
  PROVE  OnDisk!Sealed(key)'
<1>1. \A split : split \in 0..splits => split \in 0..splits'
  OBVIOUS
<1> QED BY <1>1 DEF OnDisk!Sealed, OnDisk!SealedBy, OnDisk!PartFor

-----------------------------------------------------------------------------
(***************************************************************************)
(* The invariant                                                           *)
(***************************************************************************)
\* The commands that wrap the data key the file had.
Rewraps == {"updatekeys", "groups add", "groups delete"}

FileTypes ==
  /\ disk \in File /\ name \in Names \cup {"none"} /\ at \in At /\ svcs \in 0..MaxSvcs
  /\ body \in DataKey \cup {NoKey} /\ dropped \in BOOLEAN /\ cut \in BOOLEAN

\* The calls a command makes, and which commands come where.
Stages ==
  /\ Getting => at = "got"
  /\ Updating => at = "wrapped"
  /\ at = "shell" => body = NoKey
  /\ at \in {"shell", "get"} => ret = NoRet /\ dataKey = NoKey
  /\ at \in {"get", "got"} => name \in Names \ {"encrypt"}
  /\ at \in {"rotate", "remove"} => name = "rotate"
  /\ at \in {"wrap", "wrapped"} => name \in Rewraps \cup {"encrypt", "rotate"}

\* The values in memory, and the key groups until they are changed, are the file's.
ReadsTheFile ==
  /\ at \in {"get", "got", "rotate", "remove", "wrap", "wrapped"} =>
       IF name = "encrypt" THEN body = NoKey ELSE body = disk.body /\ body \in DataKey
  /\ at \in {"get", "got", "rotate"} => groups # <<>>
  /\ at \in {"get", "got"} /\ ~dropped => Sealed(body)

\* A command that opened the file holds the data key it recovered.
HoldsTheKey ==
  /\ at = "got" /\ pc = "idle" /\ ret.ok =>
       ret.call = "get" /\ ret.why = "parts" /\ dataKey = ret.key
  /\ name \in Rewraps /\ at \in {"get", "got", "wrap", "wrapped"} => ~dropped
  /\ name \in Rewraps /\ at \in {"wrap", "wrapped"} => dataKey = body

\* The data key a command wraps: its file's own, or for encrypt and rotate another one.
WrappedKey == IF pc = "idle" THEN ret.key ELSE loc.newKey

Wraps ==
  at = "wrapped" =>
    /\ WrappedKey \in DataKey
    /\ IF name \in {"encrypt", "rotate"} THEN WrappedKey # body ELSE WrappedKey = body
    /\ pc = "idle" => ret.call = "update"

\* What is about to be written: values in plain text without key groups, or values whose
\* data key the key groups hold.
Emits ==
  at \in {"emit", "write"} =>
    /\ ret.ok \/ ~ChecksErrors
    /\ dropped \/ (body = NoKey /\ groups = <<>> /\ threshold = 0) \/ Sealed(body)
    /\ name = "rotate" => Sealed(body) /\ (at = "emit" => body # disk.body)

OneWriter ==
  /\ at = "write" => disk = Torn
  /\ disk = Torn /\ ~cut => at = "write"

CommandInv ==
  /\ FileTypes /\ Stages /\ ReadsTheFile /\ HoldsTheKey /\ Wraps /\ Emits /\ OneWriter
  /\ FileReadable

FileInv == SealInv /\ OpenInv /\ CommandInv

-----------------------------------------------------------------------------
(***************************************************************************)
(* Facts about where a command is                                          *)
(***************************************************************************)
LEMMA IdleBetweenCalls ==
  ASSUME FileInv, at \notin {"got", "wrapped"}
  PROVE  pc = "idle"
BY DEF FileInv, CommandInv, Stages, SealInv, TypeInv, TypeOK, PC, Getting, Updating

\* The metadata is replaced while no call runs.
LEMMA IdleTypeInv ==
  ASSUME TypeInv, groups' \in Seq(Group), threshold' \in Nat,
         dataKey' \in {dataKey, NoKey}, splits' = splits, ctxDone' \in {ctxDone, FALSE},
         pc' = "idle", loc' \in {loc, NoLocals}, ret' \in {ret, NoRet}
  PROVE  TypeInv'
BY NoLocalsType DEF TypeInv, TypeOK, InRange, PC, Group, Updating, Getting

LEMMA IdleWrapInv ==
  ASSUME TypeInv', pc' = "idle", ret' = NoRet
  PROVE  SealInv' /\ OpenInv'
BY NotSealing, NotOpening, NoRetFields DEF Updating, Getting

LEMMA CallerWrapInv ==
  ASSUME SealInv, OpenInv, Caller \/ UpdateStep \/ GetStep \/ UNCHANGED vars
  PROVE  SealInv' /\ OpenInv'
BY NextSealInv, NextOpenInv DEF Next

\* The file does not change, and what it seals stays sealed.
LEMMA DiskUntouched ==
  ASSUME FileInv, disk' = disk, splits' \in {splits, splits + 1}, dropped => dropped'
  PROVE  FileReadable'
<1>1. splits \in Nat
  BY DEF FileInv, SealInv, TypeInv, TypeOK
<1>2. CASE disk = Torn \/ disk = Plain \/ dropped
  BY <1>2 DEF FileReadable, Torn, Plain
<1>3. CASE OnDisk!Sealed(disk.body)
  <2> DEFINE key == disk.body
  <2>1. OnDisk!Sealed(key)'
    BY <1>1, <1>3, FileStaysSealed
  <2> QED BY <2>1 DEF FileReadable
<1> QED
  BY <1>2, <1>3 DEF FileInv, CommandInv, FileReadable

\* The key groups seal what they sealed.
LEMMA MemoryStaysSealed ==
  ASSUME UNCHANGED <<groups, threshold, splits>>
  PROVE  \A key : Sealed(key)' <=> Sealed(key)
BY DEF Sealed, SealedBy, PartFor

\* A command that goes on after it opened the file holds the data key of the values: it has
\* compared them, or nothing was dropped and the key groups it read hold that key.
LEMMA OpenedKey ==
  ASSUME FileInv, Opened
  PROVE  /\ dataKey = body /\ ret.key = body /\ body = disk.body /\ body \in DataKey
         /\ ~dropped => Sealed(body)
         /\ groups # <<>> /\ name \in Names \ {"encrypt"}
<1>1. /\ at = "got" /\ pc = "idle" /\ ret.ok /\ Authenticated
      /\ name \in Names \ {"encrypt"} /\ groups # <<>>
      /\ body = disk.body /\ body \in DataKey
      /\ ~dropped => Sealed(body)
      /\ ret.call = "get" /\ ret.why = "parts" /\ dataKey = ret.key
  BY DEF Opened, FileInv, CommandInv, Stages, ReadsTheFile, HoldsTheKey
<1>2. ret.key = body
  <2>1. CASE name \in {"rotate", "edit", "decrypt"}
    BY <1>1, <2>1 DEF Authenticated
  <2>2. CASE name \in Rewraps
    <3>1. Sealed(body)
      BY <1>1, <2>2 DEF FileInv, CommandInv, HoldsTheKey
    <3> QED BY <1>1, <3>1 DEF FileInv, OpenInv, RecoversTheSealedKey
  <2> QED BY <1>1, <2>1, <2>2 DEF Names, Rewraps
<1> QED BY <1>1, <1>2

-----------------------------------------------------------------------------
(***************************************************************************)
(* Each step preserves the invariant                                       *)
(***************************************************************************)
\* A command that ends, or is killed, leaves nothing in memory.
LEMMA MemoryInv ==
  ASSUME FileInv, Memory, disk' \in File, dropped' \in BOOLEAN, cut' \in BOOLEAN,
         disk' = Torn => cut', FileReadable'
  PROVE  FileInv'
<1>1. TypeInv'
  <2>1. <<>> \in Seq(Group)
    BY EmptySeq
  <2> QED BY <2>1, IdleTypeInv DEF Memory, FileInv, SealInv
<1>2. SealInv' /\ OpenInv'
  BY <1>1, IdleWrapInv DEF Memory
<1>3. FileTypes'
  BY KeyWrapAssumption DEF Memory, FileTypes, At
<1>4. /\ Stages' /\ ReadsTheFile' /\ HoldsTheKey' /\ Wraps' /\ Emits' /\ OneWriter'
  BY DEF Memory, Stages, ReadsTheFile, HoldsTheKey, Wraps, Emits, OneWriter, Getting, Updating
<1> QED BY <1>2, <1>3, <1>4 DEF FileInv, CommandInv

LEMMA ExitInv ==
  ASSUME FileInv, Exit, at # "write"
  PROVE  FileInv'
<1>1. UNCHANGED <<splits, disk, dropped, cut>> /\ Memory
  BY DEF Exit, Memory
<1>2. FileReadable'
  BY <1>1, DiskUntouched DEF FileInv, SealInv, TypeInv, TypeOK
<1>3. disk' \in File /\ dropped' \in BOOLEAN /\ cut' \in BOOLEAN /\ (disk' = Torn => cut')
  BY <1>1 DEF FileInv, CommandInv, FileTypes, OneWriter, Torn, Plain
<1> QED BY <1>1, <1>2, <1>3, MemoryInv

LEMMA WriteFailsInv ==
  ASSUME FileInv, WriteFails \/ Crash
  PROVE  FileInv'
<1>1. UNCHANGED <<splits, disk, dropped>> /\ Memory /\ cut' \in BOOLEAN
      /\ (at = "write" \/ cut => cut')
  BY DEF WriteFails, Crash, Memory, FileInv, CommandInv, FileTypes
<1>2. FileReadable'
  BY <1>1, DiskUntouched DEF FileInv, SealInv, TypeInv, TypeOK
<1>3. disk' \in File /\ dropped' \in BOOLEAN /\ (disk' = Torn => cut')
  BY <1>1 DEF FileInv, CommandInv, FileTypes, OneWriter, Torn, Plain
<1> QED BY <1>1, <1>2, <1>3, MemoryInv

\* What is written is what the command had sealed.
LEMMA WriteInv ==
  ASSUME FileInv, Write
  PROVE  FileInv'
<1>0. /\ at = "write" /\ Memory /\ splits' = splits /\ UNCHANGED <<dropped, cut>>
      /\ disk' = [whole |-> TRUE, groups |-> groups, threshold |-> threshold, body |-> body]
  BY DEF Write, Memory
<1>1. disk' \in File /\ dropped' \in BOOLEAN /\ cut' \in BOOLEAN
  BY <1>0 DEF FileInv, SealInv, TypeInv, TypeOK, CommandInv, FileTypes, File
<1>2. disk' # Torn
  BY <1>0 DEF Torn, Plain
<1>3. FileReadable'
  <2>1. CASE dropped
    BY <1>0, <2>1 DEF FileReadable
  <2>2. CASE body = NoKey /\ groups = <<>> /\ threshold = 0
    <3>1. disk' = Plain
      BY <1>0, <2>2 DEF Plain
    <3> QED BY <3>1 DEF FileReadable, Plain
  <2>3. CASE Sealed(body)
    <3>1. PICK key : key = body
      OBVIOUS
    <3>2. OnDisk!Sealed(key)'
      BY <1>0, <2>3, <3>1, WrittenGroupsSealed
    <3>3. disk'.body = key
      BY <1>0, <3>1
    <3> QED BY <3>2, <3>3 DEF FileReadable, OnDisk!Sealed, OnDisk!SealedBy, OnDisk!PartFor
  <2> QED BY <1>0, <2>1, <2>2, <2>3 DEF FileInv, CommandInv, Emits
<1> QED BY <1>0, <1>1, <1>2, <1>3, MemoryInv

\* encrypt: the groups of a creation rule, whose keys hold nothing yet.
LEMMA ConfiguredType ==
  ASSUME NEW n \in 0..MaxKeys, NEW ty \in KeyType, NEW m \in 1..MaxGroups
  PROVE  Configured(n, ty, m) \in Seq(Group)
<1>1. n \in Nat /\ m \in Nat /\ Fresh(ty) \in MasterKey
  BY KeyWrapAssumption DEF Fresh, MasterKey
<1>2. [j \in 1..n |-> Fresh(ty)] \in Group
  BY <1>1, SeqDef DEF Group
<1> QED BY <1>1, <1>2, SeqDef DEF Configured

LEMMA EncryptInv ==
  ASSUME FileInv, NEW s \in 0..MaxSvcs, NEW n \in 0..MaxKeys, NEW ty \in KeyType,
         NEW m \in 1..MaxGroups, NEW t \in 0..MaxGroups, Encrypt(s, n, ty, m, t)
  PROVE  FileInv'
<1>0. /\ at = "shell" /\ at' = "wrap" /\ name' = "encrypt" /\ svcs' = s /\ pc = "idle"
      /\ ret = NoRet /\ body = NoKey
      /\ groups' = Configured(n, ty, m) /\ threshold' = t
      /\ UNCHANGED <<dataKey, splits, ctxDone, pc, loc, ret, disk, body, dropped, cut>>
  BY IdleBetweenCalls DEF Encrypt, FileInv, CommandInv, Stages
<1>1. TypeInv'
  BY <1>0, KeyWrapAssumption, ConfiguredType, IdleTypeInv DEF FileInv, SealInv
<1>2. SealInv' /\ OpenInv'
  BY <1>0, <1>1, IdleWrapInv
<1>3. FileTypes'
  BY <1>0 DEF FileInv, CommandInv, FileTypes, At, Names
<1>4. Stages' /\ ReadsTheFile' /\ HoldsTheKey' /\ Wraps' /\ Emits'
  BY <1>0 DEF Stages, ReadsTheFile, HoldsTheKey, Wraps, Emits, Rewraps, Getting, Updating
<1>5. OneWriter'
  BY <1>0 DEF FileInv, CommandInv, OneWriter
<1>6. FileReadable'
  BY <1>0, DiskUntouched DEF FileInv, SealInv, TypeInv, TypeOK
<1> QED BY <1>2, <1>3, <1>4, <1>5, <1>6 DEF FileInv, CommandInv

LEMMA LoadInv ==
  ASSUME FileInv, NEW s \in 0..MaxSvcs, NEW c \in Names \ {"encrypt"}, Load(s, c),
         c \in Rewraps => ~dropped
  PROVE  FileInv'
<1>0. /\ at = "shell" /\ at' = "get" /\ name' = c /\ svcs' = s /\ pc = "idle"
      /\ ret = NoRet /\ dataKey = NoKey /\ Loadable
      /\ groups' = LoadedGroups /\ threshold' = disk.threshold /\ body' = disk.body
      /\ UNCHANGED <<dataKey, splits, ctxDone, pc, loc, ret, disk, dropped, cut>>
  BY IdleBetweenCalls DEF Load, LoadedGroups, FileInv, CommandInv, Stages
<1>1. disk \in File /\ disk.body \in DataKey /\ disk.threshold \in Nat
  BY <1>0 DEF Loadable, FileInv, CommandInv, FileTypes, File
<1>2. TypeInv'
  BY <1>0, <1>1, LoadedGroupsType, IdleTypeInv DEF FileInv, SealInv
<1>3. SealInv' /\ OpenInv'
  BY <1>0, <1>2, IdleWrapInv
<1>4. FileTypes'
  BY <1>0, <1>1 DEF FileInv, CommandInv, FileTypes, At
<1>5. Stages' /\ HoldsTheKey' /\ Wraps' /\ Emits'
  BY <1>0 DEF Stages, HoldsTheKey, Wraps, Emits, Rewraps, Getting, Updating
<1>6. groups' # <<>>
  <2>1. disk.groups \in Seq(Group) /\ Len(disk.groups) # 0
    <3>1. disk.groups \in Seq(Group)
      BY <1>1 DEF File, Group
    <3>2. DOMAIN disk.groups = 1..Len(disk.groups)
      BY <3>1, LenProperties
    <3> QED BY <1>0, <3>1, <3>2 DEF Loadable
  <2> QED BY <1>0, <1>1, <2>1, LoadedGroupsType, EmptySeq
<1>7. ~dropped => Sealed(body)'
  <2> SUFFICES ASSUME ~dropped PROVE Sealed(body)'
    OBVIOUS
  <2>1. disk # Torn /\ disk # Plain
    BY <1>1, KeyWrapAssumption DEF Torn, Plain
  <2>2. PICK key : key = disk.body
    OBVIOUS
  <2>3. OnDisk!Sealed(key)
    BY <2>1, <2>2 DEF FileInv, CommandInv, FileReadable
  <2>4. Sealed(key)'
    BY <1>0, <1>1, <2>3, LoadedGroupsSealed
  <2> QED BY <1>0, <2>2, <2>4 DEF Sealed, SealedBy, PartFor
<1>8. ReadsTheFile'
  BY <1>0, <1>1, <1>6, <1>7 DEF ReadsTheFile
<1>9. OneWriter'
  BY <1>0 DEF FileInv, CommandInv, OneWriter
<1>10. FileReadable'
  BY <1>0, DiskUntouched DEF FileInv, SealInv, TypeInv, TypeOK
<1> QED BY <1>3, <1>4, <1>5, <1>8, <1>9, <1>10 DEF FileInv, CommandInv

LEMMA GetKeyInv ==
  ASSUME FileInv, GetKey
  PROVE  FileInv'
<1>0. /\ at = "get" /\ at' = "got" /\ GetStart(svcs) /\ pc' = "get.group"
      /\ UNCHANGED <<groups, threshold, dataKey, splits, disk, name, svcs, body, dropped, cut>>
  BY DEF GetKey, GoTo, GetStart, meta
<1>1. Caller
  BY <1>0 DEF Caller, FileInv, CommandInv, FileTypes
<1>2. SealInv' /\ OpenInv'
  BY <1>1, CallerWrapInv DEF FileInv
<1>3. Sealed(body)' <=> Sealed(body)
  BY <1>0, MemoryStaysSealed DEF Sealed, SealedBy, PartFor
<1>4. FileTypes' /\ Stages' /\ OneWriter'
  BY <1>0 DEF FileInv, CommandInv, FileTypes, Stages, OneWriter, At, Getting, Updating
<1>5. ReadsTheFile' /\ HoldsTheKey' /\ Wraps' /\ Emits'
  BY <1>0, <1>3 DEF FileInv, CommandInv, ReadsTheFile, HoldsTheKey, Wraps, Emits
<1>6. FileReadable'
  BY <1>0, DiskUntouched DEF FileInv, SealInv, TypeInv, TypeOK
<1> QED BY <1>2, <1>4, <1>5, <1>6 DEF FileInv, CommandInv

\* A step of a recovery.
LEMMA GetCallInv ==
  ASSUME FileInv, GetStep, UNCHANGED command
  PROVE  FileInv'
<1>0. /\ at = "got" /\ pc \in {"get.group", "get.key", "get.svc"} /\ name # "encrypt"
      /\ UNCHANGED <<groups, threshold, splits, disk, name, at, svcs, body, dropped, cut>>
      /\ name \in Names
  BY DEF GetStep, GetCancelled, GetEnterGroup, GetEnterKey, GetLeaveGroup, GetDecrypted,
         GetDecryptFailed, GetKeyFailed, GetDone, meta, command, FileInv, CommandInv, Stages,
         Getting
<1>1. SealInv' /\ OpenInv'
  BY CallerWrapInv DEF FileInv
<1>2. Sealed(body)' <=> Sealed(body)
  BY <1>0, MemoryStaysSealed DEF Sealed, SealedBy, PartFor
<1>3. ~Updating'
  BY DEF GetStep, GetCancelled, GetEnterGroup, GetEnterKey, GetLeaveGroup, GetDecrypted,
         GetDecryptFailed, GetKeyFailed, GetDone, GetReturns, Updating
<1>4. FileTypes' /\ Stages' /\ OneWriter'
  BY <1>0, <1>3 DEF FileInv, CommandInv, FileTypes, Stages, OneWriter
<1>5. pc' = "idle" /\ ret'.ok => ret'.call = "get" /\ ret'.why = "parts" /\ dataKey' = ret'.key
  <2>1. CASE GetCancelled
    BY <2>1 DEF GetCancelled, GetReturns
  <2>2. CASE GetDone
    BY <2>2 DEF GetDone, GetReturns
  <2>3. CASE pc' # "idle"
    BY <2>3
  <2> QED
    BY <1>0, <2>1, <2>2, <2>3
       DEF GetStep, GetEnterGroup, GetEnterKey, GetLeaveGroup, GetDecrypted, GetDecryptFailed,
           GetKeyFailed
<1>6. ReadsTheFile' /\ HoldsTheKey' /\ Wraps' /\ Emits'
  BY <1>0, <1>2, <1>5 DEF FileInv, CommandInv, ReadsTheFile, HoldsTheKey, Wraps, Emits
<1>7. FileReadable'
  BY <1>0, DiskUntouched DEF FileInv, SealInv, TypeInv, TypeOK
<1> QED BY <1>1, <1>4, <1>6, <1>7 DEF FileInv, CommandInv

\* A step of an update: the data key it was given is the one it reports.
LEMMA UpdateCallInv ==
  ASSUME FileInv, UpdateStep, UNCHANGED command
  PROVE  FileInv'
<1>0. /\ at = "wrapped" /\ pc # "idle" /\ loc.newKey \in DataKey /\ loc \in Locals
      /\ UNCHANGED <<disk, name, at, svcs, body, dropped, cut>> /\ splits' = splits
  BY DEF UpdateStep, UpdateEnterGroup, UpdateEmptyGroup, UpdateCancelled, UpdateEnterKey,
         UpdateEncrypted, UpdateEncryptFailed, UpdateLeaveGroup, UpdateDone, meta, command,
         FileInv, CommandInv, Stages, Updating, SealInv, TypeInv, TypeOK, InRange
<1>1. SealInv' /\ OpenInv'
  BY CallerWrapInv DEF FileInv
<1>2. ASSUME NEW ok, UpdateReturns(loc.newKey, ok)
      PROVE  pc' = "idle" /\ ret'.call = "update" /\ ret'.key = loc.newKey
  BY <1>2 DEF UpdateReturns, NoRet
<1>3. \/ pc' = "idle" /\ ret'.call = "update" /\ ret'.key = loc.newKey
      \/ pc' \in {"upd.group", "upd.key", "upd.svc"} /\ loc'.newKey = loc.newKey
  <2>1. CASE UpdateEmptyGroup \/ UpdateCancelled \/ UpdateDone
    BY <1>2, <2>1 DEF UpdateEmptyGroup, UpdateCancelled, UpdateDone
  <2>2. CASE UpdateEnterGroup \/ UpdateEnterKey \/ UpdateEncrypted \/ UpdateLeaveGroup
    BY <1>0, <2>2
       DEF UpdateEnterGroup, UpdateEnterKey, UpdateEncrypted, UpdateLeaveGroup, Locals
  <2>3. CASE UpdateEncryptFailed
    BY <1>0, <2>3 DEF UpdateEncryptFailed, Locals
  <2> QED BY <2>1, <2>2, <2>3 DEF UpdateStep
<1>4. dataKey' \in {dataKey, loc.newKey}
  BY DEF UpdateStep, UpdateEnterGroup, UpdateEmptyGroup, UpdateCancelled, UpdateEnterKey,
         UpdateEncrypted, UpdateEncryptFailed, UpdateLeaveGroup, UpdateDone, meta
<1>5. FileTypes' /\ OneWriter'
  BY <1>0 DEF FileInv, CommandInv, FileTypes, OneWriter
<1>6. Stages'
  BY <1>0, <1>3 DEF FileInv, CommandInv, Stages, Getting, Updating
<1>7. name \in Rewraps => loc.newKey = body
  BY <1>0 DEF FileInv, CommandInv, Wraps, WrappedKey, Rewraps
<1>8. HoldsTheKey'
  BY <1>0, <1>4, <1>7 DEF FileInv, CommandInv, HoldsTheKey
<1>9. ReadsTheFile' /\ Emits'
  BY <1>0 DEF FileInv, CommandInv, ReadsTheFile, Emits
<1>10. WrappedKey = loc.newKey /\ WrappedKey' = loc.newKey
  BY <1>0, <1>3 DEF WrappedKey
<1>11. Wraps'
  BY <1>0, <1>3, <1>10 DEF FileInv, CommandInv, Wraps
<1>12. FileReadable'
  BY <1>0, DiskUntouched DEF FileInv, SealInv, TypeInv, TypeOK
<1> QED BY <1>1, <1>5, <1>6, <1>8, <1>9, <1>11, <1>12 DEF FileInv, CommandInv

\* The steps that leave the metadata, and the calls, as they are.
LEMMA GoToInv ==
  ASSUME FileInv, UNCHANGED <<vars, disk, name, svcs, cut>>, body' \in DataKey \cup {NoKey},
         dropped' \in BOOLEAN, dropped => dropped', at' \in At,
         Stages', ReadsTheFile', HoldsTheKey', Wraps', Emits', OneWriter'
  PROVE  FileInv'
<1>1. SealInv' /\ OpenInv'
  BY CallerWrapInv DEF FileInv
<1>2. FileTypes'
  BY DEF FileInv, CommandInv, FileTypes
<1>3. FileReadable'
  BY DiskUntouched DEF vars, FileInv, SealInv, TypeInv, TypeOK
<1> QED BY <1>1, <1>2, <1>3 DEF FileInv, CommandInv

LEMMA EditInv ==
  ASSUME FileInv, Edit
  PROVE  FileInv'
<1>0. /\ at = "got" /\ pc = "idle" /\ ret.ok /\ at' = "emit" /\ name = "edit"
      /\ UNCHANGED vars /\ UNCHANGED <<disk, name, svcs, body, dropped, cut>>
  BY DEF Edit, Opened, GoTo
<1>1. ~dropped => Sealed(body)
  BY OpenedKey DEF Edit
<1>2. Sealed(body)' <=> Sealed(body)
  BY <1>0, MemoryStaysSealed DEF vars, Sealed, SealedBy, PartFor
<1>3. Stages' /\ ReadsTheFile' /\ HoldsTheKey' /\ Wraps' /\ Emits'
  BY <1>0, <1>1, <1>2
     DEF vars, Stages, ReadsTheFile, HoldsTheKey, Wraps, Emits, Rewraps, Getting, Updating
<1>4. OneWriter'
  BY <1>0 DEF FileInv, CommandInv, OneWriter
<1>5. body \in DataKey \cup {NoKey} /\ dropped \in BOOLEAN /\ "emit" \in At
  BY DEF FileInv, CommandInv, FileTypes, At
<1> QED BY <1>0, <1>3, <1>4, <1>5, GoToInv

\* The values alone are written.
LEMMA DecryptInv ==
  ASSUME FileInv, Decrypt
  PROVE  FileInv'
<1>0. /\ at = "got" /\ pc = "idle" /\ ret.ok /\ at' = "emit" /\ name = "decrypt"
      /\ groups' = <<>> /\ threshold' = 0 /\ body' = NoKey
      /\ UNCHANGED <<dataKey, splits, ctxDone, pc, loc, ret, disk, name, svcs, dropped, cut>>
  BY DEF Decrypt, Opened
<1>1. ret.call = "get"
  BY <1>0 DEF FileInv, CommandInv, HoldsTheKey
<1>2. TypeInv'
  <2>1. <<>> \in Seq(Group)
    BY EmptySeq
  <2> QED BY <1>0, <2>1, IdleTypeInv DEF FileInv, SealInv
<1>3. SealInv'
  BY <1>0, <1>1, <1>2, NotSealing DEF Updating
<1>4. OpenInv'
  <2>1. \A key : ~Sealed(key)'
    BY <1>0 DEF Sealed, SealedBy
  <2> QED
    BY <1>0, <1>2, <2>1
       DEF OpenInv, Silent, PartsFromGroups, RecoversTheSealedKey, QuorumDecides, Getting
<1>5. FileTypes'
  BY <1>0 DEF FileInv, CommandInv, FileTypes, At
<1>6. Stages' /\ ReadsTheFile' /\ HoldsTheKey' /\ Wraps' /\ Emits'
  BY <1>0 DEF Stages, ReadsTheFile, HoldsTheKey, Wraps, Emits, Rewraps, Getting, Updating
<1>7. OneWriter'
  BY <1>0 DEF FileInv, CommandInv, OneWriter
<1>8. FileReadable'
  BY <1>0, DiskUntouched DEF FileInv, SealInv, TypeInv, TypeOK
<1> QED BY <1>3, <1>4, <1>5, <1>6, <1>7, <1>8 DEF FileInv, CommandInv

LEMMA RotateBeginInv ==
  ASSUME FileInv, RotateBegin
  PROVE  FileInv'
<1>0. /\ at = "got" /\ pc = "idle" /\ at' = "rotate" /\ name = "rotate"
      /\ UNCHANGED vars /\ UNCHANGED <<disk, name, svcs, body, dropped, cut>>
  BY DEF RotateBegin, Opened, GoTo
<1>1. body = disk.body /\ body \in DataKey /\ groups # <<>>
  BY OpenedKey DEF RotateBegin
<1>2. Stages' /\ ReadsTheFile' /\ HoldsTheKey' /\ Wraps' /\ Emits'
  BY <1>0, <1>1
     DEF vars, Stages, ReadsTheFile, HoldsTheKey, Wraps, Emits, Rewraps, Getting, Updating
<1>3. OneWriter'
  BY <1>0 DEF FileInv, CommandInv, OneWriter
<1>4. body \in DataKey \cup {NoKey} /\ dropped \in BOOLEAN /\ "rotate" \in At
  BY DEF FileInv, CommandInv, FileTypes, At
<1> QED BY <1>0, <1>2, <1>3, <1>4, GoToInv

LEMMA RotateEndInv ==
  ASSUME FileInv, RotateEnd
  PROVE  FileInv'
<1>0. /\ at \in {"rotate", "remove"} /\ pc = "idle" /\ at' = "wrap" /\ name = "rotate"
      /\ UNCHANGED vars /\ UNCHANGED <<disk, name, svcs, body, dropped, cut>>
  BY IdleBetweenCalls DEF RotateEnd, GoTo, FileInv, CommandInv, Stages
<1>1. body = disk.body /\ body \in DataKey
  BY <1>0 DEF FileInv, CommandInv, ReadsTheFile
<1>2. Stages' /\ ReadsTheFile' /\ HoldsTheKey' /\ Wraps' /\ Emits'
  BY <1>0, <1>1
     DEF vars, Stages, ReadsTheFile, HoldsTheKey, Wraps, Emits, Rewraps, Getting, Updating
<1>3. OneWriter'
  BY <1>0 DEF FileInv, CommandInv, OneWriter
<1>4. dropped \in BOOLEAN /\ "wrap" \in At
  BY DEF FileInv, CommandInv, FileTypes, At
<1> QED BY <1>0, <1>1, <1>2, <1>3, <1>4, GoToInv

\* An edit of the key groups, on the way to wrapping the data key.
LEMMA EditsInv ==
  ASSUME FileInv, Caller, NEW gs, NEW t, CallerEdits(gs, t), NEW next \in {"rotate", "remove", "wrap"},
         GoTo(next), body = disk.body, body \in DataKey, name \in Rewraps \cup {"rotate"},
         next \in {"rotate", "remove"} => name = "rotate",
         next = "rotate" => gs # <<>>,
         name \in Rewraps => next = "wrap" /\ ~dropped /\ dataKey = body
  PROVE  FileInv'
<1>0. /\ pc' = "idle" /\ groups' = gs /\ at' = next
      /\ UNCHANGED <<dataKey, splits, disk, name, svcs, body, dropped, cut>>
  BY DEF CallerEdits, GoTo
<1>1. SealInv' /\ OpenInv'
  BY CallerWrapInv DEF FileInv
<1>2. at # "write"
  <2>1. CASE at = "write"
    <3>1. disk.body = NoKey
      BY <2>1 DEF FileInv, CommandInv, OneWriter, Torn, Plain
    <3> QED BY <3>1, KeyWrapAssumption
  <2> QED BY <2>1
<1>3. FileTypes' /\ OneWriter'
  BY <1>0, <1>2 DEF FileInv, CommandInv, FileTypes, OneWriter, At
<1>4. Stages' /\ HoldsTheKey' /\ Wraps' /\ Emits'
  BY <1>0 DEF Stages, HoldsTheKey, Wraps, Emits, Rewraps, Getting, Updating
<1>5. ReadsTheFile'
  BY <1>0 DEF ReadsTheFile, Rewraps
<1>6. FileReadable'
  BY <1>0, DiskUntouched DEF FileInv, SealInv, TypeInv, TypeOK
<1> QED BY <1>1, <1>3, <1>4, <1>5, <1>6 DEF FileInv, CommandInv

LEMMA RotateAddInv ==
  ASSUME FileInv, NEW ty \in KeyType, RotateAdd(ty)
  PROVE  FileInv'
<1> DEFINE gs == [groups EXCEPT ![1] = Append(groups[1], Fresh(ty))]
<1>0. /\ at = "rotate" /\ name = "rotate" /\ body = disk.body /\ body \in DataKey
      /\ groups # <<>> /\ groups \in Seq(Group)
  BY DEF RotateAdd, FileInv, CommandInv, Stages, ReadsTheFile, SealInv, TypeInv, TypeOK, Group
<1>1. 1 \in DOMAIN groups
  BY <1>0, LenProperties, EmptySeq
<1>2. Caller
  BY <1>1 DEF RotateAdd, Caller
<1>3. CallerEdits(gs, 0) /\ GoTo("rotate")
  BY DEF RotateAdd, AddKey
<1>4. gs # <<>>
  <2>1. DOMAIN gs = DOMAIN groups
    OBVIOUS
  <2> HIDE DEF gs
  <2> QED BY <1>1, <2>1
<1> HIDE DEF gs
<1> QED BY <1>0, <1>2, <1>3, <1>4, EditsInv DEF Rewraps

LEMMA RotateRemoveInv ==
  ASSUME FileInv, NEW i \in DOMAIN groups, NEW j \in DOMAIN groups[i], RotateRemove(i, j)
  PROVE  FileInv'
<1> DEFINE gs == [groups EXCEPT ![i] = Without(groups[i], j)]
<1>0. name = "rotate" /\ body = disk.body /\ body \in DataKey
  BY DEF RotateRemove, FileInv, CommandInv, Stages, ReadsTheFile
<1>1. Caller
  BY DEF RotateRemove, Caller
<1>2. CallerEdits(gs, 0) /\ GoTo("remove")
  BY DEF RotateRemove, RemoveKey
<1> HIDE DEF gs
<1> QED BY <1>0, <1>1, <1>2, EditsInv DEF Rewraps

LEMMA GroupsAddInv ==
  ASSUME FileInv, NEW n \in 0..MaxKeys, NEW ty \in KeyType, NEW t \in 0..MaxGroups,
         GroupsAdd(n, ty, t)
  PROVE  FileInv'
<1> DEFINE gs == Append(groups, [i \in 1..n |-> Fresh(ty)])
<1>0. name = "groups add" /\ Opened /\ at = "got"
  BY DEF GroupsAdd, Opened
<1>1. dataKey = body /\ body = disk.body /\ body \in DataKey /\ ~dropped
  BY <1>0, OpenedKey DEF FileInv, CommandInv, HoldsTheKey, Rewraps
<1>2. Caller
  BY DEF GroupsAdd, Caller
<1>3. CallerEdits(gs, t) /\ GoTo("wrap")
  BY DEF GroupsAdd, AddGroup
<1> HIDE DEF gs
<1> QED BY <1>0, <1>1, <1>2, <1>3, EditsInv DEF Rewraps

LEMMA GroupsDeleteInv ==
  ASSUME FileInv, NEW i \in DOMAIN groups, NEW t \in 0..MaxGroups, GroupsDelete(i, t)
  PROVE  FileInv'
<1>0. name = "groups delete" /\ Opened /\ at = "got"
  BY DEF GroupsDelete, Opened
<1>1. CASE Exit
  BY <1>0, <1>1, ExitInv
<1>2. CASE DeleteGroup(i, t) /\ GoTo("wrap")
  <2> DEFINE gs == Without(groups, i)
  <2>1. dataKey = body /\ body = disk.body /\ body \in DataKey /\ ~dropped
    BY <1>0, OpenedKey DEF FileInv, CommandInv, HoldsTheKey, Rewraps
  <2>2. Caller
    BY <1>2 DEF Caller
  <2>3. CallerEdits(gs, t) /\ GoTo("wrap")
    BY <1>2 DEF DeleteGroup
  <2> HIDE DEF gs
  <2> QED BY <1>0, <2>1, <2>2, <2>3, EditsInv DEF Rewraps
<1> QED BY <1>1, <1>2 DEF GroupsDelete

\* updatekeys: the groups of the creation rule replace the file's.
LEMMA UpdateKeysInv ==
  ASSUME FileInv, NEW n \in 0..MaxKeys, NEW ty \in KeyType, NEW m \in 1..MaxGroups,
         NEW t \in 0..MaxGroups, UpdateKeys(n, ty, m, t)
  PROVE  FileInv'
<1>0. /\ Opened /\ at = "got" /\ pc = "idle" /\ name = "updatekeys" /\ at' = "wrap"
      /\ groups' = Configured(n, ty, m) /\ ret' = NoRet
      /\ threshold' = Smaller(IF t = 0 THEN threshold ELSE t, m)
      /\ UNCHANGED <<dataKey, splits, ctxDone, pc, loc, disk, name, svcs, body, dropped, cut>>
  BY DEF UpdateKeys, Opened, GoTo
<1>1. dataKey = body /\ body = disk.body /\ body \in DataKey /\ ~dropped
  BY <1>0, OpenedKey DEF FileInv, CommandInv, HoldsTheKey, Rewraps
<1>2. threshold' \in Nat
  BY <1>0, KeyWrapAssumption DEF Smaller, FileInv, SealInv, TypeInv, TypeOK
<1>3. TypeInv'
  BY <1>0, <1>2, ConfiguredType, IdleTypeInv DEF FileInv, SealInv
<1>4. SealInv' /\ OpenInv'
  BY <1>0, <1>3, IdleWrapInv
<1>5. FileTypes' /\ OneWriter'
  BY <1>0 DEF FileInv, CommandInv, FileTypes, OneWriter, At
<1>6. Stages' /\ ReadsTheFile' /\ HoldsTheKey' /\ Wraps' /\ Emits'
  BY <1>0, <1>1 DEF Stages, ReadsTheFile, HoldsTheKey, Wraps, Emits, Rewraps, Getting, Updating
<1>7. FileReadable'
  BY <1>0, DiskUntouched DEF FileInv, SealInv, TypeInv, TypeOK
<1> QED BY <1>4, <1>5, <1>6, <1>7 DEF FileInv, CommandInv

LEMMA WrapInv ==
  ASSUME FileInv, NEW key \in DataKey, Wrap(key)
  PROVE  FileInv'
<1>0. /\ at = "wrap" /\ at' = "wrapped" /\ NewKey(key) /\ dataKey' = dataKey
      /\ splits' \in {splits, splits + 1}
      /\ UNCHANGED <<disk, name, svcs, body, dropped, cut>>
  BY DEF Wrap, GoTo, UpdateStart, UpdateRejected
<1>1. /\ name \in Rewraps \cup {"encrypt", "rotate"}
      /\ IF name = "encrypt" THEN body = NoKey ELSE body = disk.body /\ body \in DataKey
      /\ name \in Rewraps => ~dropped /\ dataKey = body
  BY <1>0 DEF FileInv, CommandInv, Stages, ReadsTheFile, HoldsTheKey
<1>2. Caller
  <2>1. svcs \in 0..MaxSvcs /\ MaxSvcs \in Nat /\ FALSE \in BOOLEAN
    BY KeyWrapAssumption DEF FileInv, CommandInv, FileTypes
  <2>2. svcs > 0 => svcs \in 1..MaxSvcs
    BY <2>1
  <2> QED BY <2>1, <2>2 DEF Wrap, Caller
<1>3. SealInv' /\ OpenInv'
  BY <1>2, CallerWrapInv DEF FileInv
<1>4. \/ pc' = "idle" /\ ret'.call = "update" /\ ret'.key = key
      \/ pc' = "upd.group" /\ loc'.newKey = key
  BY DEF Wrap, UpdateRejected, UpdateReturns, UpdateStart, NoRet, NoLocals
<1>5. WrappedKey' = key
  BY <1>4 DEF WrappedKey
<1>6. IF name \in {"encrypt", "rotate"} THEN key # body ELSE key = body
  BY <1>0, <1>1 DEF NewKey, Rewraps
<1>7. FileTypes' /\ OneWriter'
  BY <1>0 DEF FileInv, CommandInv, FileTypes, OneWriter, At
<1>8. Stages'
  BY <1>0, <1>1, <1>4 DEF Stages, Getting, Updating
<1>9. ReadsTheFile' /\ HoldsTheKey' /\ Emits'
  BY <1>0, <1>1 DEF ReadsTheFile, HoldsTheKey, Emits
<1>10. Wraps'
  BY <1>0, <1>4, <1>5, <1>6 DEF Wraps
<1>11. FileReadable'
  BY <1>0, DiskUntouched
<1> QED BY <1>3, <1>7, <1>8, <1>9, <1>10, <1>11 DEF FileInv, CommandInv

\* The key groups hold the data key the values are to be encrypted with.
LEMMA WrapDoneInv ==
  ASSUME FileInv, WrapDone
  PROVE  FileInv'
<1>0. /\ at = "wrapped" /\ pc = "idle" /\ at' = "emit" /\ (ret.ok \/ ~ChecksErrors)
      /\ body' = IF name \in {"encrypt", "rotate"} THEN ret.key ELSE body
      /\ dropped' = (dropped \/ ~ret.ok)
      /\ UNCHANGED vars /\ UNCHANGED <<disk, name, svcs, cut>>
  BY DEF WrapDone
<1>1. /\ ret.key \in DataKey /\ ret.call = "update"
      /\ IF name \in {"encrypt", "rotate"} THEN ret.key # body ELSE ret.key = body
      /\ name = "rotate" => body = disk.body
  BY <1>0 DEF FileInv, CommandInv, Wraps, WrappedKey, ReadsTheFile
<1>2. body' = ret.key
  BY <1>0, <1>1
<1>3. ret.ok => Sealed(ret.key)
  BY <1>1 DEF FileInv, SealInv, UpdateSeals
<1>4. ret.ok => Sealed(body)'
  BY <1>0, <1>2, <1>3 DEF vars, Sealed, SealedBy, PartFor
<1>5. name = "rotate" => ret.ok /\ body' # disk'.body
  BY <1>0, <1>1, <1>2 DEF ChecksErrors
<1>6. Emits'
  BY <1>0, <1>4, <1>5 DEF vars, Emits, ChecksErrors
<1>7. Stages' /\ ReadsTheFile' /\ HoldsTheKey' /\ Wraps'
  BY <1>0 DEF vars, Stages, ReadsTheFile, HoldsTheKey, Wraps, Rewraps, Getting, Updating
<1>8. OneWriter'
  BY <1>0 DEF FileInv, CommandInv, OneWriter
<1>9. dropped' \in BOOLEAN /\ (dropped => dropped') /\ "emit" \in At
  BY <1>0 DEF At
<1> QED BY <1>0, <1>1, <1>2, <1>6, <1>7, <1>8, <1>9, GoToInv

LEMMA CreateInv ==
  ASSUME FileInv, Create
  PROVE  FileInv'
<1>0. /\ at = "emit" /\ pc = "idle" /\ at' = "write" /\ disk' = Torn
      /\ UNCHANGED vars /\ UNCHANGED <<name, svcs, body, dropped, cut>>
  BY IdleBetweenCalls DEF Create
<1>1. SealInv' /\ OpenInv'
  BY CallerWrapInv, <1>0 DEF FileInv
<1>2. Torn \in File
  BY EmptySeq DEF Torn, Plain, File
<1>3. FileTypes'
  BY <1>0, <1>2 DEF FileInv, CommandInv, FileTypes, At
<1>4. Stages' /\ ReadsTheFile' /\ HoldsTheKey' /\ Wraps' /\ OneWriter' /\ FileReadable'
  BY <1>0
     DEF vars, Stages, ReadsTheFile, HoldsTheKey, Wraps, OneWriter, FileReadable, Getting, Updating
<1>5. Sealed(body)' <=> Sealed(body)
  BY <1>0, MemoryStaysSealed DEF vars, Sealed, SealedBy, PartFor
<1>6. Emits'
  BY <1>0, <1>5 DEF vars, FileInv, CommandInv, Emits, ChecksErrors
<1> QED BY <1>1, <1>3, <1>4, <1>6 DEF FileInv, CommandInv

LEMMA CommandStepInv ==
  ASSUME FileInv, Command
  PROVE  FileInv'
<1>1. ASSUME Exit, at # "write" PROVE FileInv'
  BY <1>1, ExitInv
<1>2. CASE UpdateKeysUnchanged \/ GetFails \/ WrapFails \/ EmitFails
  BY <1>1, <1>2 DEF UpdateKeysUnchanged, GetFails, WrapFails, EmitFails
<1> QED
  BY <1>2, GetKeyInv, EditInv, DecryptInv, RotateBeginInv, RotateEndInv, RotateAddInv,
     RotateRemoveInv, UpdateKeysInv, GroupsAddInv, GroupsDeleteInv, WrapInv, WrapDoneInv,
     CreateInv, WriteInv, WriteFailsInv
     DEF Command

LEMMA BeginInv ==
  ASSUME FileInv, Begin
  PROVE  FileInv'
<1>1. PICK s \in 0..MaxSvcs :
        \/ \E n \in 0..MaxKeys, ty \in KeyType, m \in 1..MaxGroups, t \in 0..MaxGroups :
             Encrypt(s, n, ty, m, t)
        \/ \E c \in {"edit", "decrypt", "rotate"} : Load(s, c)
        \/ \E c \in Rewraps : ~dropped /\ Load(s, c)
  BY DEF Begin, Rewraps
<1>2. CASE \E c \in {"edit", "decrypt", "rotate"} : Load(s, c)
  <2>1. PICK c \in {"edit", "decrypt", "rotate"} : Load(s, c)
    BY <1>2
  <2>2. c \in Names \ {"encrypt"} /\ c \notin Rewraps
    BY DEF Names, Rewraps
  <2> QED BY <2>1, <2>2, LoadInv
<1>3. CASE \E c \in Rewraps : ~dropped /\ Load(s, c)
  <2>1. PICK c \in Rewraps : ~dropped /\ Load(s, c)
    BY <1>3
  <2>2. c \in Names \ {"encrypt"}
    BY DEF Names, Rewraps
  <2> QED BY <2>1, <2>2, LoadInv
<1> QED BY <1>1, <1>2, <1>3, EncryptInv

LEMMA NextFileInv == FileInv /\ [FileNext]_fileVars => FileInv'
<1> SUFFICES ASSUME FileInv, [FileNext]_fileVars PROVE FileInv'
  OBVIOUS
<1>1. CASE Call
  BY <1>1, UpdateCallInv, GetCallInv DEF Call
<1>2. CASE UNCHANGED fileVars
  <2>1. SealInv' /\ OpenInv'
    BY <1>2, CallerWrapInv DEF fileVars, FileInv
  <2>2. Sealed(body)' <=> Sealed(body)
    BY <1>2, MemoryStaysSealed DEF fileVars, vars, command, Sealed, SealedBy, PartFor
  <2>3. /\ UNCHANGED <<groups, threshold, dataKey, pc, loc, ret>>
        /\ UNCHANGED <<disk, name, at, svcs, body, dropped, cut>>
    BY <1>2 DEF fileVars, vars, command
  <2>4. FileTypes' /\ Stages' /\ HoldsTheKey' /\ OneWriter'
    BY <2>3 DEF FileInv, CommandInv, FileTypes, Stages, HoldsTheKey, OneWriter, Getting, Updating
  <2>5. ReadsTheFile' /\ Wraps' /\ Emits'
    BY <2>2, <2>3
       DEF FileInv, CommandInv, ReadsTheFile, Wraps, WrappedKey, Emits, ChecksErrors
  <2>6. FileReadable'
    BY <1>2, DiskUntouched DEF fileVars, vars, command, FileInv, SealInv, TypeInv, TypeOK
  <2> QED BY <2>1, <2>4, <2>6, <2>5 DEF FileInv, CommandInv
<1> QED
  BY <1>1, <1>2, BeginInv, CommandStepInv, WriteFailsInv DEF FileNext, LoadFails

LEMMA FileInvariant == FileSpec => []FileInv
<1>1. FileInit => FileInv
  <2> SUFFICES ASSUME FileInit PROVE FileInv
    OBVIOUS
  <2>1. TypeInv
    BY InitTypeInv DEF FileInit
  <2>2. SealInv /\ OpenInv
    BY <2>1, NoRetFields
       DEF FileInit, Init, SealInv, OpenInv, Silent, UpdateProgress, UpdateSeals,
           PartsFromGroups, RecoversTheSealedKey, QuorumDecides, Getting, Updating
  <2>3. FileTypes
    <3>1. Plain \in File
      BY EmptySeq DEF Plain, File
    <3>2. 0 \in 0..MaxSvcs
      BY KeyWrapAssumption
    <3> QED BY <3>1, <3>2 DEF FileInit, FileTypes, At
  <2>4. Stages /\ ReadsTheFile /\ HoldsTheKey /\ Wraps /\ Emits /\ FileReadable
    BY DEF FileInit, Init, Stages, ReadsTheFile, HoldsTheKey, Wraps, Emits, FileReadable,
           Getting, Updating
  <2>5. OneWriter
    BY DEF FileInit, OneWriter, Plain, Torn
  <2> QED BY <2>2, <2>3, <2>4, <2>5 DEF FileInv, CommandInv
<1>2. FileInv /\ [FileNext]_fileVars => FileInv'
  BY NextFileInv
<1> QED
  BY <1>1, <1>2, PTL DEF FileSpec

-----------------------------------------------------------------------------
(***************************************************************************)
(* What the commands promise                                               *)
(***************************************************************************)
\* The metadata in memory, the file and the state of the command stay in their types: the
\* threshold a command computes is never negative.
THEOREM FileTypeCorrect == FileSpec => []FileTypeOK
<1>1. FileInv => FileTypeOK
  BY KeyWrapAssumption DEF FileInv, SealInv, TypeInv, CommandInv, FileTypes, FileTypeOK
<1> QED
  BY <1>1, FileInvariant, PTL

\* encrypt, rotate, updatekeys, set, edit and decrypt leave a file whose key groups hold the
\* data key of its values, whatever failed and wherever they were killed.
THEOREM FilesStayReadable == FileSpec => []FileReadable
<1>1. FileInv => FileReadable
  BY DEF FileInv, CommandInv
<1> QED
  BY <1>1, FileInvariant, PTL

\* A file is torn only between the truncation and the writing of a whole new file.
THEOREM TornWhileWriting == FileSpec => []TornOnlyWhileWriting
<1>1. FileInv => TornOnlyWhileWriting
  BY DEF FileInv, CommandInv, OneWriter, Emits, TornOnlyWhileWriting
<1> QED
  BY <1>1, FileInvariant, PTL

\* The file on disk is untouched by a command one of whose calls failed, unless it is one of
\* the groups commands.
THEOREM ErrorsKeepTheFile == FileSpec => FileKeptOnErrors
<1>1. ASSUME FileInv, [FileNext]_fileVars, disk' # disk
      PROVE  pc = "idle" /\ (ret.ok \/ name \in {"groups add", "groups delete"})
  <2>1. at \in {"emit", "write"}
    <3>1. CASE Begin
      BY <1>1, <3>1 DEF Begin, Encrypt, Load
    <3>2. CASE Command
      BY <1>1, <3>2
         DEF Command, UpdateKeysUnchanged, GetKey, GetFails, Edit, Decrypt, RotateBegin,
             RotateEnd, RotateAdd, RotateRemove, UpdateKeys, GroupsAdd, GroupsDelete, Wrap,
             WrapFails, WrapDone, EmitFails, Create, Write, WriteFails, GoTo, Exit
    <3> QED
      BY <1>1, <3>1, <3>2 DEF FileNext, LoadFails, Call, Crash, fileVars, command
  <2> QED
    BY <1>1, <2>1, IdleBetweenCalls DEF FileInv, CommandInv, Emits, ChecksErrors
<1>2. FileInv /\ [FileNext]_fileVars =>
        [disk' # disk => pc = "idle" /\ (ret.ok \/ name \in {"groups add", "groups delete"})]_fileVars
  BY <1>1
<1> QED
  BY <1>2, FileInvariant, PTL DEF FileSpec, FileKeptOnErrors

\* rotate never writes a file that is still encrypted with its old data key.
THEOREM RotationRenewsTheKey == FileSpec => RotateRenewsTheKey
<1>1. FileInv =>
        [name = "rotate" /\ at = "emit" /\ disk' = Torn => Sealed(body) /\ body # disk.body]_fileVars
  BY DEF FileInv, CommandInv, Emits
<1> QED
  BY <1>1, FileInvariant, PTL DEF RotateRenewsTheKey
=============================================================================
