------------------------------ MODULE KeyFile ------------------------------
(***************************************************************************)
(* A file on disk and the commands that rewrite it in place: encrypt,      *)
(* rotate, updatekeys, groups add, groups delete, decrypt and edit (set    *)
(* and unset go the same way).  A command reads the file, recovers its     *)
(* data key and wraps one again with the calls of KeyWrap, whose actions   *)
(* are the steps of those calls here, and in the end truncates the file    *)
(* and writes it.  Key services and the writing of the file may fail, and  *)
(* the process may be killed at any step.                                  *)
(***************************************************************************)
EXTENDS KeyWrap

CONSTANT StoredOrder  \* the key types in the order a file lists the keys of a group

ASSUME StoredOrderAssumption ==
  /\ StoredOrder \in Seq(KeyType)
  /\ \A ty \in KeyType : \E i \in DOMAIN StoredOrder : StoredOrder[i] = ty
  /\ \A i, j \in DOMAIN StoredOrder : StoredOrder[i] = StoredOrder[j] => i = j

(***************************************************************************)
(* A file: its metadata, and the data key its values and its MAC are       *)
(* encrypted with, NoKey while it is plain text.  A file that was          *)
(* truncated and not written again is torn.                                *)
(***************************************************************************)
File == [whole : BOOLEAN, groups : Seq(Seq(MasterKey)), threshold : Nat,
         body : DataKey \cup {NoKey}]

Plain == [whole |-> TRUE, groups |-> <<>>, threshold |-> 0, body |-> NoKey]
Torn == [Plain EXCEPT !.whole = FALSE]

Names == {"encrypt", "rotate", "updatekeys", "groups add", "groups delete",
          "edit", "decrypt"}

At == {"shell", "get", "got", "rotate", "remove", "wrap", "wrapped", "emit", "write"}

VARIABLES
  disk,     \* the file
  name,     \* the running command
  at,       \* where the command is
  svcs,     \* how many key services it was given
  body,     \* Tree: the data key its values are, or were, encrypted with
  dropped,  \* errors of UpdateMasterKeys were dropped by a command that wrote the file
  cut       \* a command was killed, or failed, between truncating and writing

command == <<disk, name, at, svcs, body, dropped, cut>>
fileVars == <<vars, command>>

\* The process is gone, and what it had in memory with it.
Memory ==
  /\ groups' = <<>> /\ threshold' = 0 /\ dataKey' = NoKey
  /\ ctxDone' = FALSE /\ pc' = "idle" /\ loc' = NoLocals /\ ret' = NoRet
  /\ name' = "none" /\ at' = "shell" /\ svcs' = 0 /\ body' = NoKey
  /\ UNCHANGED splits

Exit == Memory /\ UNCHANGED <<disk, dropped, cut>>

(***************************************************************************)
(* internalGroupFrom: a group's keys come back type by type, and those of  *)
(* one type as they stood.                                                 *)
(***************************************************************************)
StoredPlace(ty) == CHOOSE i \in DOMAIN StoredOrder : StoredOrder[i] = ty

StoredBefore(group, i, j) ==
  LET p == StoredPlace(group[i].type)
      q == StoredPlace(group[j].type)
  IN p < q \/ (p = q /\ i < j)

NewPlace(group, i) == Cardinality({j \in DOMAIN group : j = i \/ StoredBefore(group, j, i)})

StoredGroup(group) ==
  [n \in DOMAIN group |-> group[CHOOSE i \in DOMAIN group : NewPlace(group, i) = n]]

\* internalKeygroups: one group without keys reads as `No keys found in file'.
Loadable ==
  /\ disk.body # NoKey
  /\ Len(disk.groups) > 1 \/ \E i \in DOMAIN disk.groups : disk.groups[i] # <<>>

-----------------------------------------------------------------------------
(***************************************************************************)
(* Reading the file                                                        *)
(***************************************************************************)
\* metadataFromEncryptionConfig: the groups and the threshold of a creation rule.
Configured(n, ty, m) == [i \in 1..m |-> [j \in 1..n |-> Fresh(ty)]]

Encrypt(s, n, ty, m, t) ==
  /\ at = "shell"
  /\ disk = Plain
  /\ groups' = Configured(n, ty, m) /\ threshold' = t
  /\ name' = "encrypt" /\ at' = "wrap" /\ svcs' = s
  /\ UNCHANGED <<dataKey, splits, ctxDone, pc, loc, ret, disk, body, dropped, cut>>

Load(s, c) ==
  /\ at = "shell"
  /\ Loadable
  /\ groups' = [i \in DOMAIN disk.groups |-> StoredGroup(disk.groups[i])]
  /\ threshold' = disk.threshold /\ body' = disk.body
  /\ name' = c /\ at' = "get" /\ svcs' = s
  /\ UNCHANGED <<dataKey, splits, ctxDone, pc, loc, ret, disk, dropped, cut>>

LoadFails ==
  /\ at = "shell"
  /\ ~Loadable
  /\ UNCHANGED fileVars

GoTo(next) == at' = next /\ UNCHANGED <<disk, name, svcs, body, dropped, cut>>

\* The keys are the rule's already, or the user answers no.
UpdateKeysUnchanged ==
  /\ at = "get"
  /\ name = "updatekeys"
  /\ pc = "idle"
  /\ Exit

GetKey == at = "get" /\ GetStart(svcs) /\ GoTo("got")

\* DecryptTree checks the recovered key against the values and the MAC; updatekeys and
\* the groups commands wrap it again without looking at the values.
Authenticated == name \in {"rotate", "edit", "decrypt"} => ret.key = body

GetFails ==
  /\ at = "got"
  /\ pc = "idle"
  /\ ~ret.ok \/ ~Authenticated
  /\ Exit

-----------------------------------------------------------------------------
(***************************************************************************)
(* What each command does to the metadata                                  *)
(***************************************************************************)
Opened == at = "got" /\ pc = "idle" /\ ret.ok /\ Authenticated

\* The edited values are encrypted again with the data key the file had.
Edit ==
  /\ Opened
  /\ name = "edit"
  /\ GoTo("emit")
  /\ UNCHANGED vars

\* The values alone are written, without metadata.
Decrypt ==
  /\ Opened
  /\ name = "decrypt"
  /\ groups' = <<>> /\ threshold' = 0 /\ body' = NoKey /\ at' = "emit"
  /\ UNCHANGED <<dataKey, splits, ctxDone, pc, loc, ret, disk, name, svcs, dropped, cut>>

RotateBegin ==
  /\ Opened
  /\ name = "rotate"
  /\ GoTo("rotate")
  /\ UNCHANGED vars

\* --add-* appends to the first group; --rm-* takes a key out of any group.
RotateAdd(ty) ==
  /\ at = "rotate"
  /\ AddKey(1, ty)
  /\ GoTo("rotate")

RotateRemove(i, j) ==
  /\ at \in {"rotate", "remove"}
  /\ RemoveKey(i, j)
  /\ GoTo("remove")

RotateEnd ==
  /\ at \in {"rotate", "remove"}
  /\ GoTo("wrap")
  /\ UNCHANGED vars

Smaller(a, b) == IF a < b THEN a ELSE b

\* The groups of the creation rule replace the file's; its threshold does not, the
\* file's own is cut down to the number of groups.
UpdateKeys(n, ty, m, t) ==
  /\ Opened
  /\ name = "updatekeys"
  /\ groups' = Configured(n, ty, m)
  /\ threshold' = Smaller(IF t = 0 THEN threshold ELSE t, m)
  /\ ret' = NoRet
  /\ GoTo("wrap")
  /\ UNCHANGED <<dataKey, splits, ctxDone, pc, loc>>

GroupsAdd(n, ty, t) ==
  /\ Opened
  /\ name = "groups add"
  /\ AddGroup(n, ty, t)
  /\ GoTo("wrap")

\* Mistake: every deletion lowers the threshold.
GroupsDeleteLowers(i, t) ==
  /\ Opened /\ name = "groups delete" /\ t = 0
  /\ groups' = Without(groups, i)
  /\ threshold' = threshold - 1 /\ ret' = NoRet
  /\ GoTo("wrap")
  /\ UNCHANGED <<dataKey, splits, ctxDone, pc, loc>>

\* The new threshold is set, then checked against the groups that are left.
GroupsDelete(i, t) ==
  /\ Opened
  /\ name = "groups delete"
  /\ LET needed == IF t = 0 THEN threshold ELSE t
     IN \/ Len(groups) - 1 >= needed /\ DeleteGroup(i, t) /\ GoTo("wrap")
        \/ Len(groups) - 1 < needed /\ Exit

-----------------------------------------------------------------------------
(***************************************************************************)
(* Wrapping the data key                                                   *)
(***************************************************************************)
\* Mistake: rotate wraps the data key it recovered.
NewKeyReused(key) == IF name = "encrypt" THEN key # body ELSE key = dataKey

\* GenerateDataKey makes a random key; the other commands wrap the one they recovered.
NewKey(key) ==
  IF name \in {"encrypt", "rotate"} THEN key # body ELSE key = dataKey

Wrap(key) ==
  /\ at = "wrap"
  /\ NewKey(key)
  /\ (svcs > 0 /\ UpdateStart(key, svcs)) \/ UpdateRejected(key, svcs, FALSE)
  /\ GoTo("wrapped")

\* Mistake: no command looks at the errors.
ChecksNoErrors == FALSE

\* `groups add' and `groups delete' drop the errors UpdateMasterKeys returns.
ChecksErrors == name \notin {"groups add", "groups delete"}

WrapFails ==
  /\ at = "wrapped"
  /\ pc = "idle"
  /\ ~ret.ok
  /\ ChecksErrors
  /\ Exit

\* Mistake: rotate encrypts the values with the data key the file had.
WrapDoneOldBody ==
  /\ at = "wrapped" /\ pc = "idle" /\ (ret.ok \/ ~ChecksErrors)
  /\ body' = (IF name = "encrypt" THEN ret.key ELSE body)
  /\ dropped' = (dropped \/ ~ret.ok) /\ at' = "emit"
  /\ UNCHANGED <<vars, disk, name, svcs, cut>>

\* Encrypt and rotate encrypt the values with the data key they have wrapped.
WrapDone ==
  /\ at = "wrapped"
  /\ pc = "idle"
  /\ ret.ok \/ ~ChecksErrors
  /\ body' = IF name \in {"encrypt", "rotate"} THEN ret.key ELSE body
  /\ dropped' = (dropped \/ ~ret.ok)
  /\ at' = "emit"
  /\ UNCHANGED <<vars, disk, name, svcs, cut>>

-----------------------------------------------------------------------------
(***************************************************************************)
(* Writing the file                                                        *)
(***************************************************************************)
\* Mistake: the file is opened before the tree is marshalled.
EmitFailsOpened == at = "write" /\ Exit

\* The store cannot marshal the tree, or the edited values are the old ones.
EmitFails ==
  /\ at = "emit"
  /\ Exit

\* os.Create truncates the file.
Create ==
  /\ at = "emit"
  /\ disk' = Torn
  /\ at' = "write"
  /\ UNCHANGED <<vars, name, svcs, body, dropped, cut>>

Write ==
  /\ at = "write"
  /\ disk' = [whole |-> TRUE, groups |-> groups, threshold |-> threshold, body |-> body]
  /\ Memory
  /\ UNCHANGED <<dropped, cut>>

WriteFails ==
  /\ at = "write"
  /\ Memory
  /\ cut' = TRUE
  /\ UNCHANGED <<disk, dropped>>

Crash ==
  /\ at # "shell"
  /\ Memory
  /\ cut' = (cut \/ at = "write")
  /\ UNCHANGED <<disk, dropped>>

\* A step of UpdateMasterKeys or GetDataKey.
Call == (UpdateStep \/ GetStep) /\ UNCHANGED command

\* MaxSplits bounds the commands that wrap a data key, MaxGroups the groups they add.
\* After dropped errors the commands that do not authenticate the key they recover are
\* not followed further.
Begin ==
  \E s \in 0..MaxSvcs :
    \/ \E n \in 0..MaxKeys, ty \in KeyType, m \in 1..MaxGroups, t \in 0..MaxGroups :
         splits < MaxSplits /\ Encrypt(s, n, ty, m, t)
    \/ Load(s, "edit") \/ Load(s, "decrypt")
    \/ splits < MaxSplits /\ Load(s, "rotate")
    \/ \E c \in {"updatekeys", "groups add", "groups delete"} :
         /\ splits < MaxSplits /\ ~dropped
         /\ c = "groups add" => Len(disk.groups) < MaxGroups
         /\ Load(s, c)

Command ==
  \/ UpdateKeysUnchanged \/ GetKey \/ GetFails
  \/ Edit \/ Decrypt \/ RotateBegin \/ RotateEnd
  \/ \E ty \in KeyType : RotateAdd(ty)
  \/ \E i \in DOMAIN groups : \E j \in DOMAIN groups[i] : RotateRemove(i, j)
  \/ \E n \in 0..MaxKeys, ty \in KeyType, m \in 1..MaxGroups, t \in 0..MaxGroups :
       UpdateKeys(n, ty, m, t)
  \/ \E n \in 0..MaxKeys, ty \in KeyType, t \in 0..MaxGroups : GroupsAdd(n, ty, t)
  \/ \E i \in DOMAIN groups, t \in 0..MaxGroups : GroupsDelete(i, t)
  \/ \E key \in DataKey : Wrap(key)
  \/ WrapFails \/ WrapDone \/ EmitFails \/ Create \/ Write \/ WriteFails

FileInit ==
  /\ Init
  /\ disk = Plain /\ name = "none" /\ at = "shell" /\ svcs = 0 /\ body = NoKey
  /\ dropped = FALSE /\ cut = FALSE

FileNext == Begin \/ LoadFails \/ Call \/ Command \/ Crash

FileSpec == FileInit /\ [][FileNext]_fileVars

-----------------------------------------------------------------------------
(***************************************************************************)
(* Properties                                                              *)
(***************************************************************************)
FileTypeOK ==
  /\ TypeOK
  /\ disk \in File
  /\ name \in Names \cup {"none"}
  /\ at \in At /\ svcs \in Nat
  /\ body \in DataKey \cup {NoKey}
  /\ dropped \in BOOLEAN /\ cut \in BOOLEAN

OnDisk == INSTANCE KeyWrap WITH groups <- disk.groups, threshold <- disk.threshold

\* Whatever command wrote the file, and whatever failed or was killed before, its key
\* groups hold the data key its values are encrypted with; only a command that drops
\* the errors of UpdateMasterKeys can write any other file.
FileReadable ==
  disk # Torn /\ disk # Plain /\ ~dropped => OnDisk!Sealed(disk.body)

\* The file is torn only while a command that has all of the new contents in memory
\* (values in plain text, or sealed by its key groups) is about to write them, or
\* after one was cut off right there.
TornOnlyWhileWriting ==
  disk = Torn /\ ~cut =>
    at = "write" /\ (dropped \/ (body = NoKey /\ groups = <<>>) \/ Sealed(body))

\* `We open the file *after* the operations on the tree have been executed to avoid
\* truncating it when there's errors': only a command whose calls succeeded touches
\* it, but for the groups commands, which take no notice of some of the errors.
FileKeptOnErrors ==
  [][disk' # disk => pc = "idle" /\ (ret.ok \/ name \in {"groups add", "groups delete"})]_fileVars

\* When rotate truncates the file it has wrapped a data key other than the file's.
RotateRenewsTheKey ==
  [][name = "rotate" /\ at = "emit" /\ disk' = Torn =>
       Sealed(body) /\ body # disk.body]_fileVars

\* `KeyGroup is a slice of SOPS MasterKeys that all encrypt the same part of the data key'
GroupsHoldOnePart ==
  \A i \in DOMAIN disk.groups :
    \A j, k \in DOMAIN disk.groups[i] :
      /\ disk.groups[i][j].enc # NoPart
      /\ disk.groups[i][j].enc = disk.groups[i][k].enc
=============================================================================
