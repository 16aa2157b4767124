------------------------------ MODULE KeyWrap ------------------------------
(***************************************************************************)
(* Wrapping and unwrapping of a file's data key (sops.go).                 *)
(*                                                                         *)
(* The Metadata of a file holds key groups; every master key of a group    *)
(* keeps an encrypted copy of the group's part of the data key: the whole  *)
(* data key when there is one group, a Shamir share of it when there are   *)
(* more.  UpdateMasterKeysCtxWithKeyServices writes those parts, one call  *)
(* of a key service at a time, and GetDataKeyCtxWithKeyServices reads      *)
(* them back.  Between two calls the caller may edit the key groups.       *)
(*                                                                         *)
(* A call runs step by step: a key service may answer or fail at each      *)
(* call, and the context may be cancelled between any two steps.           *)
(***************************************************************************)
EXTENDS Integers, Sequences, FiniteSets

CONSTANTS
  DataKey,          \* the data keys
  KeyType,          \* the types of master keys (age, pgp, kms, ...)
  DecryptionOrder,  \* the types in the order decryption tries them
  NoKey,            \* no data key (nil), or a call that returned an error
  Garbage,          \* bytes that are no data key: what Combine makes of the wrong shares
  NoPart,           \* no encrypted data key
  MaxShares,        \* the most parts shamir.Split makes (255 in the code)
  MaxGroups,        \* bound on key groups
  MaxKeys,          \* bound on the keys of a group
  MaxSvcs,          \* bound on the key services of a call
  MaxSplits         \* bound on the Shamir splits of a behaviour

ASSUME KeyWrapAssumption ==
  /\ NoKey \notin DataKey /\ Garbage \notin DataKey /\ NoKey # Garbage
  /\ DecryptionOrder \in Seq(KeyType)
  /\ MaxShares \in Nat /\ MaxGroups \in Nat /\ MaxKeys \in Nat
  /\ MaxSvcs \in Nat /\ MaxSplits \in Nat

(***************************************************************************)
(* A part of a data key.  split = 0 is the whole key; otherwise it is the  *)
(* share at x of that split, which takes `need' shares to combine.         *)
(***************************************************************************)
Part == [key : DataKey, split : Nat, need : Nat, x : Nat]

ASSUME NoPartAssumption == NoPart \notin Part

MasterKey == [type : KeyType, enc : Part \cup {NoPart}]

Fresh(t) == [type |-> t, enc |-> NoPart]

SetEncryptedDataKey(gs, i, j, part) ==
  [gs EXCEPT ![i] = [gs[i] EXCEPT ![j] = [type |-> gs[i][j].type, enc |-> part]]]

VARIABLES
  groups,     \* Metadata.KeyGroups: a sequence of sequences of master keys
  threshold,  \* Metadata.ShamirThreshold
  dataKey,    \* Metadata.DataKey, the cached data key
  splits,     \* how many times a data key has been split
  ctxDone,    \* the context of the running call is cancelled
  pc,         \* where the running call is
  loc,        \* its local variables
  ret         \* what the last call returned

meta == <<groups, threshold, dataKey>>
vars == <<groups, threshold, dataKey, splits, ctxDone, pc, loc, ret>>

PC == {"idle", "upd.group", "upd.key", "upd.svc",
       "get.group", "get.key", "get.svc"}

(***************************************************************************)
(* svcs is the number of key services the call was given; g, k and s are   *)
(* its positions in the loops over key groups, keys and key services.  An  *)
(* update knows the data key to wrap and whether some key could not be     *)
(* encrypted; a recovery knows the keys that have failed, as pairs of      *)
(* group and key, and the part it has obtained from each group.            *)
(***************************************************************************)
Locals == [svcs : Nat, g : Nat, k : Nat, s : Nat, newKey : DataKey \cup {NoKey},
           errs : BOOLEAN, failed : SUBSET (Nat \X Nat),
           parts : Seq(Part \cup {NoPart})]

NoLocals == [svcs |-> 0, g |-> 1, k |-> 1, s |-> 1, newKey |-> NoKey,
             errs |-> FALSE, failed |-> {}, parts |-> <<>>]

\* A recovery also says how it ended and which groups gave a part.
Returns == [call : {"none", "update", "get"}, ok : BOOLEAN,
            key : DataKey \cup {NoKey, Garbage},
            why : {"none", "cancelled", "cached", "parts"}, answered : SUBSET Nat]

NoRet == [call |-> "none", ok |-> FALSE, key |-> NoKey, why |-> "none", answered |-> {}]

(***************************************************************************)
(* Shamir secret sharing as the callers see it.                            *)
(***************************************************************************)
SplitFails(n, t) == n < t \/ n > MaxShares \/ t < 2 \/ t > MaxShares

PartFor(key, split, i) ==
  IF Len(groups) = 1
  THEN [key |-> key, split |-> 0, need |-> 1, x |-> 0]
  ELSE [key |-> key, split |-> split, need |-> threshold, x |-> i]

Answered(ps) == {i \in DOMAIN ps : ps[i] # NoPart}

\* Shares are one byte longer than the data key; the last byte is the x coordinate.
SameLength(p, q) == (p.split = 0) <=> (q.split = 0)
SameX(p, q) == IF p.split = 0 THEN p.key = q.key ELSE p.x = q.x

CombineRefuses(ps) ==
  \/ Cardinality(Answered(ps)) < 2
  \/ \E i, j \in Answered(ps) : ~SameLength(ps[i], ps[j])
  \/ \E i, j \in Answered(ps) : i # j /\ SameX(ps[i], ps[j])

\* The shares lie on one polynomial, and there are enough of them to know it.
OnePolynomial(ps, key) ==
  \A i \in Answered(ps) :
    /\ ps[i].key = key
    /\ ps[i].split # 0
    /\ Cardinality(Answered(ps)) >= ps[i].need
    /\ \A j \in Answered(ps) : ps[i].split = ps[j].split

Combine(ps) ==
  IF CombineRefuses(ps) THEN NoKey
  ELSE IF \E key \in DataKey : OnePolynomial(ps, key)
       THEN CHOOSE key \in DataKey : OnePolynomial(ps, key)
       ELSE Garbage

(***************************************************************************)
(* The order in which the keys of a group are tried: by the last position  *)
(* of their type in DecryptionOrder, types it does not name last, and keys *)
(* of equal priority as they stand in the group.                           *)
(***************************************************************************)
Places(t) == {i \in 1..Len(DecryptionOrder) : DecryptionOrder[i] = t}
Priority(t) ==
  IF Places(t) = {} THEN Len(DecryptionOrder) + 1
  ELSE CHOOSE i \in Places(t) : \A j \in Places(t) : j <= i

Before(group, i, j) ==
  LET p == Priority(group[i].type)
      q == Priority(group[j].type)
  IN p < q \/ (p = q /\ i < j)

-----------------------------------------------------------------------------
(***************************************************************************)
(* UpdateMasterKeysCtxWithKeyServices                                      *)
(***************************************************************************)
Quorum == IF Len(groups) > 1 /\ threshold = 0 THEN Len(groups) ELSE threshold

UpdateReturns(key, ok) ==
  /\ pc' = "idle" /\ ctxDone' = FALSE /\ loc' = NoLocals
  /\ ret' = [NoRet EXCEPT !.call = "update", !.ok = ok, !.key = key]

\* The checks before the loops refuse the call; a split that fails has set the threshold.
UpdateRejected(key, n, cancelled) ==
  /\ pc = "idle"
  /\ \/ /\ cancelled \/ n = 0 \/ groups = <<>>
        /\ UNCHANGED threshold
     \/ /\ ~cancelled /\ n > 0 /\ Len(groups) > 1
        /\ SplitFails(Len(groups), Quorum)
        /\ threshold' = Quorum
  /\ UpdateReturns(key, FALSE)
  /\ UNCHANGED <<groups, dataKey, splits>>

UpdateStart(key, n) ==
  /\ pc = "idle"
  /\ n > 0
  /\ groups # <<>>
  /\ Len(groups) > 1 => ~SplitFails(Len(groups), Quorum) /\ splits < MaxSplits
  /\ threshold' = Quorum
  /\ splits' = IF Len(groups) > 1 THEN splits + 1 ELSE splits
  /\ pc' = "upd.group"
  /\ loc' = [NoLocals EXCEPT !.newKey = key, !.svcs = n]
  /\ ret' = NoRet
  /\ UNCHANGED <<groups, dataKey, ctxDone>>

UpdateEnterGroup ==
  /\ pc = "upd.group"
  /\ loc.g <= Len(groups)
  /\ groups[loc.g] # <<>>
  /\ pc' = "upd.key" /\ loc' = [loc EXCEPT !.k = 1]
  /\ UNCHANGED <<meta, splits, ctxDone, ret>>

\* An empty group ends the call, whatever was written for the groups before it.
UpdateEmptyGroup ==
  /\ pc = "upd.group"
  /\ loc.g <= Len(groups)
  /\ groups[loc.g] = <<>>
  /\ UpdateReturns(loc.newKey, FALSE)
  /\ UNCHANGED <<meta, splits>>

UpdateCancelled ==
  /\ pc = "upd.key"
  /\ loc.k <= Len(groups[loc.g])
  /\ ctxDone
  /\ UpdateReturns(loc.newKey, FALSE)
  /\ UNCHANGED <<meta, splits>>

UpdateEnterKey ==
  /\ pc = "upd.key"
  /\ loc.k <= Len(groups[loc.g])
  /\ ~ctxDone
  /\ pc' = "upd.svc" /\ loc' = [loc EXCEPT !.s = 1]
  /\ UNCHANGED <<meta, splits, ctxDone, ret>>

\* svc.Encrypt succeeds: the key takes the ciphertext and the other services are not asked.
UpdateEncrypted ==
  /\ pc = "upd.svc"
  /\ groups' = SetEncryptedDataKey(groups, loc.g, loc.k, PartFor(loc.newKey, splits, loc.g))
  /\ pc' = "upd.key" /\ loc' = [loc EXCEPT !.k = @ + 1]
  /\ UNCHANGED <<threshold, dataKey, splits, ctxDone, ret>>

\* Mistake: the last failure is not reported.
UpdateFailureUnreported ==
  /\ pc = "upd.svc"
  /\ \/ loc.s < loc.svcs /\ loc' = [loc EXCEPT !.s = @ + 1] /\ UNCHANGED pc
     \/ loc.s >= loc.svcs /\ loc' = [loc EXCEPT !.k = @ + 1] /\ pc' = "upd.key"
  /\ UNCHANGED <<meta, splits, ctxDone, ret>>

\* svc.Encrypt fails: the next service is asked; after the last one the key
\* keeps what it held and the loop goes on to the next key.
UpdateEncryptFailed ==
  /\ pc = "upd.svc"
  /\ \/ /\ loc.s < loc.svcs
        /\ loc' = [loc EXCEPT !.s = @ + 1]
        /\ UNCHANGED pc
     \/ /\ loc.s >= loc.svcs
        /\ loc' = [loc EXCEPT !.k = @ + 1, !.errs = TRUE]
        /\ pc' = "upd.key"
  /\ UNCHANGED <<meta, splits, ctxDone, ret>>

UpdateLeaveGroup ==
  /\ pc = "upd.key"
  /\ loc.k > Len(groups[loc.g])
  /\ pc' = "upd.group" /\ loc' = [loc EXCEPT !.g = @ + 1]
  /\ UNCHANGED <<meta, splits, ctxDone, ret>>

\* Mistake: the errors gathered in the loops are not returned.
UpdateDoneErrorsDropped ==
  /\ pc = "upd.group" /\ loc.g > Len(groups)
  /\ dataKey' = loc.newKey
  /\ UpdateReturns(loc.newKey, TRUE)
  /\ UNCHANGED <<groups, threshold, splits>>

\* The data key is cached even when some of the keys could not be encrypted.
UpdateDone ==
  /\ pc = "upd.group"
  /\ loc.g > Len(groups)
  /\ dataKey' = loc.newKey
  /\ UpdateReturns(loc.newKey, ~loc.errs)
  /\ UNCHANGED <<groups, threshold, splits>>

UpdateStep ==
  \/ UpdateEnterGroup \/ UpdateEmptyGroup \/ UpdateCancelled \/ UpdateEnterKey
  \/ UpdateEncrypted \/ UpdateEncryptFailed \/ UpdateLeaveGroup \/ UpdateDone

-----------------------------------------------------------------------------
(***************************************************************************)
(* GetDataKeyCtxWithKeyServices                                            *)
(***************************************************************************)
GetReturns(key, why, answered) ==
  /\ pc' = "idle" /\ ctxDone' = FALSE /\ loc' = NoLocals
  /\ ret' = [call |-> "get", ok |-> key # NoKey, key |-> key, why |-> why,
             answered |-> answered]

GetRejected ==
  /\ pc = "idle"
  /\ GetReturns(NoKey, "cancelled", {})
  /\ UNCHANGED <<meta, splits>>

GetCached ==
  /\ pc = "idle"
  /\ dataKey # NoKey
  /\ GetReturns(dataKey, "cached", {})
  /\ UNCHANGED <<meta, splits>>

GetStart(n) ==
  /\ pc = "idle"
  /\ dataKey = NoKey
  /\ pc' = "get.group"
  /\ loc' = [NoLocals EXCEPT !.svcs = n, !.parts = [i \in 1..Len(groups) |-> NoPart]]
  /\ ret' = NoRet
  /\ UNCHANGED <<meta, splits, ctxDone>>

GetCancelled ==
  /\ pc = "get.group"
  /\ loc.g <= Len(groups)
  /\ ctxDone
  /\ GetReturns(NoKey, "cancelled", Answered(loc.parts))
  /\ UNCHANGED <<meta, splits>>

GetEnterGroup ==
  /\ pc = "get.group"
  /\ loc.g <= Len(groups)
  /\ ~ctxDone
  /\ pc' = "get.key"
  /\ UNCHANGED <<meta, splits, ctxDone, loc, ret>>

Untried == {j \in 1..Len(groups[loc.g]) : <<loc.g, j>> \notin loc.failed}

\* Mistake: keys are taken in any order.
GetEnterAnyKey(j) ==
  /\ pc = "get.key" /\ ~ctxDone /\ j \in Untried
  /\ pc' = "get.svc" /\ loc' = [loc EXCEPT !.k = j, !.s = 1]
  /\ UNCHANGED <<meta, splits, ctxDone, ret>>

\* decryptKeyGroupCtx takes the next key of the group in decryption order.
GetEnterKey(j) ==
  /\ pc = "get.key"
  /\ ~ctxDone
  /\ j \in Untried
  /\ \A i \in Untried : i = j \/ Before(groups[loc.g], j, i)
  /\ pc' = "get.svc" /\ loc' = [loc EXCEPT !.k = j, !.s = 1]
  /\ UNCHANGED <<meta, splits, ctxDone, ret>>

\* Every key of the group has failed, or the context is cancelled: no part from this group.
GetLeaveGroup ==
  /\ pc = "get.key"
  /\ Untried = {} \/ ctxDone
  /\ pc' = "get.group" /\ loc' = [loc EXCEPT !.g = @ + 1]
  /\ UNCHANGED <<meta, splits, ctxDone, ret>>

\* Mistake: the loop over groups is not left after the part was found.
GetDecryptedStays ==
  /\ pc = "get.svc" /\ loc.s <= loc.svcs
  /\ groups[loc.g][loc.k].enc # NoPart
  /\ pc' = "get.group"
  /\ loc' = [loc EXCEPT !.parts = [loc.parts EXCEPT ![loc.g] = groups[loc.g][loc.k].enc]]
  /\ UNCHANGED <<meta, splits, ctxDone, ret>>

\* svc.Decrypt succeeds: the group has its part and its other keys are not tried.
GetDecrypted ==
  /\ pc = "get.svc"
  /\ loc.s <= loc.svcs
  /\ groups[loc.g][loc.k].enc # NoPart
  /\ pc' = "get.group"
  /\ loc' = [loc EXCEPT !.parts = [loc.parts EXCEPT ![loc.g] = groups[loc.g][loc.k].enc],
                        !.g = @ + 1]
  /\ UNCHANGED <<meta, splits, ctxDone, ret>>

GetDecryptFailed ==
  /\ pc = "get.svc"
  /\ loc.s <= loc.svcs
  /\ loc' = [loc EXCEPT !.s = @ + 1]
  /\ UNCHANGED <<meta, splits, ctxDone, pc, ret>>

\* Mistake: a key that failed is tried again.
GetKeyForgotten ==
  /\ pc = "get.svc" /\ loc.s > loc.svcs
  /\ pc' = "get.key"
  /\ UNCHANGED <<meta, splits, ctxDone, loc, ret>>

GetKeyFailed ==
  /\ pc = "get.svc"
  /\ loc.s > loc.svcs
  /\ pc' = "get.key" /\ loc' = [loc EXCEPT !.failed = @ \cup {<<loc.g, loc.k>>}]
  /\ UNCHANGED <<meta, splits, ctxDone, ret>>

\* Mistake: the part is taken for a data key without looking at it.
PartAsKey(part) == IF part.split = 0 THEN part.key ELSE part

\* A lone group's part is the data key as it is, whatever its bytes are.
WholeKey(part) == IF part.split = 0 THEN part.key ELSE Garbage

\* Mistake: the quorum is not checked, and checked off by one.
RecoveredWithoutQuorum ==
  IF Len(groups) > 1 THEN Combine(loc.parts)
  ELSE IF Answered(loc.parts) = {} THEN NoKey ELSE WholeKey(loc.parts[1])
RecoveredAboveQuorum ==
  IF Len(groups) > 1
  THEN IF Cardinality(Answered(loc.parts)) <= threshold THEN NoKey ELSE Combine(loc.parts)
  ELSE IF Answered(loc.parts) = {} THEN NoKey ELSE WholeKey(loc.parts[1])

Recovered ==
  IF Len(groups) > 1
  THEN IF Cardinality(Answered(loc.parts)) < threshold THEN NoKey ELSE Combine(loc.parts)
  ELSE IF Answered(loc.parts) = {} THEN NoKey ELSE WholeKey(loc.parts[1])

GetDone ==
  /\ pc = "get.group"
  /\ loc.g > Len(groups)
  /\ IF Recovered = NoKey THEN UNCHANGED dataKey ELSE dataKey' = Recovered
  /\ GetReturns(Recovered, "parts", Answered(loc.parts))
  /\ UNCHANGED <<groups, threshold, splits>>

GetStep ==
  \/ GetCancelled \/ GetEnterGroup \/ (\E j \in 1..MaxKeys : GetEnterKey(j))
  \/ GetLeaveGroup \/ GetDecrypted \/ GetDecryptFailed \/ GetKeyFailed \/ GetDone

-----------------------------------------------------------------------------
(***************************************************************************)
(* What callers do to the Metadata between two calls: `groups add',        *)
(* `groups delete', `rotate --add-*' and `--rm-*', and reading the file    *)
(* back, which leaves the cached data key behind.                          *)
(***************************************************************************)
CallerEdits(gs, t) ==
  /\ pc = "idle"
  /\ groups' = gs
  /\ threshold' = IF t = 0 THEN threshold ELSE t
  /\ ret' = NoRet
  /\ UNCHANGED <<dataKey, splits, ctxDone, pc, loc>>

\* append(s[:i], s[i+1:]...)
Without(seq, i) == [j \in 1..(Len(seq) - 1) |-> IF j < i THEN seq[j] ELSE seq[j + 1]]

AddGroup(n, ty, t) ==
  /\ Len(groups) < MaxGroups
  /\ CallerEdits(Append(groups, [i \in 1..n |-> Fresh(ty)]), t)

DeleteGroup(i, t) == CallerEdits(Without(groups, i), t)

AddKey(i, ty) ==
  /\ Len(groups[i]) < MaxKeys
  /\ CallerEdits([groups EXCEPT ![i] = Append(@, Fresh(ty))], 0)

RemoveKey(i, j) == CallerEdits([groups EXCEPT ![i] = Without(@, j)], 0)

Reload ==
  /\ pc = "idle"
  /\ dataKey' = NoKey
  /\ ret' = NoRet
  /\ UNCHANGED <<groups, threshold, splits, ctxDone, pc, loc>>

Cancel ==
  /\ pc # "idle"
  /\ ~ctxDone
  /\ ctxDone' = TRUE
  /\ UNCHANGED <<meta, splits, pc, loc, ret>>

Caller ==
  \/ \E n \in 0..MaxKeys, ty \in KeyType, t \in 0..MaxGroups : AddGroup(n, ty, t)
  \/ \E i \in DOMAIN groups, t \in 0..MaxGroups : DeleteGroup(i, t)
  \/ \E i \in DOMAIN groups, ty \in KeyType : AddKey(i, ty)
  \/ \E i \in DOMAIN groups : \E j \in DOMAIN groups[i] : RemoveKey(i, j)
  \/ Reload
  \/ \E key \in DataKey, n \in 0..MaxSvcs, c \in BOOLEAN : UpdateRejected(key, n, c)
  \/ \E key \in DataKey, n \in 1..MaxSvcs : UpdateStart(key, n)
  \/ GetRejected
  \/ GetCached
  \/ \E n \in 0..MaxSvcs : GetStart(n)

Init ==
  /\ groups = <<>> /\ threshold = 0 /\ dataKey = NoKey
  /\ splits = 0 /\ ctxDone = FALSE /\ pc = "idle"
  /\ loc = NoLocals /\ ret = NoRet

Next == Caller \/ UpdateStep \/ GetStep \/ Cancel

Spec == Init /\ [][Next]_vars

\* A call that has begun runs on: key services answer or fail, they do not hang.
FairSpec == Spec /\ WF_vars(UpdateStep) /\ WF_vars(GetStep)
-----------------------------------------------------------------------------
(***************************************************************************)
(* Properties                                                              *)
(***************************************************************************)
TypeOK ==
  /\ groups \in Seq(Seq(MasterKey))
  /\ threshold \in Nat
  /\ dataKey \in DataKey \cup {NoKey, Garbage}
  /\ splits \in Nat
  /\ ctxDone \in BOOLEAN
  /\ pc \in PC
  /\ loc \in Locals
  /\ ret \in Returns

\* Every master key of every group holds its group's part of this key, all of one split.
SealedBy(key, split) ==
  /\ groups # <<>>
  /\ \A i \in 1..Len(groups) :
       /\ groups[i] # <<>>
       /\ \A j \in 1..Len(groups[i]) : groups[i][j].enc = PartFor(key, split, i)
  /\ Len(groups) > 1 => split > 0 /\ threshold \in 2..Len(groups)

Sealed(key) == \E split \in 0..splits : SealedBy(key, split)

\* An UpdateMasterKeys call that reports no error has wrapped the data key with
\* every master key: all keys of a group hold the same part, the parts of the
\* groups come from one split, and nothing of an earlier data key is left over.
UpdateSeals == ret.call = "update" /\ ret.ok => Sealed(ret.key)

\* From metadata whose keys all hold parts of one data key, GetDataKey recovers
\* that data key or an error, whichever groups and keys answered.
RecoversTheSealedKey ==
  ret.call = "get" /\ ret.ok /\ ret.why = "parts" =>
    \A key \in DataKey : Sealed(key) => ret.key = key

\* A data key comes back only from a quorum of key groups (one group when there is
\* only one), and a quorum that answered is never turned into an error.
QuorumDecides ==
  ret.call = "get" /\ ret.why = "parts" /\ (\E key \in DataKey : Sealed(key)) =>
    (ret.ok <=> Cardinality(ret.answered) >= (IF Len(groups) > 1 THEN threshold ELSE 1))

\* A group is passed over only after each of its keys has failed (or the call was
\* cancelled), and a group's part comes from the first key in decryption order that
\* did not fail: one key that decrypts is enough for its group.
GroupAnswersByFirstGoodKey ==
  pc \in {"get.group", "get.key", "get.svc"} =>
    \A i \in 1..(loc.g - 1) :
      \/ ctxDone /\ loc.parts[i] = NoPart
      \/ /\ loc.parts[i] = NoPart
         /\ \A j \in 1..Len(groups[i]) : <<i, j>> \in loc.failed
      \/ \E j \in 1..Len(groups[i]) :
           /\ loc.parts[i] = groups[i][j].enc
           /\ \A m \in 1..Len(groups[i]) :
                m # j /\ Before(groups[i], m, j) => <<i, m>> \in loc.failed

\* What the loops have done so far, and what they have not touched yet: the groups
\* and keys behind an update without errors hold the new parts, the groups ahead of a
\* recovery have given none, and a key is tried only when all before it have failed.
\* UpdateSeals and GroupAnswersByFirstGoodKey rest on this.
Updating == pc \in {"upd.group", "upd.key", "upd.svc"}
Getting == pc \in {"get.group", "get.key", "get.svc"}

UpdateProgress ==
  Updating =>
    /\ loc.newKey \in DataKey
    /\ groups # <<>>
    /\ Len(groups) > 1 => splits > 0 /\ threshold \in 2..Len(groups)
    /\ loc.g \in 1..(Len(groups) + 1)
    /\ pc # "upd.group" => loc.g <= Len(groups) /\ groups[loc.g] # <<>>
                           /\ loc.k \in 1..(Len(groups[loc.g]) + 1)
    /\ pc = "upd.svc" => loc.k <= Len(groups[loc.g])
    /\ ~loc.errs =>
         /\ \A i \in 1..(loc.g - 1) :
              /\ groups[i] # <<>>
              /\ \A j \in 1..Len(groups[i]) : groups[i][j].enc = PartFor(loc.newKey, splits, i)
         /\ pc # "upd.group" =>
              \A j \in 1..(loc.k - 1) : groups[loc.g][j].enc = PartFor(loc.newKey, splits, loc.g)

GetProgress ==
  Getting =>
    /\ Len(loc.parts) = Len(groups)
    /\ loc.g \in 1..(Len(groups) + 1)
    /\ pc # "get.group" => loc.g <= Len(groups)
    /\ pc = "get.svc" => /\ loc.k \in Untried
                         /\ \A m \in 1..Len(groups[loc.g]) :
                              m # loc.k /\ Before(groups[loc.g], m, loc.k) =>
                                <<loc.g, m>> \in loc.failed
    /\ \A i \in loc.g..Len(groups) : loc.parts[i] = NoPart

LoopProgress == UpdateProgress /\ GetProgress

\* `Each group's keys are summed via Shamir secret sharing if ShamirThreshold > 0;
\* otherwise each key alone can decrypt' (encrypt.Options): with the threshold left
\* at zero, no more than one group is needed to recover the data key.
ThresholdZeroMeansAnyKey ==
  [][pc = "idle" /\ pc' = "upd.group" /\ threshold = 0 => threshold' <= 1]_vars

\* The data key the groups hold, NoKey when their parts do not fit together.
SealedKey ==
  IF \E key \in DataKey : Sealed(key) THEN CHOOSE key \in DataKey : Sealed(key) ELSE NoKey

Custody == INSTANCE KeyCustody WITH
  sealed <- SealedKey, sealing <- loc.newKey, cached <- dataKey,
  answer <- [call |-> ret.call, ok |-> ret.ok, key |-> ret.key]

\* Key groups, shares and key services together keep one data key: what a caller
\* sees of UpdateMasterKeys and GetDataKey is KeyCustody.
ImplementsCustody == Custody!Spec

\* Every call of UpdateMasterKeys or GetDataKey ends, cancelled or not.
CallsEnd == pc # "idle" ~> pc = "idle"
=============================================================================
