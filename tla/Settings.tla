------------------------------ MODULE Settings ------------------------------
(***************************************************************************)
(* The settings of an encrypted file: which of its values are sealed and   *)
(* for which master keys.  They come from the command line and from a rule *)
(* of the configuration (getEncryptConfig and keyGroups of                 *)
(* cmd/sops/main.go, config/config.go), are stored in the file, and are    *)
(* assumed by whoever reads it (stores/stores.go).                         *)
(*                                                                         *)
(* A selector is a function from a kind to a pattern, empty when none is   *)
(* given.  A master key is a record of its type, its name, and what else   *)
(* tells it from others of this name (the encryption context of a KMS key).*)
(***************************************************************************)
EXTENDS Integers, Sequences, SequencesExt, FiniteSets

CONSTANTS
  Matching,       \* of each pattern the names that it matches, or that are behind a comment
                  \* that it matches
  MasterKeys,     \* the master keys there are
  KeyGroups       \* the groups of keys that a configuration may write, with those they merge

DefaultSuffix == "_unencrypted"

\* A binary file is a single value, of this name.
Data == "data"

KeyTypes == {"kms", "gcp", "hckms", "azure", "vault", "pgp", "age"}

\* A group merges groups that are written inside of it.
ASSUME SettingsAssumption ==
  /\ DefaultSuffix \in DOMAIN Matching /\ Data \notin Matching[DefaultSuffix]
  /\ \A k \in MasterKeys : k.type \in KeyTypes
  /\ IsFiniteSet(KeyGroups)
  /\ \A g \in KeyGroups : g.keys \in Seq(MasterKeys) /\ g.merge \in Seq(KeyGroups)
  /\ \A some \in SUBSET KeyGroups : some # {} =>
       \E g \in some : ToSet(g.merge) \cap some = {}

Sealing == {"encrypted_suffix", "encrypted_regex", "encrypted_comment_regex"}
Sparing == {"unencrypted_suffix", "unencrypted_regex", "unencrypted_comment_regex"}
NoSelector == [k \in {} |-> DefaultSuffix]
Default == [k \in {"unencrypted_suffix"} |-> DefaultSuffix]

Many(selector) == Cardinality(DOMAIN selector) > 1

\* The names whose values a selector of one kind seals.
SealedBy(selector, names) ==
  {n \in names : \A k \in DOMAIN selector : n \in Matching[selector[k]] <=> k \in Sealing}

-----------------------------------------------------------------------------
(***************************************************************************)
(* Master keys                                                             *)
(***************************************************************************)
Of(group, type) ==
  LET of[n \in 0..Len(group)] ==
        IF n = 0 THEN <<>>
        ELSE IF group[n].type = type THEN Append(of[n - 1], group[n]) ELSE of[n - 1]
  IN of[Len(group)]
InOrder(group, types) == FlattenSeq([i \in DOMAIN types |-> Of(group, types[i])])

CliOrder == <<"kms", "gcp", "hckms", "azure", "pgp", "vault", "age">>
RuleOrder == <<"age", "pgp", "kms", "gcp", "hckms", "azure", "vault">>
StoredOrder == <<"kms", "gcp", "hckms", "azure", "vault", "pgp", "age">>

\* Mistake: keys are told apart by their strings alone.
deduplicateByName(group) ==
  FoldLeft(LAMBDA kept, k :
             IF \E i \in DOMAIN kept : kept[i].name = k.name /\ kept[i].with = k.with
             THEN kept ELSE Append(kept, k),
           <<>>, group)

\* "%T/%v": the type and the string of a key, the first of those that agree.
deduplicateKeygroup(group) ==
  LET kept[n \in 0..Len(group)] ==
        IF n = 0 THEN <<>>
        ELSE IF group[n] \in ToSet(kept[n - 1]) THEN kept[n - 1] ELSE Append(kept[n - 1], group[n])
  IN kept[Len(group)]

\* A group of key_groups and what it merges.
extractMasterKeys[group \in KeyGroups] ==
  LET merged == FlattenSeq([i \in DOMAIN group.merge |-> extractMasterKeys[group.merge[i]]])
  IN deduplicateKeygroup(merged \o InOrder(group.keys, RuleOrder))

\* key_groups win over the keys that stand in the rule itself, which make one group.
getKeyGroupsFromCreationRule(rule) ==
  IF rule.key_groups # <<>>
  THEN [i \in DOMAIN rule.key_groups |-> extractMasterKeys[rule.key_groups[i]]]
  ELSE <<InOrder(rule.flat, RuleOrder)>>

\* What UpdateMasterKeys and shamir.Split accept.
Wrappable(groups, threshold) ==
  /\ groups # <<>> /\ \A i \in DOMAIN groups : groups[i] # <<>>
  /\ Len(groups) > 1 => threshold \in {0} \cup 2..Len(groups)

-----------------------------------------------------------------------------
(***************************************************************************)
(* Rules                                                                   *)
(***************************************************************************)
Refused == [ok |-> FALSE]
NoConfig == [ok |-> TRUE, rules |-> FALSE]

configFromRule(rule) ==
  IF Many(rule.selector) THEN Refused
  ELSE [ok |-> TRUE, rules |-> TRUE, selector |-> rule.selector, macOnly |-> rule.macOnly,
        threshold |-> rule.threshold, groups |-> getKeyGroupsFromCreationRule(rule)]

Matches(rule, file) == rule.regex = "all" \/ (rule.regex = "valid" /\ file \in rule.files)

\* The first rule that matches; a regex that is invalid and stands before it is an error.
parseCreationRuleForFile(rules, file) ==
  LET stops == {i \in DOMAIN rules : rules[i].regex = "invalid" \/ Matches(rules[i], file)}
      first == CHOOSE i \in stops : \A j \in stops : i <= j
  IN CASE rules = <<>> -> NoConfig
       [] rules # <<>> /\ stops = {} -> Refused
       [] stops # {} /\ rules[first].regex = "invalid" -> Refused
       [] OTHER -> configFromRule(rules[first])

\* Of the destination rules the first that matches, where an invalid regex matches nothing.
parseDestinationRuleForFile(rules, file) ==
  LET found == {i \in DOMAIN rules : Matches(rules[i], file)}
      rule == rules[CHOOSE i \in found : \A j \in found : i <= j]
      conf == configFromRule(rule)
  IN IF found = {} \/ Cardinality(rule.destinations) > 1 \/ ~conf.ok THEN Refused
     ELSE [conf |-> conf, omit |-> rule.omit, destinations |-> rule.destinations, ok |-> TRUE]

-----------------------------------------------------------------------------
(***************************************************************************)
(* A new file                                                              *)
(***************************************************************************)
\* Keys of the command line, or the recipient of the default age identity, stand for all groups
\* of the configuration.
keyGroups(cli, conf) ==
  CASE cli.keys # <<>> -> <<InOrder(cli.keys, CliOrder)>>
    [] cli.keys = <<>> /\ conf.rules -> conf.groups
    [] OTHER -> <<>>

shamirThreshold(cli, conf) ==
  IF cli.threshold # 0 \/ ~conf.rules THEN cli.threshold ELSE conf.threshold

Settled(selector, macOnly, groups, threshold) ==
  [ok |-> TRUE, selector |-> selector, macOnly |-> macOnly, groups |-> groups,
   threshold |-> threshold]

IsSettings(s) == s = Settled(s.selector, s.macOnly, s.groups, s.threshold)

\* Mistake: the default is not written down.
getEncryptConfigNoDefault(cli, conf, single) ==
  LET selector == IF single THEN NoSelector
                  ELSE IF conf.rules THEN cli.selector @@ conf.selector ELSE cli.selector
  IN IF Many(selector) THEN Refused
     ELSE Settled(selector, cli.macOnly, keyGroups(cli, conf), shamirThreshold(cli, conf))

\* The command line wins kind by kind, so that two kinds may meet; a store of a single value
\* takes no selector at all.
getEncryptConfig(cli, conf, single) ==
  LET asked == IF conf.rules THEN cli.selector @@ conf.selector ELSE cli.selector
      selector == CASE single -> NoSelector
                    [] ~single /\ asked = NoSelector -> Default
                    [] OTHER -> asked
      macOnly == ~single /\ (cli.macOnly \/ (conf.rules /\ conf.macOnly))
  IN IF Many(selector) THEN Refused
     ELSE Settled(selector, macOnly, keyGroups(cli, conf), shamirThreshold(cli, conf))

-----------------------------------------------------------------------------
(***************************************************************************)
(* Other keys for a file                                                   *)
(***************************************************************************)
\* `for j, groupKey := range group' runs over the array and the length that the group has in
\* the beginning, while each removal moves the rest of the array down and makes the group
\* shorter.  To cut the group behind its end is a panic.  Keys are compared as strings, which are
\* never those of a key of another type.
Cut(w, j) ==
  [array |-> [i \in DOMAIN w.array |->
                IF i \in j..(w.size - 1) THEN w.array[i + 1] ELSE w.array[i]],
   size |-> w.size - 1, ok |-> j <= w.size]

RemoveMasterKey(group, key) ==
  LET scan[j \in 0..Len(group)] ==
        IF j = 0 THEN [array |-> group, size |-> Len(group), ok |-> TRUE]
        ELSE IF scan[j - 1].ok /\ scan[j - 1].array[j] = key THEN Cut(scan[j - 1], j) ELSE scan[j - 1]
      end == scan[Len(group)]
  IN [ok |-> end.ok, keys |-> IF end.ok THEN SubSeq(end.array, 1, end.size) ELSE <<>>]

\* Mistake: only the first group is searched.
RemovedFromFirst(groups, key) ==
  LET first == RemoveMasterKey(groups[1], key)
  IN [ok |-> first.ok, groups |-> [groups EXCEPT ![1] = first.keys]]

RemovedFromAll(groups, key) ==
  LET scanned == [i \in DOMAIN groups |-> RemoveMasterKey(groups[i], key)]
  IN [ok |-> \A i \in DOMAIN scanned : scanned[i].ok,
      groups |-> [i \in DOMAIN scanned |-> scanned[i].keys]]

\* --add-* goes to the end of the first group, whether the key is there or not; --rm-* is taken
\* out of all groups.
rotate(settings, add, remove) ==
  LET given == [settings.groups EXCEPT ![1] = @ \o add]
      removed[n \in 0..Len(remove)] ==
        IF n = 0 THEN [ok |-> TRUE, groups |-> given]
        ELSE IF removed[n - 1].ok THEN RemovedFromAll(removed[n - 1].groups, remove[n]) ELSE removed[n - 1]
      end == removed[Len(remove)]
  IN IF end.ok THEN [settings EXCEPT !.groups = end.groups] ELSE Refused

-----------------------------------------------------------------------------
(***************************************************************************)
(* The file and its reader                                                 *)
(***************************************************************************)
\* EncryptTree and EmitEncryptedFile with these settings: what the file says and what it seals.
\* One group is stored as flat lists of keys, several as key_groups.
Encrypted(settings, names, by) ==
  [form |-> "sealed", names |-> names, by |-> by, settings |-> settings,
   sealed |-> SealedBy(settings.selector, names)]

internalGroupFrom(group) == InOrder(group, StoredOrder)

\* Whoever reads a file without a selector assumes the default.
ToInternal(file) ==
  LET s == file.settings IN
    IF Many(s.selector) THEN Refused
    ELSE Settled(IF s.selector = NoSelector THEN Default ELSE s.selector, s.macOnly,
                 [i \in DOMAIN s.groups |-> internalGroupFrom(s.groups[i])], s.threshold)

\* Reader and writer take the same values for sealed: otherwise a value in the clear is not a
\* ciphertext, or the MAC differs.
Readable(file) == ToInternal(file).ok /\ SealedBy(ToInternal(file).selector, file.names) = file.sealed
=============================================================================
