------------------------------- MODULE Publish -------------------------------
(***************************************************************************)
(* Files are made by `sops encrypt', by the package encrypt or by the      *)
(* recreation rules of `sops publish', get other master keys from `sops    *)
(* rotate', and are read by anyone (cmd/sops/encrypt.go, rotate.go,        *)
(* encrypt/*.go, cmd/sops/subcommand/publish, publish/*.go).  publish      *)
(* walks over the files of a directory; beside it, other sops processes    *)
(* rewrite them in place.                                                  *)
(***************************************************************************)
EXTENDS Settings

CONSTANT
  Jobs            \* what the user asks for

Plain == [form |-> "plain"]
Gone == [form |-> "gone"]

Unsettled(c) ==
  \/ c.settings.selector = NoSelector /\ c.names \cap Matching[DefaultSuffix] # {}
  \/ Many(c.settings.selector)

\* The reader of a file takes for sealed what its writer did.  Only publish and the package
\* encrypt, which write no default suffix (and, the package, any number of selectors), make
\* files whose reader takes a value for clear that is sealed.
Opens(c) == Readable(c) \/ (c.by \in {"publish", "package"} /\ Unsettled(c))

\* The value of a binary file is sealed by the command encrypt, whatever the rules say.
SealsBinary(c) == c.by = "encrypt" /\ c.names = {Data} => c.sealed = c.names

\* The files that are there in the beginning are of the same writers in earlier runs, where
\* "encrypt" and "publish" are those of this run only; a directory is published with --recursive.
ASSUME JobsAssumption ==
  \A j \in Jobs :
    /\ j.files \in Seq(ToSet(j.files)) /\ j.files # <<>>
    /\ \A f \in DOMAIN j.files :
         LET c == j.files[f].holds IN
           c.form = "sealed" =>
             /\ IsSettings(c.settings) /\ Opens(c) /\ SealsBinary(c)
             /\ c.by \notin {"encrypt", "publish"}
             /\ Wrappable(c.settings.groups, c.settings.threshold)
             /\ c.settings.groups \in Seq(Seq(MasterKeys))
    /\ j.op \in {"encrypt", "package", "same", "rotate", "publish"}
    /\ j.op \in {"encrypt", "publish"} =>
         /\ j.rules \in Seq(ToSet(j.rules))
         /\ \A i \in DOMAIN j.rules :
              j.rules[i].flat \in Seq(MasterKeys) /\ j.rules[i].key_groups \in Seq(KeyGroups)
    /\ j.op = "encrypt" => j.cli.keys \in Seq(MasterKeys)
    /\ j.op = "package" => IsSettings(j.options)
    /\ j.op = "same" => IsSettings(j.reference.settings)
    /\ j.op = "rotate" => /\ j.files[1].holds.form = "sealed" /\ ToInternal(j.files[1].holds).ok
                          /\ j.add \in Seq(MasterKeys) /\ j.remove \in Seq(MasterKeys)
    /\ j.op = "publish" => (j.named # 0 \/ ~j.recursive => Len(j.files) = 1)

VARIABLES
  job,            \* what was asked
  disk,           \* of each file what it holds
  shelf,          \* of each name at the destination what was uploaded
  step,           \* where the command is
  walk,           \* the files still to be published
  loaded,         \* the file as LoadEncryptedFile read it
  body,           \* what will be uploaded
  agreed,         \* the files whose publication was agreed to
  rewritten,      \* another process has written the file since it was loaded
  error           \* the command returns an error

publishVars == <<job, disk, shelf, step, walk, loaded, body, agreed, rewritten, error>>

\* The files come in the order of filepath.Walk.
This == walk[1]

PublishOver == step \in {"over", "failed"}
StepTo(next) == step' = next /\ UNCHANGED error
Fail == step' = "failed" /\ error' = TRUE

-----------------------------------------------------------------------------
(***************************************************************************)
(* Making a file                                                           *)
(***************************************************************************)
Single(j) == j.files[1].names = {Data}

\* What the command or the package is asked for, as settings.
SettingsOf(j) ==
  LET conf == parseCreationRuleForFile(j.rules, 1) IN
  CASE j.op = "encrypt" -> IF conf.ok THEN getEncryptConfig(j.cli, conf, Single(j)) ELSE Refused
    [] j.op = "package" -> j.options
    [] j.op = "same"    -> ToInternal(j.reference)
    [] j.op = "rotate"  -> rotate(ToInternal(j.files[1].holds), j.add, j.remove)

\* `sops encrypt', DataWithFormat, UsingSameKeysAs, which takes the settings of another file as
\* its reader sees them, and `sops rotate', which decrypts the file, with its MAC, and keeps its
\* settings but for the keys.  All of them may also fail, at a key service or a value.
Encrypt ==
  /\ step = "encrypt"
  /\ \/ LET settings == SettingsOf(job) IN
          /\ job.op = "rotate" => Readable(job.files[1].holds)
          /\ settings.ok /\ Wrappable(settings.groups, settings.threshold)
          /\ disk' = [disk EXCEPT ![1] = Encrypted(settings, job.files[1].names, job.op)]
          /\ StepTo("over")
     \/ Fail /\ UNCHANGED disk
  /\ UNCHANGED <<job, shelf, walk, loaded, body, agreed, rewritten>>

-----------------------------------------------------------------------------
(***************************************************************************)
(* Publishing files                                                        *)
(***************************************************************************)
Rule(f) == parseDestinationRuleForFile(job.rules, f)
ToBucket(f) == Rule(f).destinations \subseteq {"s3", "gcs"}

\* Mistake: with --recursive the last component too.
DestinationBase(f) ==
  LET bare == job.omit \/ Rule(f).omit
  IN <<"", job.files[f].base, IF bare THEN "" ELSE job.files[f].ext>>

\* The path below the directory that was named, which for a file named itself is "."; without
\* --recursive the last component.
DestinationName(f) ==
  LET bare == job.omit \/ Rule(f).omit
  IN CASE job.named = f /\ job.recursive -> <<".">>
       [] OTHER -> <<IF job.recursive THEN job.files[f].dir ELSE "", job.files[f].base,
                     IF bare THEN "" ELSE job.files[f].ext>>

\* Mistake: a file that is not encrypted anew need not be an encrypted one.
LoadsRaw(rule) ==
  /\ rule.ok /\ rule.destinations # {}
  /\ \/ disk[This].form = "sealed" /\ ToInternal(disk[This]).ok
     \/ rule.destinations = {"s3"} /\ rule.conf.groups[1] = <<>> /\ disk[This] # Gone

\* It has a rule, a destination, and is an encrypted file.
Loads(rule) ==
  /\ rule.ok /\ rule.destinations # {}
  /\ disk[This].form = "sealed" /\ ToInternal(disk[This]).ok

LoadEncryptedFile ==
  /\ step = "load" /\ walk # <<>>
  /\ IF Loads(Rule(This))
     THEN StepTo("prepare") /\ loaded' = disk[This] /\ rewritten' = FALSE
     ELSE Fail /\ UNCHANGED <<loaded, rewritten>>
  /\ UNCHANGED <<job, disk, shelf, walk, body, agreed>>

\* The new metadata have of the selectors only the suffixes, and no mac_only_encrypted.
Recreated(conf) ==
  LET suffixes == DOMAIN conf.selector \cap {"unencrypted_suffix", "encrypted_suffix"}
  IN Settled([k \in suffixes |-> conf.selector[k]], FALSE, conf.groups, conf.threshold)

Prepares(outcome) == StepTo("ask") /\ body' = outcome

\* If the first group of the rule has keys: DecryptTree, whose MAC check a file passes that its
\* reader understands, and EncryptTree.
Reencrypt ==
  /\ step = "prepare" /\ ToBucket(This) /\ Rule(This).conf.groups[1] # <<>>
  /\ LET settings == Recreated(Rule(This).conf) IN
       \/ /\ Readable(loaded) /\ Wrappable(settings.groups, settings.threshold)
          /\ Prepares(Encrypted(settings, loaded.names, "publish"))
       \/ Fail /\ UNCHANGED body
  /\ UNCHANGED <<job, disk, shelf, walk, loaded, agreed, rewritten>>

\* If not, the bytes of the file, which is read a second time.
ReadAgain ==
  /\ step = "prepare" /\ ToBucket(This) /\ Rule(This).conf.groups[1] = <<>>
  /\ IF disk[This] = Gone THEN Fail /\ UNCHANGED body ELSE Prepares(disk[This])
  /\ UNCHANGED <<job, disk, shelf, walk, loaded, agreed, rewritten>>

\* Vault gets the values in the clear.
EmitAsMap ==
  /\ step = "prepare" /\ ~ToBucket(This)
  /\ \/ Readable(loaded) /\ Prepares(Plain)
     \/ Fail /\ UNCHANGED body
  /\ UNCHANGED <<job, disk, shelf, walk, loaded, agreed, rewritten>>

\* y and n; what Scanln takes for an error ends it.
Ask ==
  /\ step = "ask"
  /\ IF job.yes THEN StepTo("upload") /\ agreed' = agreed \cup {This} /\ UNCHANGED walk
     ELSE \/ StepTo("upload") /\ agreed' = agreed \cup {This} /\ UNCHANGED walk
          \/ /\ IF job.recursive THEN StepTo("load") /\ walk' = Tail(walk)
                ELSE Fail /\ UNCHANGED walk
             /\ UNCHANGED agreed
          \/ Fail /\ UNCHANGED <<agreed, walk>>
  /\ UNCHANGED <<job, disk, shelf, loaded, body, rewritten>>

ToGCS(f) == Rule(f).destinations = {"gcs"}

\* What a bucket of gcs does not take is known only when the writer is closed, and the error of
\* the deferred wc.Close() is dropped: the walk goes on as if the file were there.
LostOnClose ==
  /\ ToGCS(This)
  /\ walk' = Tail(walk) /\ StepTo("load") /\ UNCHANGED shelf

\* Any other upload that fails ends the walk, and what is published stays.
Upload ==
  /\ step = "upload"
  /\ \/ /\ shelf' = [n \in DOMAIN shelf \cup {DestinationName(This)} |->
                       IF n = DestinationName(This) THEN [body |-> body, of |-> This, stale |-> rewritten]
                       ELSE shelf[n]]
        /\ walk' = Tail(walk) /\ StepTo("load")
     \/ LostOnClose
     \/ Fail /\ UNCHANGED <<shelf, walk>>
  /\ UNCHANGED <<job, disk, loaded, body, agreed, rewritten>>

Finish ==
  /\ step = "load" /\ walk = <<>>
  /\ StepTo("over")
  /\ UNCHANGED <<job, disk, shelf, walk, loaded, body, agreed, rewritten>>

\* `sops decrypt -i', `sops encrypt -i' and the removal of a file by others.
Rewrite(f) ==
  /\ job.op = "publish" /\ ~PublishOver
  /\ \E new \in {Plain, job.files[f].holds, Gone} : new # disk[f] /\ disk' = [disk EXCEPT ![f] = new]
  /\ rewritten' = (rewritten \/ (walk # <<>> /\ f = This))
  /\ UNCHANGED <<job, shelf, step, walk, loaded, body, agreed, error>>

PublishInit ==
  /\ job \in Jobs
  /\ disk = [f \in DOMAIN job.files |-> job.files[f].holds]
  /\ shelf = [n \in {} |-> Plain] /\ body = Plain /\ loaded = Plain
  /\ step = (IF job.op = "publish" THEN "load" ELSE "encrypt")
  /\ walk = [i \in 1..(IF job.op = "publish" THEN Len(job.files) ELSE 0) |-> i]
  /\ agreed = {} /\ rewritten = FALSE /\ error = FALSE

PublishNext ==
  \/ Encrypt
  \/ LoadEncryptedFile \/ Reencrypt \/ ReadAgain \/ EmitAsMap \/ Ask \/ Upload \/ Finish
  \/ \E f \in DOMAIN disk : Rewrite(f)

PublishSpec == PublishInit /\ [][PublishNext]_publishVars
-----------------------------------------------------------------------------
(***************************************************************************)
(* Properties                                                              *)
(***************************************************************************)
PublishTypeOK ==
  /\ job \in Jobs /\ rewritten \in BOOLEAN /\ error \in BOOLEAN
  /\ DOMAIN disk = DOMAIN job.files
  /\ step \in {"encrypt", "load", "prepare", "ask", "upload", "over", "failed"}
  /\ error <=> step = "failed"
  /\ walk = [i \in DOMAIN walk |-> Len(job.files) - Len(walk) + i]
  /\ agreed \subseteq DOMAIN disk
  /\ \A n \in DOMAIN shelf : shelf[n].of \in DOMAIN disk

\* The encrypted files on the disk and at the destination.
Files ==
  {c \in {disk[f] : f \in DOMAIN disk} \cup {shelf[n].body : n \in DOMAIN shelf} : c.form = "sealed"}

\* What was encrypted can be decrypted: the writer and the reader of a file, who see different
\* sources of its settings, take the same values for sealed, but for the two writers of Opens.
FilesOpen == \A c \in Files : Opens(c)

KeysOf[group \in KeyGroups] ==
  ToSet(group.keys) \cup UNION {KeysOf[group.merge[i]] : i \in DOMAIN group.merge}

MeantGroups(rule) ==
  IF rule.key_groups = <<>> THEN <<ToSet(rule.flat)>>
  ELSE [i \in DOMAIN rule.key_groups |-> KeysOf[rule.key_groups[i]]]

\* The rule for a file: the first that matches it.
Applies(rules, f) ==
  CHOOSE i \in DOMAIN rules :
    Matches(rules[i], f) /\ \A j \in 1..(i - 1) : ~Matches(rules[j], f)

\* Who reads a file finds the master keys of the rule, in its groups and each of them once, or
\* those of the command line as one group: through merged groups, the removal of repeated keys
\* and the lists by type in which they are stored.
KeysAsConfigured ==
  \A c \in Files :
    LET groups == ToInternal(c).groups
        rule == IF c.by = "publish" THEN Applies(job.rules, shelf[CHOOSE n \in DOMAIN shelf : shelf[n].body = c].of)
                ELSE Applies(job.rules, 1)
        meant == IF c.by = "encrypt" /\ job.cli.keys # <<>> THEN <<ToSet(job.cli.keys)>>
                 ELSE MeantGroups(job.rules[rule])
    IN ToInternal(c).ok /\ c.by \in {"encrypt", "publish"} =>
         /\ [i \in DOMAIN groups |-> ToSet(groups[i])] = meant
         /\ job.rules # <<>> /\ job.rules[rule].key_groups # <<>> /\ (c.by = "encrypt" => job.cli.keys = <<>>)
              => \A i \in DOMAIN groups : IsInjective(groups[i])

\* `sops rotate' takes the keys that it was asked to remove out of all groups and leaves all
\* others; and unless nothing would be left of a group, what it arrives at can be encrypted,
\* whatever it was asked, so that only a file that does not decrypt or a key service can make
\* it fail.  All this unless a group lists a key twice, of which one may stay, or the command
\* panics.
RotatedAsAsked ==
  LET before == ToInternal(job.files[1].holds).groups
      given == [before EXCEPT ![1] = @ \o job.add]
      left(i) == ToSet(given[i]) \ ToSet(job.remove)
      after == ToInternal(disk[1]).groups
      once == \A i \in DOMAIN given : IsInjective(given[i])
      settings == SettingsOf(job)
  IN job.op = "rotate" =>
       /\ step = "over" => \A i \in DOMAIN given :
                             /\ left(i) \subseteq ToSet(after[i]) /\ ToSet(after[i]) \subseteq ToSet(given[i])
                             /\ once => ToSet(after[i]) = left(i)
       /\ once /\ (\A i \in DOMAIN given : left(i) # {}) =>
            settings.ok /\ Wrappable(settings.groups, settings.threshold)

\* What is uploaded to a bucket is encrypted, although publish may read a file twice and checks
\* what it read first: only a process that rewrites it in between gets the clear text there.
\* And the value of a binary file is sealed by the command encrypt, whatever the rules say.
SecretsStaySealed ==
  /\ \A n \in DOMAIN shelf :
       ToBucket(shelf[n].of) => shelf[n].body.form = "sealed" \/ shelf[n].stale
  /\ \A c \in Files : SealsBinary(c)

\* The path of a file below the directory, as it is published.
PathOf(f) ==
  LET bare == job.omit \/ Rule(f).omit
  IN <<job.files[f].dir, job.files[f].base, IF bare THEN "" ELSE job.files[f].ext>>

\* A walk that ends without an error has published every file that was agreed to, each under a
\* name of its own, unless extensions are left out and tell them apart, or it was meant for a
\* bucket of gcs, which may have lost it; and nothing that was not agreed to is ever there.
WalkPublishesAll ==
  job.op = "publish" =>
    /\ \A n \in DOMAIN shelf : shelf[n].of \in agreed
    /\ step = "over" =>
         \A f \in agreed :
           ~ToGCS(f) /\ (\A g \in agreed \ {f} : PathOf(g) # PathOf(f)) =>
             \E n \in DOMAIN shelf : shelf[n].of = f

\* What README.rst says of publish: re-encryption rules work just like the creation rules.
PublishedLikeCreated ==
  \A n \in DOMAIN shelf :
    LET conf == Rule(shelf[n].of).conf
        cli == [selector |-> NoSelector, macOnly |-> FALSE, keys |-> <<>>, threshold |-> 0]
    IN shelf[n].body.form = "sealed" /\ shelf[n].body.by = "publish" =>
         shelf[n].body.sealed
           = SealedBy(getEncryptConfig(cli, conf, FALSE).selector, shelf[n].body.names)
=============================================================================
