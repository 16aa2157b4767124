# A verification development for sops

sops keeps structured files (YAML, JSON, INI, dotenv, protowire, binary) with their
values encrypted.  A random *data key* encrypts the values and a MAC over them; the
data key itself is encrypted by *master keys* (age, PGP, cloud key services), which
may be divided into *key groups* that each hold a Shamir share of it.  The file's
metadata holds the encrypted data keys.

This directory holds TLA+ modules that model the program under `src/`, the TLC
configurations that check them on small instances, and proofs of theorems about
them for every value of the constants.  `PROJECT.json` says for every definition which
lines it stands for (`map`), which properties each run checks, by which mistaken variant
of the code each property is seen to fail (`mutants`), and which dangers of this code
the properties are for (`hazards`).

## The system

| Component | State it keeps | Operations | Talks to | What is hard | What makes it correct |
|---|---|---|---|---|---|
| Data key wrapping (`sops.go` 745-1160) | key groups with their encrypted parts, threshold, cached data key | generate, update master keys, get data key | key services, Shamir | services that fail for some keys only, cancellation half way, stale parts, thresholds at their limits | an update without errors has sealed one data key everywhere; a recovery gives that key or an error, and needs a quorum |
| Commands on a file (`cmd/sops`) | the file; a tree in memory | encrypt, decrypt, edit, set, unset, rotate, updatekeys, groups add/delete | wrapping, stores, cipher, disk | errors and kills between reading, truncating and writing | the file on disk always holds its own data key, and is untouched when something failed |
| Shamir sharing (`shamir/`) | none | split, combine | - | arithmetic in GF(2^8), limits | any threshold of shares gives the secret |
| Edit session (`cmd/sops/edit.go`) | temporary directory, tree, two goroutines, one result channel | edit until the result is valid | editor, signals | a signal racing the end of the editor | one result; the directory is removed; what was edited is what is encrypted |
| Tree encryption (`sops.go` 373-743, `aes/`) | stash of IVs, stack of comments, running hash | encrypt, decrypt | cipher | comments that decide what is encrypted and are encrypted themselves | decrypt undoes encrypt and computes the same MAC |
| Tree paths (`sops.go` 165-371) | none | set, unset, truncate | - | indices at the ends of lists | set then get |
| Metadata storage (`stores/`) | none | to and from the stored form, flatten | - | one group or several, order of keys | nothing of the metadata is lost |
| Configuration (`config/`) | none | find file, choose rule, build groups | - | first match, merged groups, duplicates, the command line over a rule | the rule that is meant is the one that is used, and the reader of a file takes the same values for sealed as its writer |
| Key service (`keyservice/`) | one goroutine for each request, one terminal | Encrypt, Decrypt, prompt | providers, gRPC | requests that share keys and a terminal | a reply is about its request; nothing is answered that was refused |
| exec-env, exec-file (`subcommand/exec`) | temporary directory, FIFO | run a command with the secrets | child process | writer, readers and removal run at once | the child sees the file once and whole |
| publish (`subcommand/publish`, `publish/`) | files and what is uploaded of them | re-encrypt, upload | S3, GCS, Vault | a rule that differs from the file's; files that change meanwhile | what is published is encrypted, complete and readable |
| age (`age/`) | parsed identities | choose a recipient, load identities, decrypt | files, commands, plugins, terminal | eight sources, some broken or locked | a right identity opens the file, whatever the other sources hold |
| Other providers (`pgp`, `kms`, `gcpkms`, `azkv`, `hckms`, `hcvault`) | encrypted key, credentials | Encrypt, Decrypt | remote services, programs, keyrings | calls that outlive their context; keys that are renewed | what was encrypted can be decrypted, and a call that is cancelled returns |
| Formats (`stores/yaml` ...) | none | load, emit | - | comments and values that a format moves, drops or changes | what is loaded of a written tree has its values, and is decrypted as it was encrypted |
| Audit, errors, version, status, migration | none | reporting, one-shot conversion | database, network | - | - |

The program runs one command per process.  Inside a command the calls to key services are
made one after the other; the only goroutines are those of `edit`, `exec-file`, the
key service server and the HuaweiCloud provider.  No file is locked.  Beside the
program run an editor, the command of `exec-file`, clients of the key service, plugins,
and other sops processes.

## The modules

**`KeyWrap`** models `Metadata.UpdateMasterKeysCtxWithKeyServices`,
`GetDataKeyCtxWithKeyServices` and what they call.  `groups`, `threshold` and `dataKey`
are the fields of `Metadata`; `pc` and `loc` are the position and the local variables of
the one call that runs, `ret` is what the last call returned.  Each loop of the code is an
entry action, a body and a leaving action, so that every call of a key service is a step of
its own which succeeds (`UpdateEncrypted`, `GetDecrypted`) or fails
(`UpdateEncryptFailed`, `GetDecryptFailed`), and a context may be cancelled between any
two (`Cancel`).  Between two calls, `Caller` edits the groups as `groups add`, `groups delete`
and `rotate --add-* --rm-*` do, or reads the file again, which drops the cached data key.
Data keys are model values.  An encrypted data key is the record of what is in it: the
whole key, or the share at `x` of the splitting number `split` that takes `need` shares.
`Combine` gives the key when enough shares of one splitting come together, refuses what
the code refuses, and gives `Garbage` otherwise; `splits` counts the splittings so that
shares of two of them can be told apart.

**`KeyCustody`** is the abstract specification: something that keeps one data key or none.
Sealing takes several steps and may fail, and while it runs the custody may lose the key;
it is a success only if the new key is held.  Opening gives the key that is held or an error.
`KeyWrap!ImplementsCustody` states that `KeyWrap` implements it, with the data key the
parts agree on (`SealedKey`) for what is held.

**`KeyFile`** composes `KeyWrap` with a file on disk and the commands that rewrite it.
`disk` is the file: its key groups, its threshold, the data key of its values, and whether
it was truncated and not written again.  A command is at a stage `at`: it loads the file
(`Load`, with the keys of a group in the order a file lists them: `StoredGroup` says of each key how many
are listed before it), recovers the data
key (`GetKey`, then the steps of `KeyWrap`), checks it against values and MAC if it is
one that decrypts them (`Authenticated`), changes the metadata, wraps a data key
(`Wrap`, then the steps of `KeyWrap`), looks at the errors or not (`ChecksErrors`),
marshals, truncates (`Create`) and writes.  It can fail wherever the code returns an error,
and be killed anywhere (`Crash`).

**`EditSession`** models `editTree`, `editTreeImpl` and `runEditorUntilOk`.  Its actors are the
main goroutine (`main`, which creates the temporary file, starts the other two, takes the
first result and runs the deferred calls, the last first), the goroutine that waits for a signal
(`watcher`), the one that runs the editor and encrypts (`worker`), the `editor`, and a
process that an editor leaves behind (`strayed`, as editors do that hand the file to a running
instance).  `result` is the channel, with room for one.  What the user saves is a value and a
`Form`: what the loaders and checks say of it, in the order in which they are asked.  The
sessions cover `--show-master-keys` and a new file without keys (`show`, `tree.keyed`).

**`TreePath`** has `set`, `unset` and `Truncate` as functions on trees.  A map is a sequence of
items, as a `TreeBranch` is, with its comments among them; what makes the program return an
error or panic is a result that is not ok.  A *place* in a document is a sequence of positions, one
for each container on the way (`At`, `Nodes`, `Places`).  Where the code calls itself for the parts of
a value, the model has a function on places, or on how much of the path was followed: `Reached` is
what the calls of `set` and `unset` are given, and the functions in `SetIn` and `UnsetIn` what they return.

**`TreeCipher`** models `Tree.Encrypt` and `Tree.Decrypt` with the walk, `shouldBeEncrypted`
and the cipher's stash.  A call of `walkValue` is named by the place of its value.  `Context` is what
`walkSlice` and `walkBranch` give it, the names on the way and the stack of comments; `OnLeaf` is the closure
that encrypts or decrypts a leaf; `NewValues` is what the calls return, and `Walk` all that comes of a document.  A ciphertext is the record of
the value, the path and the IV; a MAC is the sequence of the values hashed.  A document goes
round `EncryptTree` - `DecryptTree` - `Set` or `Unset`; each decryption is a new process with a new
stash.  Beside the translated code stands `Meant`, which says what is to be encrypted from the
place of an item alone, without a walk or a stack: the closest directive decides, in every format that keeps
comments, and without one the rule; a comment is encrypted by the policy that `shouldBeEncrypted` states
(`sops.go:484-490`).  Where the program's README says something else, of comments and of dotenv, the
run `documented_rules` refutes it.

Each encryption writes the tree in the format of the document, and what is decrypted next is what
a reader finds there (`StoreFormat!Reload`).

**`StoreFormat`** says for each format which trees it can hold (`Emits`) and what a reader gets of
one that was written: json drops comments, dotenv makes every value a text, ini puts the
comment above a key behind the key before it, pxf lifts the comments at the top of a block out of it, and
yaml those at the top of a list's element into the list.
Text is not modelled.

**`ExecFile`** models `exec-file` and `exec-env`.  `runner` is the main goroutine, from the
directory (`MakeDir`) over the FIFO or file to the command and the deferred removal; `writer` is the
goroutine of `WritePipe`, which waits in open for a reader and then writes into a pipe with
`Room`; `child` is the command, which opens the file up to `MaxOpens` times, reads to the end or not,
and exits when it likes.  The plaintext is a number of `Chunks`.  A signal ends sops anywhere
(`Killed`), since nothing catches it; `log.Fatal` does so without the deferred calls.  The writer calls it when
it cannot open the FIFO, because the FIFO is gone or for any other reason (`OpenPipe`, `FatalPipe`); it has then removed
the FIFO, and the empty directory stays.  The command may remove the file it was given (`Unlink`); what else it may
do to the directory is left out.

**`AgeIdentities`** models the recipients and identities of age: a recipient that is given, or chosen
by name or default from a key file, then `loadIdentities` over eight sources in the order of the
code, each of which is unset, cannot be opened, is broken, or holds lines, a pxf key file, a sealed key file or an SSH
key.
`readers` is the Go map in which three sources wait to be read, so that they come in any order.
How the age library tries the identities is `TriedBefore`.

**`KeyServer`** models the server and its clients.  A client makes a master key (an Azure key asks
for its version), has its data key encrypted, keeps the ciphertext and has it decrypted; its context
may be cancelled.  A request is dispatched by its type (`Route`, which lists what the server
does not), goes through what its provider does before it calls (keyrings and `gpg`,
credentials, an allowlist of addresses), makes the call, and is asked about if the server prompts.
`prompt` reads the terminal byte by byte, as `fmt.Scanln` does, so that two prompts share
lines.  A call to HuaweiCloud is a goroutine of its own (`sdk`) that a cancelled call leaves behind.

**`Settings`** holds, without variables, what decides the metadata of a file: `configFromRule`,
`parseCreationRuleForFile`, `parseDestinationRuleForFile`, the precedence of `getEncryptConfig`, groups
that merge others, the order in which keys are stored, what `rotate` does to them, and what a reader
assumes (`ToInternal`).  Regular expressions are patterns with the names they match; `MasterKeys` are the
keys there are, `KeyGroups` the groups of them that a configuration may write, and `extractMasterKeys` is a
function on them.

**`Publish`** makes files with those settings by `encrypt`, the package `encrypt` and `rotate`, and
walks over the files of a directory as `sops publish` does, while other processes rewrite
them.  What is uploaded is kept on a `shelf` by its name at the destination.  Each of the three writers may fail where
it decrypts the file or calls a key service.  An upload that fails ends the walk, but for gcs, where what was
written may be lost when the writer is closed, without an error (`LostOnClose`).

**`Subcommands`** composes `ExecFile`, `EditSession`, `AgeIdentities`, `KeyServer` and `Publish`: one
run of sops is one of them, the parts share no state, and the others stay where they would begin.

**`KeyWrapProofs`**, **`KeyFileProofs`**, **`TreeCipherProofs`**, **`AgeIdentitiesProofs`**,
**`KeyServerProofs`**, **`PublishProofs`** and **`SubcommandsProofs`** hold the theorems about the module of that
name, **`CleartextProofs`** those about `ExecFile` and `EditSession`.  **`MCKeyWrap`**, **`MCKeyFile`**, **`MCEditSession`**,
**`MCTreeCipher`**, **`MCPublish`** and **`MCSubcommands`** instantiate the modules for TLC.

## What the runs show

| Run | Instance | Shows |
|---|---|---|
| `groups` | up to 3 groups of up to 1 key, thresholds 0-3, 2 data keys, 2 services, 2 splittings | `UpdateSeals`, `RecoversTheSealedKey`, `QuorumDecides`, and that `KeyCustody` is implemented |
| `keys` | up to 2 groups of up to 2 keys of 2 types, 2 services, 1 splitting | the types; `GroupAnswersByFirstGoodKey`; `LoopProgress`, on which the first two rest; every call ends |
| `file` | up to 3 groups of up to 2 keys of 2 types, 2 data keys, 2 splittings, any number of commands | `FileReadable`, `TornOnlyWhileWriting`, `FileKeptOnErrors`, `RotateRenewsTheKey` |
| `subcommands`, exec | 2 chunks, a pipe with room for 1, up to 2 opens; all options | `ReadsAreWhole`, `NothingLeftBehind`, `CommandIsServed` |
| `subcommands`, edit | two values, all forms of a text, with and without `--show-master-keys` and keys | `SuccessIsWhatWasEdited`, `NoFileAfterAnswer`, `SignalEndsSession`, `EditorReturnLeadsOn` |
| `subcommands`, age | any two of six sources set to any content, 2 native recipients, an SSH key and a plugin | `AnyNativeIdentityOpens`, `ChosenRecipientOpens` |
| `subcommands`, keyservice | 2 clients, each type of key and each state of keyrings and credentials, a key renewed once, 3 typed bytes | `RepliesAreOwn`, `OneYesOneReply`, `FailsForAReason`, `CancelledCallsReturn` |
| `subcommands`, publish | every selector, merged groups, up to 2 files, 2 destinations at once | `FilesOpen`, `KeysAsConfigured`, `RotatedAsAsked`, `SecretsStaySealed`, `WalkPublishesAll` |
| `tree` | documents of up to 2 items under up to 2 comments, one a list of up to 3 elements or a map with comments; one rule on names or on comments at a time, with `mac_only_encrypted` or not; 2 encryptions with one of 6 edits in between; in yaml lists of maps and lists that begin with comments; in json, dotenv, ini and pxf up to 3 items and comments in every order, at the top, in a map or in a list | `EncryptsWhatIsMeant`, `DecryptUndoesEncrypt`, `UnchangedKeepTheirCiphertext`, `EditsAreLocal`, `FormatsKeepValues`, `CommentsStayInPxf` |
| `groups_add` | 2 groups | violated: `groups add` writes groups that do not hold one part |
| `threshold_zero` | 2 groups | violated: a threshold of 0 does not mean that each key alone decrypts |
| `edit_master_keys` | the edit session alone | violated: with `--show-master-keys` the edits are not what is encrypted |
| `list_comments` | as `tree` | violated: with `encrypted_comment_regex`, a document with a comment in a list may not decrypt |
| `publish` | as part publish of `subcommands` | violated: what publish seals under a rule is not what encrypt seals under it |
| `moved_directives` | pxf documents of one block, yaml documents with a list of maps or lists | violated: a directive at the top of a block, or of an element of a list, is above it when the file was encrypted |
| `documented_rules` | one dotenv document, under a rule on names | violated: comments stay in the clear, and a directive decides |

Bounds.  Two data keys tell an old from a new one, and a wrong one from the sealed one.
Three groups are the least number at which a quorum can be a proper subset with more than one
member; with two, a quorum is one that Split refuses or all.  Two splittings are needed for
stale shares.  Two keys in a group and two services let one fail before another succeeds.
`MaxShares` is 255 in the code, and 3 here, so that no instance reaches it but by
`MaxGroups`; what is refused above it is the same branch.  In `KeyFile` the commands
that split stop at the second splitting, while the others go on without a bound.  `EditSession`
has no bound but its two values, which tell the edited from the original: the user may save and
return to the editor for ever.  In `TreeCipher` two comments in a row are the least in which a
later directive overrides an earlier one, a list in a map and a map in a map the least in
which a comment governs what is not next to it, and two equal leaves with a third the least at
which the stash meets one value twice; the second encryption is the first that can use an IV again.
`MaxDepth` bounds the depth of trees; no document of the instance comes near it, so that the conjuncts `IsTree` of
`CipherNext` refuse no step there.

In `ExecFile` one chunk in the pipe and one to come are the least with which a reader can leave
in the middle and the writer can be held up, and the second open is the first that can meet a writer
that has finished (`CleartextProofs` shows the invariants for every number).  In `AgeIdentities` two
sources are enough for one to hide or stop the other; three readers in any order arise from
the order alone, and an unset source is what the third would be.  In `KeyServer` two clients with the
same key are the least that could get each other's reply, and `y`, `n` and a newline in three bytes
the least in which one prompt takes what was typed for another.  In `Publish` two files are the
least with two names at the destination.

Fairness.  `FairSpec` lets a call that has begun take its next
step: the code runs on by itself and each call of a key service answers or fails (a remote
call has a deadline or is cancelled; one that hangs for ever hangs the program, and is left
out).  Nothing obliges the user to begin a call, a context to be cancelled or a kill to
come; nothing obliges a service to succeed.  `FairEditSpec` has weak fairness for each of the three
goroutines (`Main`, `Watch`, `Worker`), which the Go scheduler gives; a goroutine that is blocked on
the channel or on the editor is not enabled.  Nothing obliges the user to save, to leave the editor
or to press a key, and no signal has to come.  `SubcommandsFairness` gives the goroutines of the part
that runs the same: main and writer of `exec-file`, and the command only while it reads (it need
neither open the file nor exit); in the key service the steps of a request that the server takes by itself (`Request`), and none that a
service, a program or a user takes (`World`).  `TreeCipher` and the other parts state no liveness.

### Disagreements found

* `groups add` (and `groups delete`) drop the errors of the update and write the file
  (`groups/add.go:38`, `groups/delete.go:47`).  A file of one group and threshold 1, to which
  a group is added, cannot be split, and is written with a group that holds nothing; a
  failing service leaves shares of two splittings.  `KeyGroup` is documented as keys "that
  all encrypt the same part of the data key".  `FileReadable` holds for every file
  that was not written by such a command (`dropped`).
* The options of the package `encrypt` say that with a threshold of 0 "each key alone can decrypt".
  With several groups the code takes the number of groups for the threshold.
* `edit --show-master-keys` is meant to "replace the whole tree" (`cmd/sops/edit.go:270`), but
  `runEditorUntilOk` has its options by value and replaces its own pointer: what is encrypted is the
  tree from before the session.
* With `encrypted_comment_regex` "a value or comment is encrypted if it has a preceding comment"
  that matches (the program's `README.rst:2541`), and so it should come back.  `walkSlice` puts the
  ciphertext of a comment into the list as a string (`sops.go:416-420`); read back it is an
  element, which ends the comments above the next one.  The MAC then differs, or a ciphertext is left
  in the open document.  `DecryptUndoesEncrypt` holds for every document in which no comment of a
  list was encrypted (`tangled`).

* Of publish "re-encryption rules that work just like the creation rules" are promised (`README.rst:1637`).  The
  new metadata takes only the suffixes of the rule (`publish.go:107`): no regex, no comment regex, no
  `mac_only_encrypted`, and no default suffix, so that a value whose name ends in `_unencrypted` is sealed
  and its reader takes it for clear.  `FilesOpen` excepts these files and those of the package `encrypt`,
  which has no default either.
* "The directive comment itself is never encrypted, so it round-trips" (`README.rst:2551`).  In pxf the
  comments at the top of a block are read back above the block (`protowire/store.go:369`): a
  directive for the first entry then governs the whole block.  (TLC shows the first of the formats that it comes
  to; with the documents of one format alone the run shows that one.)  `CommentsStayInPxf` says what does stay.
* The same in yaml, for a map or a list that is an element of a list: the comments at its top are written as those of the
  element (`yaml/store.go:250`, `:282`) and are read into the outer list (`:89`).  A directive there then governs
  the whole element, what it did not govern before is not decrypted, and the file does not open.
  `DecryptUndoesEncrypt` is about the documents that the format gives back as they were written (`ReadsAsWritten`).
* Of each rule on names "comments are always encrypted" is said (`README.rst:2524`, `2528`, `2532`, `2536`), and of
  `unencrypted_comment_regex` that "all other values and comments are encrypted" (`README.rst:2539`).
  `shouldBeEncrypted` leaves every comment in the clear unless `encrypted_comment_regex` is set, as its own comment
  says (`sops.go:484-497`).
* Directives "have no effect in `json` or `dotenv`, which discard comments" (`README.rst:2560`).  dotenv keeps
  comments (`dotenv/store.go:54`), and directives decide there as elsewhere.

The models also show what nothing in the repository speaks against, so that no run refutes it:

* A second signal after the deferred `stop` (`edit.go:143`), or an editor that saves while the
  directory is removed, leaves the temporary file behind; `NoFileAfterAnswer` is about sessions that
  the worker answered.
* Equal values of one list share their path, so the stash gives one of them the IV of the other
  (`UnchangedKeepTheirCiphertext` excepts them by `Alone`).
* `set` with an index at a map changes nothing and reports a change; an index beyond the end of a
  list appends; list indices count comments.
* exec: an error of writing the regular file is dropped (`exec.go:95`); with `--background` the
  directory may go before the command opens the file, and the writer may then end sops with
  `log.Fatal`; a writer that cannot open the FIFO for another reason ends sops with the empty directory left and the
  command running; a second open of the FIFO waits for ever; a kill leaves a file of `--no-fifo` behind.
* age: "any one of them can decrypt the file" (`README.rst:255`) holds of native identities only, which the
  age library tries first.  A wrong passphrase or a missing plugin ends the search before later
  identities of other kinds, and which are later depends on the order of a Go map.  The default
  key file is always looked at, also when another source was given.
* The key service asks the user after it has done what it was asked, not before (the comment at
  `server.go:20` has it the other way); prompts and passphrases ignore the context; two prompts at
  once share the bytes of a line, so that a `y` may be lost, but none counts twice.
* With keys on the command line, or with a default age recipient, the groups of the configuration are
  dropped while its selectors and its threshold stay.
* A publish that uploads the file as it is reads it twice; a process that decrypts it in place in between gets
  the clear text uploaded (`SecretsStaySealed` excepts it by `stale`).  The upload to gcs drops the error of the
  deferred `Close` (`publish/gcs.go:34`), with which the storage client says that an object was not written: the walk
  ends without an error and the file is not there (`WalkPublishesAll` excepts it by `ToGCS`).  With `--recursive` a file
  that is named itself is uploaded as `.`.
* `rotate --rm-*` with a key that a group lists twice leaves one of them, or panics
  (`rotate.go:61`).
* ini reads the comment above a key behind the key before it, so a directive governs the key after
  the one it was written for.  A Boolean or null that is left clear in dotenv or ini comes back as a text, and the
  MAC does not fit.

## What is proved

Every invariant that a passing run checks is proved for every value of the constants, and so are the
refinement of `KeyCustody` and all action properties but two of `TreeCipher`.  Each
module of proofs has an inductive invariant, a conjunction of named parts; one lemma for each action says
that it is kept, and the theorems follow from it.  The parts were checked as invariants of the
runs before they were proved.

**`KeyWrapProofs`**, for every set of data keys, key types and decryption order, and for
any bounds, from `KeyWrapAssumption` and `NoPartAssumption` (the constants are what their
comments say; `NoKey`, `Garbage` and `NoPart` are none of the values they stand beside):

* `TypeCorrect`, from the stronger `TypeInvariant`: types, and that a running call points into
  the groups.  The latter is what makes `groups[loc.g][loc.k]` meaningful in every step.
* `UpdateSealsTheDataKey`.  `UpdateSeals` speaks of a call that has returned and is not inductive.
  `SealInv` adds `UpdateProgress`: while a call runs without errors, all keys of the groups it has
  left behind, and the keys of the present group before the present one, hold the new part.
  Writing one key keeps this because it changes no other key and not the number of groups
  (`SetEncryptedDataKeyChanges`); when the loops end, what is behind is all there is.
* `GetDataKeyRecoversTheSealedKey` and `QuorumOfGroupsDecides`, from `OpenInv`: every part
  a running recovery holds is one that some key of that group holds.  When the groups hold one
  data key, those parts are of one splitting (`SealedParts`), and `Combine` decides by their number.
* `GroupsAnswerByFirstGoodKey` and `LoopsProgress`, from `GetInv`: while a group is searched, the keys before
  the present one in the order of decryption have failed.  That the order has a last key, behind which
  all have been tried, needs an induction on positions (`LastPosition`).
* `CustodyImplemented`: `Spec => ImplementsCustody`.  Each step of the loops is `SealSome` or a stutter;
  where a call returns it is one of the answers of `KeyCustody`.  `CustodyInv` adds what the mapping needs: no
  part is of a splitting yet to come (`OldGroups`), so that a new splitting number cannot make
  old shares look sealed, and a threshold of 0 means that nothing was split yet.

**`KeyFileProofs`**, from the same and `StoredOrderAssumption` (a file lists each type of key at one place).  The
steps of `KeyWrap` keep its invariants in a command too; `FileInv` adds `CommandInv`:

* `FileTypeCorrect`, `FilesStayReadable` and `TornWhileWriting`.  `FileReadable` speaks of the disk only.
  What makes it inductive is the way of a data key through a command: the key groups in memory are
  those of the file until they are changed and then hold the key of the values (`ReadsTheFile`), a recovery
  that succeeded gave that key (`HoldsTheKey`, by `RecoversTheSealedKey` of `KeyWrap`), it or a new one is wrapped
  (`Wraps`), and what is about to be written opens (`Emits`) or is of a command that
  drops errors (`dropped`).  `OneWriter` says that a torn file is being written or was cut off.
* `ErrorsKeepTheFile` and `RotationRenewsTheKey`, action properties, from the same invariant.
* A file that is read back has the keys it was written with, in another order: `StoredGroup` is a
  permutation (`EveryPlaceIsTaken`, as an injection of a finite set into itself is onto), so that it
  holds the data key that was written (`LoadedGroupsSealed`).

**`CleartextProofs`** on `ExecFile`, for any length of the plaintext, any room in the pipe and any number of opens,
from `ExecAssumption` (these are natural numbers, the first two not zero):

* `ExecTypesCorrect`, `NothingIsLeftBehind` and `ReadsAreAlwaysWhole`, each a consequence of one
  inductive invariant, `ExecInv` (`ExecInvariant`).
* `FolderInv` ties the place of the main goroutine to what is in the directory, and the writer to the FIFO.
  `log.Fatal` of the writer ends the process wherever the main goroutine is; what then is known of the directory is
  that a writer whose opening failed leaves no file in it, so that an empty directory is all that may stay, and that
  `log.Fatal` of the main goroutine comes before there is one.
* `PipeInv` and `FirstReadInv` account for the chunks.  `ReadsAreWhole` speaks of a reader that met
  the end; that the end means the whole needs to be known while it reads: what the first reader
  has taken and what is in the pipe is together what was written, and the writer is
  done only when all is written or no reader is left.

**`CleartextProofs`** on `EditSession`, for any values of a file, from `EditAssumption` (the original is one of them):

* `SuccessIsEdited` and `NoFileIsLeft`, consequences of `EditInv` (`EditInvariant`).
* For the first, `LeftInv` says that between the end of the editor and the reading of the file
  only the main goroutine touches it, which removes it; and `EncryptInv` carries what was judged
  through the encryption and the channel to the result.
* For the second, `AnswerInv` says that an answer of the worker comes when the worker is done, and
  `EditorInv` that no editor then runs, so that nobody brings the file back between
  the removal of the file and that of the directory.

**`AgeIdentitiesProofs`**, for any number of recipients and whatever the eight sources hold, from `AgeAssumption` and
`EnvironmentsAssumption` (a source holds finitely many identities or lines that are none):

* `AgeTypeCorrect`, `EveryNativeIdentityOpens` and `ChosenRecipientsOpen`, from `AgeInv` (`AgeInvariant`).
* `LoadInv`: what a well formed source holds is among the identities once the search is past that source
  (`Past`), in whatever order the readers come.  `NativeOpens` then shows of `TriedBefore` that native identities
  stand before all that may stop the search, so a right one among them is met.
* `ChosenInv`: a recipient that was chosen from a key file is of an identity in a source that is read again
  when the file is opened.
* The sequence that a set of readers is put into has all of them (`OrderHasAll`, an injection into a set of its
  size is onto).

**`KeyServerProofs`**, for any number of clients, any keys and environments, from `ServerAssumption` (at least one version;
`Nothing` is no client) and `SetupsAssumption` (every client has a key, whose provider makes a ciphertext of
what it is given):

* `RepliesAreAlwaysOwn`, a consequence of `ServerInv` (`ServerInvariant`): what stands in a key
  object, in a result and with a client holds the data key of that client.  It is inductive because
  each request has an object of its own (`Object`) and the goroutine of a call that was given up
  writes into that object only; `ClientStep` shows it for the steps of one client, which leave the
  others alone (`Apart`).
* `ServerTypeCorrect`, from `Tables` and `Counters` besides.
* `EveryReplyHasItsYes`.  `OneYesOneReply` counts replies and typed bytes; `AnswersInv` counts also the requests that
  have read a `y` and not yet the end of the line, or have been let go and not yet replied (`LetGo`): replies and these
  together are not more than the `y` that were read.  A byte that is read gives one more of them at
  most (`ByteLetsOneGo`), a reply moves one from the second to the first (`ReplySpendsOne`).
* `FailuresHaveReasons`, from `SourceInv`.  It says for each place of a request which of the ways to serve it are
  already closed (`ReasonsOf`), and that what a key opens is what it made: a key that is used names its version, so
  that a renewal in between changes nothing (`OpensOf`).

**`PublishProofs`**, for all jobs, from `SettingsAssumption` (the default suffix is a pattern that does not match the
name of a binary file's only value; keys are of the seven types; there are finitely many groups, and a group merges
groups that are written inside of it, so that of any groups one merges none of the others) and `JobsAssumption`: a
job is of one of the five kinds, has files, and lists master keys and key groups where it lists any; what it
finds encrypted was written by one of these writers, so that it opens and was wrappable, but not by
the command that begins now, whose files alone the properties call those of `encrypt` and
`publish`; what is rotated has metadata that load; several files are published only of a directory with
`--recursive` (`main.go:433` refuses the rest).

* `PublishTypeCorrect`, `EveryFileOpens`, `NothingLeaksIntoBuckets` and `WalksPublishAll`, from `PublishInv`
  (`PublishInvariant`).
* `ContentsInv`: whatever is on disk, loaded, prepared or uploaded opens.  The work is in
  `ReaderOf`, `ConfiguredSettings` and `RotatedSettings`, which go through `getEncryptConfig`, `rotate` and `ToInternal`
  and compare what the reader takes for sealed with what was sealed.
* `SealedInv`: between loading and uploading the file is the one that was looked at, or was rewritten.
* `AgreedInv`: what the user agreed to is at the destination, is uploaded next, or has a namesake there, unless it was
  meant for gcs, of which nothing is known.
* `FilesHaveTheConfiguredKeys`, from `KeysInv` beside it (`KeysInvariant`): a file made by `encrypt` has the settings that
  were asked for, and what is made for the destination has the groups of its rule, which is the first that
  matches (`FirstThatMatches`).  What these groups are is a matter of the list functions: `Deduplicated`,
  `OrderedByType`, `FlattenedList`, and `GroupsHaveTheirKeys` for `extractMasterKeys`, which is compared with `KeysOf`.
* `RotatedKeysAreAsAsked`, from `RotateInv`: what a rotation has written has the keys that were asked for, and what it
  arrives at can be encrypted unless a group would be left empty, so that besides that only the decryption of the file
  or a key service makes it fail.  `RemovedKey` is about a loop that cuts the array that it ranges
  over: as long as no key is listed twice, the array is the old one without the key, its last
  element twice, so that nothing is skipped that would have matched and no cut is behind the end.
  `RotatedKeys` takes it through all groups and all keys to remove.
* The functions on lists are recursive functions, and nothing is known of one before it is shown to exist:
  `RecursionUp` (up to a number) and `GroupRecursion` (over merged groups) do that without an induction
  theorem, from the smallest of the sets on which it would fail (`CountingUp`, `FromMergedGroups`).

**`SubcommandsProofs`**, from the assumptions of the parts and `PartsAssumption` (what stands for the input of a part
that does not run is an input):

* `PartsRunAsSpecified`: `SubcommandsSpec` implies the specification of each part; a step of one leaves the
  variables of the others.  So `SubcommandsTypeCorrect` and `SubcommandsKeepTheirPromises` carry the theorems about
  the parts over to the composition that the run checks.

**`TreeCipherProofs`**, for documents of any size, any marked names and texts, rules, edits and number of
encryptions, from `TreeAssumption` (documents are trees, at the top a map, and a rule has a selector on names or one on
comments), `TextAssumption` (no ciphertext is a directive or matches the regex of a rule) and `PlainAssumption` (no
document and no value that is set holds a ciphertext to begin with; the components of a path are keys and
whole numbers of any sign):

* How a document is reasoned about.  `At`, `Context`, `NewValues`, `LeavesBelow` and the functions behind `SetIn` and
  `UnsetIn` are recursive functions; each is shown to exist by counting (`CountingUp`, `CountingDown`).  What holds at
  the top and is handed on to the parts holds at every place (`FromAbove`); what holds of a container when it holds
  of its parts holds of the document (`FromBelow`).  The stack of comments has a form that needs no
  recursion: for each container on the way, the run of comments right before (`ActiveRun`, `AboveRun`).
* `DecryptionUndoesEncryption`, from `CipherInv`: a stored document is what an encryption made of the tree, and the
  theorem is about those that the format has kept so (`ReadsAsWritten`; yaml, pxf and ini do not keep every one).  The two trees
  are `Alike`: they have the same places, names and comments, and differ in the string of a comment only where it was
  encrypted (`EncryptedAlike`).  `SameDecision` is the heart of it.  A comment that was encrypted is no directive,
  so the last directive on the stack is the same; but the regex of the rule may have matched it, and decryption no
  longer sees that.  The first comment on the stack that matched was itself encrypted only because one before it
  did, so by induction along the stack some comment in the clear matches (`SameVerdict`).  With the same decisions each
  leaf comes back (`DecryptedLeaf`) and with them the tree and the MAC (`RebuiltTwice`, `DecryptedTree`).
* `EncryptsWhatIsMeantHolds`: walk, stack and path come to what `Meant` says of the place alone.  The stack has the governing comments of the
  place, all of them and the nearest last (`OthersGovern`), so the last directive is the closest (`ClosestIsLast`), and
  the path has the names on the way (`NamesOnTheWay`); what was to be sealed is sealed (`SealedIsMeant`).
* `CipherTypeOKHolds`, from `PlainInv`: a document that was not spoilt is plain.  For decryption this is the theorem above;
  for edits it is shown of each case of `set` and `unset` that what they build is `Sound`, that is, made of parts of
  the document and of the value (`SetSound`, `UnsetSound`).
* `EditsAreLocalHolds`, from `LastInv`: the last edit is what `set` or `unset` made of the document before it.  The calls go
  down the path and put back what they changed (`GoingDown`, `PutBackFound`), so that `Truncate` finds what was
  set (`SetFound`) and not what was removed (`UnsetGone`).  Another path goes the same way for some components, parts from
  it in a container (`PathsPart`, `AlongThePath`), and finds there the same part as before (`SetElsewhere`, `UnsetElsewhere`).
  The proof brought out two cases in which the property was false as first stated, both in documents that have a key
  twice, of which no instance has one: after `unset` removes the first of the two, the second is found there (`NotTwice`);
  and the components of a place behind the second lead `--extract` to the first, where an index may meet a map, whose
  items move (`Fits`).
* `UnchangedKeepTheirCiphertextHolds`, from two invariants.  `GenuineInv`: whatever has happened to a document, the ciphertexts in it
  and in the file are as the cipher makes them.  The walk (`WalkSound`), the edits and every format keep that; for the
  formats, this goes through the recursion of yaml, json and pxf and the lines of ini and dotenv (`ReloadSound`).  `StashInv`: the
  stash, the open document and the encrypted one before the edit belong together.  Then a sealed value that was opened is in the stash with its
  IV (`OpenedLeaf`), it is the only one of its value and path, as the value has no equal (`AllLeaves`, `IVIsTaken`), and
  the next encryption takes it (`CiphertextKept`).

What is only model-checked, and why:

* Liveness: `CallsEnd`, `CommandIsServed`, `SignalEndsSession`, `EditorReturnLeadsOn`,
  `CancelledCallsReturn`.  Fairness rests on ENABLED, which is out of the prover's reach.
* `FormatsKeepValues` and `CommentsStayInPxf`.  The first compares all values of a document before and after a format that
  moves its comments, and so the values of two trees whose places differ; the second counts the occurrences of a
  comment while blocks inside of blocks hand comments upwards.  Both need inductions over two trees at once that
  relate their places, where the theorems above have one tree or two of the same shape.

## What is not modelled

Every component with status `not_modelled` or `partly` in `PROJECT.json` says what is
missing.  In what is modelled: cryptography is perfect (a ciphertext opens with its key
only; two random data keys differ; the shares of one splitting below the quorum tell
nothing); what is in the values is left out; a master key's identity is left out beyond its
type, so removing a key by name is removing one at some position.  In `TreeCipher`: the
conversion of a value to bytes and back, which keeps the type with the ciphertext, is a value that
comes back as it was; the hash keeps no boundary between two values, and the sequence does; the cipher is given
the path as one string, its components joined by `:` (`sops.go:642`, `701`), so that paths through keys with a `:` may
coincide, and the sequence of components keeps them apart; `--ignore-mac`, inline
comments, several documents in a file, a rule on names
together with one on comments, and the error for a ciphertext that itself matches
`unencrypted_comment_regex` are left out.  In `EditSession`: a kill that no program can catch.

The settings part takes regular expressions as given, and leaves out the search for a configuration
in parent directories, `--encryption-context` on the command line, which the flat `kms` keys of a rule do
not get, and the Vault destination's check whether a secret is up to date.  `StoreFormat` takes the
libraries for yaml, ini and pxf to read a comment where the store has had it written; inline comments, pxf names that are not
identifiers, several documents and the DEFAULT section of ini are left out; so is the conversion of a
file to another format (where json drops comments that decide what is encrypted), and the flattening of
metadata, a function of strings that garbles a key of an encryption context with `__map_` or
`__list_` in it.  `AgeIdentities` leaves out the syntax of identities, `KeyServer` that of requests, and a
race between the end of `Serve` and the goroutine for signals.

Of some hazards the properties reach only a part, which `PROJECT.json` says with each: groups deleted down to none, a
split that `updatekeys` refuses at a threshold of one, `exec-file --background`, a publish that ignores
the other groups of a rule.  Three hazards have no property, because nothing holds there: two sops processes that write
one file (`main.go:2208`; the last one wins, no file is locked), what gcs loses on close (`gcs.go:34`), and the repair of old AWS KMS encryption
contexts (`common.go:310`), a one-time step for files written before 3.3.0.  The same goes for
`encrypt.File`, which looks whether the output exists and then writes it.

## The plan

1. (done) `KeyWrap`, `KeyCustody`, `KeyFile`, and the first theorems.
2. (done) `EditSession`; `TreePath`; `TreeCipher`.
3. (done) `ExecFile`, and `KeyServer`, with theorems, and those of `EditSession`; `AgeIdentities`; `Settings` and `Publish`;
   `StoreFormat`; `Subcommands`.
4. (done) Proofs of the safety properties of `KeyWrap`, with its refinement of `KeyCustody`, of `KeyFile`, `AgeIdentities`,
   `KeyServer` and `Publish`, and of their composition.
5. (done) Proofs about lists: what `deduplicateKeygroup`, `InOrder` and `extractMasterKeys` keep, for `KeysAsConfigured`,
   and what `RemoveMasterKey` leaves, for `RotatedAsAsked`.
6. (done) The walks of `TreePath`, `StoreFormat` and `TreeCipher` as functions on the places of a tree, and proofs of
   `DecryptUndoesEncrypt` and of the invariants of `TreeCipher` on them.
7. `FormatsKeepValues` and `CommentsStayInPxf`, with a relation between the places of a tree and of what a format makes of it.
