----------------------------- MODULE EditSession -----------------------------
(***************************************************************************)
(* The session of `sops edit': editTree, editTreeImpl and runEditorUntilOk *)
(* of cmd/sops/edit.go.  The values are written in the clear to a          *)
(* temporary file, the user edits it until it can be encrypted, and the    *)
(* directory that holds it is removed.  Four actors: the main goroutine,   *)
(* which waits for the first of two results; the watcher, which sends one  *)
(* when a signal arrives; the worker, which runs the editor and encrypts;  *)
(* and the editor, a process that may outlive the other three.             *)
(***************************************************************************)
EXTENDS Integers, Sequences

CONSTANTS
  Value,          \* what the values of a file can be
  Original,       \* the values the session begins with
  Empty, Absent   \* the temporary file before anything is written, and none

ASSUME EditAssumption == Original \in Value

VARIABLES
  show,           \* --show-master-keys: the temporary file holds the metadata too
  main,           \* where the main goroutine is
  watcher,        \* where the goroutine that waits for a signal is
  worker,         \* where the goroutine that edits is
  result,         \* the channel, with room for one result
  outcome,        \* what the main goroutine took from it
  signalled,      \* a signal was caught
  dir,            \* whether the temporary directory exists
  file,           \* the text of the temporary file, or Absent
  open,           \* whether tmpfile is open
  editor,         \* "none", "running" or "exited"
  strayed,        \* an editor left a process behind that goes on editing
  left,           \* the text when the editor returned
  edited,         \* the text the worker has read
  tree            \* the values that will be encrypted, and whether anyone has a key

procVars == <<main, watcher, worker>>
diskVars == <<dir, file, open>>
editorVars == <<editor, strayed, left>>
editVars == <<show, procVars, result, outcome, signalled, diskVars, editorVars, edited, tree>>

\* What LoadPlainFile or LoadEncryptedFile with validateFileForEncryption, then the version
\* comparison and the last check of the keys say of a text, in the order they are asked.
Form == {"rejected", "misversioned", "keyless", "fine"}
Text == [value : Value, form : Form]
Tree == [value : Value, keyed : BOOLEAN]

\* editTreeResult: an error has a source, a success the tree that was encrypted.
NoTree == [value |-> Original, keyed |-> FALSE]
Error(source) == [ok |-> FALSE, from |-> source, tree |-> NoTree]
Success(t) == [ok |-> TRUE, from |-> "worker", tree |-> t]
Result == [ok : BOOLEAN, from : {"main", "watcher", "worker"}, tree : Tree]

\* What is emitted before editing; the metadata of an example without keys cannot be
\* read back.
Emitted == [value |-> Original, form |-> IF show /\ ~tree.keyed THEN "rejected" ELSE "fine"]

Over == main \in {"returned", "killed"}
Handled == main \in {"fork", "wait", "stop"}

-----------------------------------------------------------------------------
(***************************************************************************)
(* The main goroutine                                                      *)
(***************************************************************************)
MainTo(next) == main' = next /\ UNCHANGED <<watcher, worker>>

Mkdir ==
  /\ main = "mkdir"
  /\ \/ dir' = TRUE /\ MainTo("create") /\ UNCHANGED outcome
     \/ dir' = dir /\ MainTo("returned") /\ outcome' = Error("main")
  /\ UNCHANGED <<show, result, signalled, file, open, editorVars, edited, tree>>

\* os.Create, then Chmod; a failure of Chmod leaves by the deferred Close.
CreateTemp ==
  /\ main = "create"
  /\ \/ /\ file' = Empty /\ open' = TRUE
        /\ \/ MainTo("notify") /\ UNCHANGED outcome
           \/ MainTo("close") /\ outcome' = Error("main")
     \/ MainTo("remove") /\ outcome' = Error("main") /\ UNCHANGED <<file, open>>
  /\ UNCHANGED <<show, result, signalled, dir, editorVars, edited, tree>>

Notify ==
  /\ main = "notify"
  /\ MainTo("fork")
  /\ UNCHANGED <<show, result, outcome, signalled, diskVars, editorVars, edited, tree>>

Fork ==
  /\ main = "fork"
  /\ main' = "wait" /\ watcher' = "armed" /\ worker' = "emit"
  /\ UNCHANGED <<show, result, outcome, signalled, diskVars, editorVars, edited, tree>>

\* Mistake: the main goroutine waits for the worker's result.
ReceiveWorkers ==
  /\ main = "wait" /\ result # <<>> /\ Head(result).from = "worker"
  /\ outcome' = Head(result) /\ result' = Tail(result)
  /\ MainTo("stop")
  /\ UNCHANGED <<show, signalled, diskVars, editorVars, edited, tree>>

Receive ==
  /\ main = "wait"
  /\ result # <<>>
  /\ outcome' = Head(result) /\ result' = Tail(result)
  /\ MainTo("stop")
  /\ UNCHANGED <<show, signalled, diskVars, editorVars, edited, tree>>

\* The deferred calls, the last first.  stop also cancels the context, which lets the
\* watcher go.
Stop ==
  /\ main = "stop"
  /\ signalled' = TRUE
  /\ MainTo("close")
  /\ UNCHANGED <<show, result, outcome, diskVars, editorVars, edited, tree>>

CloseTemp ==
  /\ main = "close"
  /\ open' = FALSE
  /\ MainTo("remove")
  /\ UNCHANGED <<show, result, outcome, signalled, dir, file, editorVars, edited, tree>>

\* os.RemoveAll removes what is in the directory, then the directory if it is empty; its
\* error is dropped.
RemoveFile ==
  /\ main = "remove"
  /\ file' = Absent
  /\ MainTo("rmdir")
  /\ UNCHANGED <<show, result, outcome, signalled, dir, open, editorVars, edited, tree>>

\* Mistake: what an editor saves meanwhile goes with the directory.
RemoveDirWhole ==
  /\ main = "rmdir" /\ dir' = FALSE /\ MainTo("returned")
  /\ UNCHANGED <<show, result, outcome, signalled, file, open, editorVars, edited, tree>>

RemoveDir ==
  /\ main = "rmdir"
  /\ dir' = (file # Absent)
  /\ MainTo("returned")
  /\ UNCHANGED <<show, result, outcome, signalled, file, open, editorVars, edited, tree>>

Main ==
  \/ Mkdir \/ CreateTemp \/ Notify \/ Fork \/ Receive
  \/ Stop \/ CloseTemp \/ RemoveFile \/ RemoveDir

-----------------------------------------------------------------------------
(***************************************************************************)
(* Signals and the watcher                                                 *)
(***************************************************************************)
\* While the context catches signals they only cancel it.
Signal ==
  /\ ~Over
  /\ Handled /\ main # "stop"
  /\ signalled' = TRUE
  /\ UNCHANGED <<show, procVars, result, outcome, diskVars, editorVars, edited, tree>>

\* Before and after that a signal ends the process where it is.
SignalKills ==
  /\ ~Over /\ ~Handled
  /\ main' = "killed"
  /\ UNCHANGED <<show, watcher, worker, result, outcome, signalled, diskVars,
                 editorVars, edited, tree>>

Watch ==
  /\ ~Over
  /\ watcher = "armed" /\ signalled
  /\ result = <<>>
  /\ result' = <<Error("watcher")>> /\ watcher' = "done"
  /\ UNCHANGED <<show, main, worker, outcome, signalled, diskVars, editorVars, edited, tree>>

-----------------------------------------------------------------------------
(***************************************************************************)
(* The worker                                                              *)
(***************************************************************************)
WorkerTo(next) == worker' = next /\ UNCHANGED <<main, watcher>>
WorkerAt(place) == ~Over /\ worker = place

\* Whatever goes wrong becomes an error sent on the channel.
Fails == WorkerTo("failed")

\* The tree is marshalled and written; the file may be closed or gone by now.
Emit ==
  /\ WorkerAt("emit")
  /\ \/ /\ open
        /\ file' = IF file = Absent THEN Absent ELSE Emitted
        /\ WorkerTo("hash")
     \/ Fails /\ UNCHANGED file
  /\ UNCHANGED <<show, result, outcome, signalled, dir, open, editorVars, edited, tree>>

\* The hash of what was written is taken, and tmpfile closed.
HashOriginal ==
  /\ WorkerAt("hash")
  /\ \/ file # Absent /\ open /\ open' = FALSE /\ WorkerTo("start")
     \/ Fails /\ UNCHANGED open
  /\ UNCHANGED <<show, result, outcome, signalled, dir, file, editorVars, edited, tree>>

StartEditor ==
  /\ WorkerAt("start")
  /\ \/ editor' = "running" /\ WorkerTo("editing")
     \/ Fails /\ UNCHANGED editor
  /\ UNCHANGED <<show, result, outcome, signalled, diskVars, strayed, left, edited, tree>>

\* Mistake: the worker does not wait for the editor.
EditorStarted ==
  /\ WorkerAt("editing")
  /\ WorkerTo("compare") \/ Fails
  /\ UNCHANGED <<show, result, outcome, signalled, diskVars, editorVars, edited, tree>>

\* cmd.Run returns when the process it started has exited.
EditorReturned ==
  /\ WorkerAt("editing")
  /\ editor = "exited"
  /\ WorkerTo("compare") \/ Fails
  /\ UNCHANGED <<show, result, outcome, signalled, diskVars, editorVars, edited, tree>>

\* An unchanged file is an error.
Compare ==
  /\ WorkerAt("compare")
  /\ \/ file # Absent /\ file # Emitted /\ WorkerTo("read")
     \/ Fails
  /\ UNCHANGED <<show, result, outcome, signalled, diskVars, editorVars, edited, tree>>

ReadEdited ==
  /\ WorkerAt("read")
  /\ \/ file # Absent /\ edited' = file /\ WorkerTo("judge")
     \/ Fails /\ UNCHANGED edited
  /\ UNCHANGED <<show, result, outcome, signalled, diskVars, editorVars, tree>>

\* A text that cannot be loaded or must not be encrypted: back to the editor.
Reject ==
  /\ WorkerAt("judge")
  /\ edited.form = "rejected"
  /\ WorkerTo("press")
  /\ UNCHANGED <<show, result, outcome, signalled, diskVars, editorVars, edited, tree>>

\* Mistake: the missing keys are reported, and the loop is left.
AdoptWithoutKeys ==
  /\ WorkerAt("judge") /\ ~show /\ edited.form # "rejected"
  /\ tree' = [tree EXCEPT !.value = edited.value]
  /\ WorkerTo("encrypt")
  /\ UNCHANGED <<show, result, outcome, signalled, diskVars, editorVars, edited>>

\* The edited values take the place of the tree's.
Adopt ==
  /\ WorkerAt("judge")
  /\ ~show
  /\ edited.form # "rejected"
  /\ tree' = [tree EXCEPT !.value = edited.value]
  /\ WorkerTo(IF tree.keyed THEN "encrypt" ELSE "press")
  /\ UNCHANGED <<show, result, outcome, signalled, diskVars, editorVars, edited>>

\* With the metadata in the file, opts.Tree is made to point to a tree loaded from it: the
\* values, the version and the keys are those of that tree, and the worker's stays.
AdoptWhole ==
  /\ WorkerAt("judge")
  /\ show
  /\ edited.form # "rejected"
  /\ CASE edited.form = "misversioned" -> Fails
       [] edited.form = "keyless"      -> WorkerTo("press")
       [] edited.form = "fine"         -> WorkerTo("encrypt")
  /\ UNCHANGED <<show, result, outcome, signalled, diskVars, editorVars, edited, tree>>

\* `Press enter to return to the editor, or Ctrl+C to exit.'
PressKey ==
  /\ WorkerAt("press")
  /\ WorkerTo("start")
  /\ UNCHANGED <<show, result, outcome, signalled, diskVars, editorVars, edited, tree>>

\* EncryptTree, then EmitEncryptedFile.
EncryptEdited ==
  /\ WorkerAt("encrypt")
  /\ WorkerTo("finished") \/ Fails
  /\ UNCHANGED <<show, result, outcome, signalled, diskVars, editorVars, edited, tree>>

\* Mistake: the worker returns on errors without sending them.
SendSuccess ==
  /\ ~Over /\ worker = "finished" /\ result = <<>>
  /\ result' = <<Success(tree)>> /\ WorkerTo("done")
  /\ UNCHANGED <<show, outcome, signalled, diskVars, editorVars, edited, tree>>

Send ==
  /\ ~Over
  /\ worker \in {"finished", "failed"}
  /\ result = <<>>
  /\ result' = <<IF worker = "finished" THEN Success(tree) ELSE Error("worker")>>
  /\ WorkerTo("done")
  /\ UNCHANGED <<show, outcome, signalled, diskVars, editorVars, edited, tree>>

Worker ==
  \/ Emit \/ HashOriginal \/ StartEditor \/ EditorReturned \/ Compare \/ ReadEdited
  \/ Reject \/ Adopt \/ AdoptWhole \/ EncryptEdited \/ Send

-----------------------------------------------------------------------------
(***************************************************************************)
(* The editor                                                              *)
(***************************************************************************)
Alive == editor = "running" \/ strayed

\* A save needs the directory; it creates the file if it is not there.
Save(t) ==
  /\ Alive /\ dir
  /\ file' = t
  /\ UNCHANGED <<show, procVars, result, outcome, signalled, dir, open, editorVars, edited, tree>>

EditorExits ==
  /\ editor = "running"
  /\ editor' = "exited" /\ left' = file
  /\ strayed' \in {strayed, TRUE}
  /\ UNCHANGED <<show, procVars, result, outcome, signalled, diskVars, edited, tree>>

\* Only a file with metadata in it can have a wrong version or no keys.
Typed == {t \in Text : t.form \in {"misversioned", "keyless"} => show}

Editor == EditorExits \/ \E t \in Typed : Save(t)

-----------------------------------------------------------------------------
\* An existing file has been decrypted, so that it has a key; the example file has those
\* of the options, if any.
EditInit ==
  /\ show \in BOOLEAN
  /\ main = "mkdir" /\ watcher = "none" /\ worker = "none"
  /\ result = <<>> /\ outcome = Error("main") /\ signalled = FALSE
  /\ dir = FALSE /\ file = Absent /\ open = FALSE
  /\ editor = "none" /\ strayed = FALSE /\ left = Absent /\ edited = Absent
  /\ tree \in {[value |-> Original, keyed |-> k] : k \in BOOLEAN}

EditNext == Main \/ Signal \/ SignalKills \/ Watch \/ Worker \/ PressKey \/ Editor

EditSpec == EditInit /\ [][EditNext]_editVars

\* The goroutines run on; nothing makes a user save, leave the editor or press a key.
FairEditSpec ==
  /\ EditSpec
  /\ WF_editVars(Main) /\ WF_editVars(Watch) /\ WF_editVars(Worker)

-----------------------------------------------------------------------------
(***************************************************************************)
(* Properties                                                              *)
(***************************************************************************)
\* Every variable has its type, and there is no file where there is no directory.
SessionTypeOK ==
  /\ show \in BOOLEAN /\ signalled \in BOOLEAN /\ dir \in BOOLEAN /\ open \in BOOLEAN
  /\ main \in {"mkdir", "create", "notify", "fork", "wait", "stop", "close", "remove", "rmdir",
               "returned", "killed"}
  /\ watcher \in {"none", "armed", "done"}
  /\ worker \in {"none", "emit", "hash", "start", "editing", "compare", "read", "judge", "press",
                 "encrypt", "finished", "failed", "done"}
  /\ result \in {<<>>} \cup {<<r>> : r \in Result} /\ outcome \in Result
  /\ editor \in {"none", "running", "exited"} /\ strayed \in BOOLEAN
  /\ {file, left, edited} \subseteq Text \cup {Empty, Absent}
  /\ tree \in Tree
  /\ file # Absent => dir

\* What the session returns to be written was read from the temporary file, could be
\* encrypted, and is encrypted for someone; and unless an editor went on behind the session's
\* back, it is what the user left there, changed from the original.  editTree hands
\* the tree from one goroutine to another, and a text that was rejected, or a signal, may
\* come in between.
SuccessIsWhatWasEdited ==
  outcome.ok /\ ~show =>
    /\ edited \in Text /\ edited.form # "rejected"
    /\ outcome.tree = [value |-> edited.value, keyed |-> TRUE]
    /\ ~strayed => edited = left /\ edited # Emitted

\* An answer of the worker leaves no directory behind, whatever signals arrive
\* while the deferred calls run: only an editor that went on could have brought it back.
\* (A signal that ends the process, or the editor still running after one, does leave it.)
NoFileAfterAnswer ==
  main = "returned" /\ outcome.from # "watcher" /\ ~strayed => ~dir

\* A signal that is caught ends the session, even if the editor never returns or
\* nobody presses a key (editTree takes the first of two results).
SignalEndsSession == signalled ~> Over

\* When the editor returns, the session ends or asks the user: no goroutine is left
\* waiting on the channel with the session unfinished.
EditorReturnLeadsOn == (worker = "editing" /\ editor = "exited") ~> (Over \/ worker = "press")

\* What the comments of runEditorUntilOk say: the values of the edited file replace those of
\* the tree, with --show-master-keys the whole tree.
EditsReachTheFile == outcome.ok /\ ~strayed => outcome.tree.value = edited.value
=============================================================================
