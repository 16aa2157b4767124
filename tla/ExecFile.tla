------------------------------- MODULE ExecFile -------------------------------
(***************************************************************************)
(* `sops exec-file' and `sops exec-env': a command is run with the         *)
(* decrypted file in a FIFO or a temporary file, or in its environment     *)
(* (cmd/sops/subcommand/exec).  Three actors: the main goroutine, the      *)
(* goroutine that writes into the FIFO, and the command, which opens,      *)
(* reads and ends as it likes.  sops catches no signal here.               *)
(***************************************************************************)
EXTENDS Integers

CONSTANTS
  Chunks,      \* the plaintext, as a number of writes into a pipe
  Room,        \* the chunks that a pipe holds
  MaxOpens     \* how often the command opens the file

ASSUME ExecAssumption == Chunks \in Nat \ {0} /\ Room \in Nat \ {0} /\ MaxOpens \in Nat

VARIABLES
  opts,        \* what the user asked for
  runner,      \* where the main goroutine is
  failed,      \* whether it returns an error
  writer,      \* where the goroutine that writes the FIFO is
  folder,      \* whether the temporary directory exists
  path,        \* what stands at the name given to the command
  held,        \* chunks in the regular file
  written,     \* chunks that went into the pipe
  pipe,        \* chunks in the pipe
  child,       \* where the command is
  opens,       \* how often it has opened the file
  taken,       \* chunks of the present or the last read
  ended        \* how its last read ended

childVars == <<child, opens, taken, ended>>
fileVars == <<folder, path, held>>
pipeVars == <<writer, written, pipe>>
execVars == <<opts, runner, failed, fileVars, pipeVars, childVars>>

\* The options of ExecOpts; the name of the file given with --filename may lead outside of
\* the directory; what exec-env is asked to put in the environment may not fit there.
Opts == [op : {"file"}, fifo : BOOLEAN, background : BOOLEAN, local : BOOLEAN]
          \cup [op : {"env"}, fits : BOOLEAN, background : BOOLEAN, same : BOOLEAN]

IsFile == opts.op = "file"
ExecOver == runner \in {"returned", "killed", "fatal", "replaced"}
Goes(next) == runner' = next /\ UNCHANGED <<opts, failed>>
Gives(error, next) == runner' = next /\ failed' = error /\ UNCHANGED opts

-----------------------------------------------------------------------------
(***************************************************************************)
(* The main goroutine                                                      *)
(***************************************************************************)
\* decrypt has succeeded.  exec-env has looked at every item of the tree: a nested value, or
\* an `=' in a key, is an error, and so is --background with --same-process.
Begin ==
  /\ runner = "begin"
  /\ IF ~IsFile /\ (~opts.fits \/ (opts.same /\ opts.background)) THEN Gives(TRUE, "returned")
     ELSE Goes("user")
  /\ UNCHANGED <<fileVars, pipeVars, childVars>>

\* log.Fatal ends the process and runs nothing that was deferred.
SwitchUser ==
  /\ runner = "user"
  /\ Goes(IF IsFile THEN "mkdir" ELSE "start") \/ Gives(TRUE, "fatal")
  /\ UNCHANGED <<fileVars, pipeVars, childVars>>

MakeDir ==
  /\ runner = "mkdir"
  /\ \/ folder' = TRUE /\ Goes("name")
     \/ folder' = folder /\ Gives(TRUE, "returned")
  /\ UNCHANGED <<path, held, pipeVars, childVars>>

CheckName ==
  /\ runner = "name"
  /\ IF opts.local THEN Goes(IF opts.fifo THEN "pipe" ELSE "file") ELSE Gives(TRUE, "remove")
  /\ UNCHANGED <<fileVars, pipeVars, childVars>>

GetPipe ==
  /\ runner = "pipe"
  /\ \/ path' = "fifo" /\ writer' = "started" /\ Goes("start")
     \/ Gives(TRUE, "remove") /\ UNCHANGED <<path, writer>>
  /\ UNCHANGED <<folder, held, written, pipe, childVars>>

\* Mistake: an error after the file was made returns at once.
GetFileReturns ==
  /\ runner = "file"
  /\ \/ path' = "file" /\ Goes("write")
     \/ path' \in {"absent", "file"} /\ Gives(TRUE, "returned")
  /\ UNCHANGED <<folder, held, pipeVars, childVars>>

\* Create, then Chmod, which may fail when the file is there.
GetFile ==
  /\ runner = "file"
  /\ \/ path' = "file" /\ Goes("write")
     \/ path' \in {"absent", "file"} /\ Gives(TRUE, "remove")
  /\ UNCHANGED <<folder, held, pipeVars, childVars>>

\* The error of Write is dropped: a full disk holds only the beginning.
WriteFile ==
  /\ runner = "write"
  /\ held' \in 0..Chunks
  /\ Goes("start")
  /\ UNCHANGED <<folder, path, pipeVars, childVars>>

\* cmd.Start, alone or in cmd.Run.
Starts(next) ==
  /\ child' = "running" /\ Goes(next)
  /\ UNCHANGED <<fileVars, pipeVars, opens, taken, ended>>

StartFails(next) == Gives(TRUE, next) /\ UNCHANGED <<fileVars, pipeVars, childVars>>

StartWithFile ==
  /\ runner = "start" /\ IsFile
  /\ Starts(IF opts.background THEN "remove" ELSE "wait") \/ StartFails("remove")

\* With --same-process the command takes the place of sops.
StartWithEnv ==
  /\ runner = "start" /\ ~IsFile
  /\ \/ Starts(CASE opts.background -> "returned"
                 [] ~opts.background /\ opts.same -> "replaced"
                 [] OTHER -> "wait")
     \/ StartFails("returned")

\* Mistake: the goroutine that writes is waited for too.
WaitForWriter ==
  /\ runner = "wait" /\ child = "exited" /\ (IsFile /\ opts.fifo => writer = "done")
  /\ \E e \in BOOLEAN : Gives(e, IF IsFile THEN "remove" ELSE "returned")
  /\ UNCHANGED <<fileVars, pipeVars, childVars>>

\* cmd.Run returns when the command has exited, with its status.
Wait ==
  /\ runner = "wait"
  /\ child = "exited"
  /\ \E e \in BOOLEAN : Gives(e, IF IsFile THEN "remove" ELSE "returned")
  /\ UNCHANGED <<fileVars, pipeVars, childVars>>

\* The deferred os.RemoveAll.
RemoveAll ==
  /\ runner = "remove"
  /\ folder' = FALSE /\ path' = "absent"
  /\ Goes("leave")
  /\ UNCHANGED <<held, pipeVars, childVars>>

\* Until main returns, the goroutine that writes runs on.
Leave ==
  /\ runner = "leave"
  /\ Goes("returned")
  /\ UNCHANGED <<fileVars, pipeVars, childVars>>

ExecMain ==
  \/ Begin \/ SwitchUser \/ MakeDir \/ CheckName \/ GetPipe \/ GetFile \/ WriteFile
  \/ StartWithFile \/ StartWithEnv \/ Wait \/ RemoveAll \/ Leave

\* A signal ends sops where it is, and with it the goroutine that writes.
Killed ==
  /\ ~ExecOver
  /\ Goes("killed")
  /\ UNCHANGED <<fileVars, pipeVars, childVars>>

-----------------------------------------------------------------------------
(***************************************************************************)
(* WritePipe                                                               *)
(***************************************************************************)
\* Opening a FIFO waits for a reader.  It fails when the FIFO is gone, and may fail when it is
\* there: then the name is removed.
OpenPipe ==
  /\ ~ExecOver /\ writer = "started"
  /\ \/ path = "fifo" /\ writer' = "opening" /\ UNCHANGED path
     \/ writer' = "failed" /\ path' = "absent"
  /\ UNCHANGED <<opts, runner, failed, folder, held, written, pipe, childVars>>

\* log.Fatal ends the process beside the main goroutine, whose deferred removal does not run.
FatalPipe ==
  /\ ~ExecOver /\ writer = "failed"
  /\ Gives(TRUE, "fatal")
  /\ UNCHANGED <<fileVars, pipeVars, childVars>>

\* A reader that opens and a writer that opens let each other go.
Meet ==
  /\ ~ExecOver /\ writer = "opening" /\ child = "opening"
  /\ writer' = "writing" /\ child' = "reading"
  /\ UNCHANGED <<opts, runner, failed, fileVars, written, pipe, opens, taken, ended>>

\* Without a reader the write fails, and the error is dropped.
WriteChunk ==
  /\ ~ExecOver /\ writer = "writing" /\ written < Chunks
  /\ \/ /\ child = "reading" /\ pipe < Room
        /\ pipe' = pipe + 1 /\ written' = written + 1 /\ UNCHANGED writer
     \/ /\ child # "reading"
        /\ writer' = "done" /\ pipe' = 0 /\ UNCHANGED written
  /\ UNCHANGED <<opts, runner, failed, fileVars, childVars>>

\* Mistake: the pipe is closed after the first write.
ClosePipeEarly ==
  /\ ~ExecOver /\ writer = "writing" /\ written > 0
  /\ writer' = "done"
  /\ UNCHANGED <<opts, runner, failed, fileVars, written, pipe, childVars>>

ClosePipe ==
  /\ ~ExecOver /\ writer = "writing" /\ written = Chunks
  /\ writer' = "done"
  /\ UNCHANGED <<opts, runner, failed, fileVars, written, pipe, childVars>>

WritePipe == OpenPipe \/ FatalPipe \/ Meet \/ WriteChunk \/ ClosePipe

-----------------------------------------------------------------------------
(***************************************************************************)
(* The command                                                             *)
(***************************************************************************)
\* Does the FIFO have a writer?
Writing == writer = "writing" /\ ~ExecOver

ChildTo(next) == child' = next /\ UNCHANGED <<opts, runner, failed, fileVars, writer, written>>

Open ==
  /\ child = "running" /\ IsFile /\ opens < MaxOpens
  /\ opens' = opens + 1 /\ taken' = 0
  /\ CASE path = "absent" -> ChildTo("running") /\ ended' = "absent"
       [] path = "file" \/ (path = "fifo" /\ Writing) -> ChildTo("reading") /\ ended' = "no"
       [] OTHER -> ChildTo("opening") /\ ended' = "no"
  /\ UNCHANGED pipe

\* An open file is read though its name is gone.
OfPipe == opts.fifo

Read ==
  /\ child = "reading"
  /\ IF OfPipe THEN pipe > 0 /\ pipe' = pipe - 1 ELSE taken < held /\ UNCHANGED pipe
  /\ taken' = taken + 1
  /\ ChildTo("reading")
  /\ UNCHANGED <<opens, ended>>

EndOfFile ==
  /\ child = "reading"
  /\ IF OfPipe THEN pipe = 0 /\ ~Writing ELSE taken = held
  /\ ended' = "eof"
  /\ ChildTo("running")
  /\ UNCHANGED <<pipe, opens, taken>>

\* It may close the file before the end, and what is in a pipe is lost with its readers.
CloseEarly ==
  /\ child = "reading"
  /\ ended' = "early"
  /\ pipe' = IF Writing THEN pipe ELSE 0
  /\ ChildTo("running")
  /\ UNCHANGED <<opens, taken>>

\* It may remove the file.
Unlink ==
  /\ child = "running" /\ path # "absent"
  /\ path' = "absent"
  /\ UNCHANGED <<opts, runner, failed, folder, held, pipeVars, childVars>>

Exit ==
  /\ child = "running"
  /\ ChildTo("exited")
  /\ UNCHANGED <<pipe, opens, taken, ended>>

Command == Open \/ Read \/ EndOfFile \/ CloseEarly \/ Unlink \/ Exit

-----------------------------------------------------------------------------
ExecInit ==
  /\ opts \in Opts
  /\ runner = "begin" /\ failed = FALSE
  /\ folder = FALSE /\ path = "absent" /\ held = 0
  /\ writer = "none" /\ written = 0 /\ pipe = 0
  /\ child = "none" /\ opens = 0 /\ taken = 0 /\ ended = "no"

ExecNext == ExecMain \/ Killed \/ WritePipe \/ Command

ExecSpec == ExecInit /\ [][ExecNext]_execVars

\* The goroutines run on, and a command that reads reads on; nothing makes it open the file,
\* or exit.
ExecFairness ==
  /\ WF_execVars(ExecMain) /\ WF_execVars(WritePipe) /\ WF_execVars(Read \/ EndOfFile)

FairExecSpec == ExecSpec /\ ExecFairness

-----------------------------------------------------------------------------
(***************************************************************************)
(* Properties                                                              *)
(***************************************************************************)
\* Every variable has its type, and a file needs its directory.
ExecTypeOK ==
  /\ opts \in Opts /\ failed \in BOOLEAN /\ folder \in BOOLEAN
  /\ runner \in {"begin", "user", "mkdir", "name", "pipe", "file", "write", "start", "wait", "remove",
               "leave", "returned", "killed", "fatal", "replaced"}
  /\ path \in {"absent", "fifo", "file"} /\ (path # "absent" => folder)
  /\ writer \in {"none", "started", "opening", "failed", "writing", "done"}
  /\ held \in 0..Chunks /\ written \in 0..Chunks /\ pipe \in 0..Room
  /\ child \in {"none", "running", "opening", "reading", "exited"}
  /\ opens \in 0..MaxOpens /\ taken \in 0..Chunks /\ ended \in {"no", "absent", "eof", "early"}

\* While sops waits for the command, the first file that the command reads to its end holds all
\* of the plaintext; a regular file does as often as it is read.  Only what the disk did not
\* take is missing, because the error of handle.Write is dropped (exec.go:95).
ReadsAreWhole ==
  runner = "wait" /\ ended = "eof" /\ (opts.fifo => opens = 1) =>
    taken = IF opts.fifo THEN Chunks ELSE held

\* Whichever way sops ends by itself, no clear text stays on the disk: after the errors of every
\* step, and after log.Fatal, by which the goroutine that writes may end the process beside the
\* main goroutine.  The directory is gone too, unless that goroutine could not open its FIFO:
\* then it stays, and is empty.  Only a signal leaves a file.
NothingLeftBehind ==
  runner \in {"returned", "fatal", "replaced"} =>
    /\ path = "absent"
    /\ folder => runner = "fatal" /\ writer = "failed"

\* sops ends when its command has, though it never read the FIFO and the goroutine waits for a
\* reader; and a command that opens the FIFO for the first time is served, unless sops is ended
\* by a signal or because its own opening of the FIFO fails.
CommandIsServed ==
  /\ (runner = "wait" /\ child = "exited") ~> ExecOver
  /\ (runner = "wait" /\ child = "opening" /\ opens = 1) ~> (child # "opening" \/ runner \in {"killed", "fatal"})
=============================================================================
