--------------------------- MODULE CleartextProofs ---------------------------
(***************************************************************************)
(* Theorems about the commands that put clear text into a temporary        *)
(* directory and run a program on it: ExecFile, for any length of the      *)
(* plaintext, any room in the pipe, and however often the command opens    *)
(* the file; and EditSession, for any values of a file.                    *)
(***************************************************************************)
EXTENDS ExecFile, EditSession, TLAPS

-----------------------------------------------------------------------------
(***************************************************************************)
(* exec-file and exec-env                                                  *)
(***************************************************************************)

Fifo == IsFile /\ opts.fifo
Regular == IsFile /\ ~opts.fifo

\* Where the main goroutine is, against what is in the temporary directory.
FolderInv ==
  /\ runner \in {"begin", "user", "mkdir", "leave", "returned", "replaced"} \/ ~IsFile
       => ~folder /\ path = "absent"
  /\ runner = "fatal" => path = "absent" /\ (folder => writer = "failed")
  /\ runner \in {"mkdir", "name", "pipe", "file", "write", "remove", "leave"} => IsFile
  /\ runner \in {"name", "pipe", "file", "write"} => folder
  /\ runner = "pipe" => Fifo
  /\ runner \in {"file", "write"} => Regular
  /\ runner \in {"begin", "user", "mkdir", "name", "pipe", "file"} => path = "absent" /\ writer = "none"
  /\ runner \in {"begin", "user", "mkdir", "name", "pipe", "file", "write", "start"} => child = "none"
  /\ IsFile => runner # "replaced"
  /\ path = "file" => Regular
  /\ path = "fifo" => Fifo
  /\ writer # "none" => Fifo
  /\ writer = "failed" => path = "absent"

\* What the writer and the command have done with the file.
PipeInv ==
  /\ child = "none" => opens = 0 /\ taken = 0
  /\ opens = 0 => /\ child \in {"none", "running", "exited"} /\ ended = "no"
                  /\ writer \in {"none", "started", "opening", "failed"}
  /\ opens # 0 => IsFile
  /\ ended = "no" => opens = 0 \/ child \in {"opening", "reading"}
  /\ child \in {"opening", "reading"} => IsFile /\ ended = "no"
  /\ child = "opening" => taken = 0
  /\ Regular => child # "opening" /\ taken <= held
  /\ ~Fifo => writer = "none" /\ pipe = 0 /\ written = 0
  /\ writer \in {"none", "started", "opening", "failed"} => written = 0
  /\ pipe <= written
  /\ Fifo /\ child = "reading" => taken + pipe <= written

\* The command has opened the file once, and what has become of the chunks is known: they
\* are read, or in the pipe, unless the command closed the file before the end.
FirstReadInv ==
  Fifo /\ opens = 1 =>
    /\ child = "opening" => writer \in {"none", "started", "opening", "failed"}
    /\ child = "reading" => writer \in {"writing", "done"} /\ taken + pipe = written
    /\ writer = "done" /\ ended \in {"no", "eof"} => written = Chunks \/ ExecOver
    /\ ended = "eof" => ExecOver \/ (taken = Chunks /\ writer = "done")

RegularReadInv == Regular /\ ended = "eof" => taken = held

ExecInv == ExecTypeOK /\ FolderInv /\ PipeInv /\ FirstReadInv /\ RegularReadInv

\* The variables keep their types: what was written bounds what is read, and a pipe its chunks.
LEMMA ExecTypeStep ==
  ASSUME ExecTypeOK, FolderInv, PipeInv, [ExecNext]_execVars
  PROVE  ExecTypeOK'
<1> USE ExecAssumption DEF execVars, fileVars, pipeVars, childVars, Opts, IsFile, ExecOver, Fifo,
        Regular, ExecTypeOK, FolderInv, PipeInv
<1>1. CASE Begin
  BY <1>1 DEF Begin, Goes, Gives
<1>2. CASE SwitchUser
  BY <1>2 DEF SwitchUser, Goes, Gives
<1>3. CASE MakeDir
  BY <1>3 DEF MakeDir, Goes, Gives
<1>4. CASE CheckName
  BY <1>4 DEF CheckName, Goes, Gives
<1>5. CASE GetPipe
  BY <1>5 DEF GetPipe, Goes, Gives
<1>6. CASE GetFile
  BY <1>6 DEF GetFile, Goes, Gives
<1>7. CASE WriteFile
  BY <1>7 DEF WriteFile, Goes
<1>8. CASE StartWithFile
  BY <1>8 DEF StartWithFile, Starts, StartFails, Goes, Gives
<1>9. CASE StartWithEnv
  BY <1>9 DEF StartWithEnv, Starts, StartFails, Goes, Gives
<1>10. CASE Wait
  BY <1>10 DEF Wait, Gives
<1>11. CASE RemoveAll
  BY <1>11 DEF RemoveAll, Goes
<1>12. CASE Leave
  BY <1>12 DEF Leave, Goes
<1>13. CASE Killed
  BY <1>13 DEF Killed, Goes
<1>14. CASE OpenPipe
  BY <1>14 DEF OpenPipe
<1>15. CASE Meet
  BY <1>15 DEF Meet
<1>16. CASE WriteChunk
  BY <1>16 DEF WriteChunk
<1>17. CASE ClosePipe
  BY <1>17 DEF ClosePipe
<1>18. CASE Open
  BY <1>18 DEF Open, ChildTo, Writing
<1>19. CASE Read
  BY <1>19 DEF Read, ChildTo, OfPipe
<1>20. CASE EndOfFile
  BY <1>20 DEF EndOfFile, ChildTo, OfPipe, Writing
<1>21. CASE CloseEarly
  BY <1>21 DEF CloseEarly, ChildTo, Writing
<1>22. CASE Exit
  BY <1>22 DEF Exit, ChildTo
<1>23. CASE FatalPipe
  BY <1>23 DEF FatalPipe, Gives
<1>24. CASE Unlink
  BY <1>24 DEF Unlink
<1>25. CASE UNCHANGED execVars
  BY <1>25
<1> QED
  BY <1>1, <1>2, <1>3, <1>4, <1>5, <1>6, <1>7, <1>8, <1>9, <1>10, <1>11, <1>12, <1>13, <1>14, <1>15,
     <1>16, <1>17, <1>18, <1>19, <1>20, <1>21, <1>22, <1>23, <1>24, <1>25
  DEF ExecNext, ExecMain, WritePipe, Command

\* Every step of the main goroutine and of the writer keeps account of the directory.
LEMMA FolderStep ==
  ASSUME ExecTypeOK, FolderInv, [ExecNext]_execVars
  PROVE  FolderInv'
<1> USE ExecAssumption DEF execVars, fileVars, pipeVars, childVars, Opts, IsFile, ExecOver, Fifo,
        Regular, ExecTypeOK, FolderInv
<1>1. CASE Begin
  BY <1>1 DEF Begin, Goes, Gives
<1>2. CASE SwitchUser
  BY <1>2 DEF SwitchUser, Goes, Gives
<1>3. CASE MakeDir
  BY <1>3 DEF MakeDir, Goes, Gives
<1>4. CASE CheckName
  BY <1>4 DEF CheckName, Goes, Gives
<1>5. CASE GetPipe
  BY <1>5 DEF GetPipe, Goes, Gives
<1>6. CASE GetFile
  BY <1>6 DEF GetFile, Goes, Gives
<1>7. CASE WriteFile
  BY <1>7 DEF WriteFile, Goes
<1>8. CASE StartWithFile
  BY <1>8 DEF StartWithFile, Starts, StartFails, Goes, Gives
<1>9. CASE StartWithEnv
  BY <1>9 DEF StartWithEnv, Starts, StartFails, Goes, Gives
<1>10. CASE Wait
  BY <1>10 DEF Wait, Gives
<1>11. CASE RemoveAll
  BY <1>11 DEF RemoveAll, Goes
<1>12. CASE Leave
  BY <1>12 DEF Leave, Goes
<1>13. CASE Killed
  BY <1>13 DEF Killed, Goes
<1>14. CASE OpenPipe
  BY <1>14 DEF OpenPipe
<1>15. CASE Meet
  BY <1>15 DEF Meet
<1>16. CASE WriteChunk
  BY <1>16 DEF WriteChunk
<1>17. CASE ClosePipe
  BY <1>17 DEF ClosePipe
<1>18. CASE Open
  BY <1>18 DEF Open, ChildTo, Writing
<1>19. CASE Read
  BY <1>19 DEF Read, ChildTo, OfPipe
<1>20. CASE EndOfFile
  BY <1>20 DEF EndOfFile, ChildTo, OfPipe, Writing
<1>21. CASE CloseEarly
  BY <1>21 DEF CloseEarly, ChildTo, Writing
<1>22. CASE Exit
  BY <1>22 DEF Exit, ChildTo
<1>23. CASE FatalPipe
  BY <1>23 DEF FatalPipe, Gives
<1>24. CASE Unlink
  BY <1>24 DEF Unlink
<1>25. CASE UNCHANGED execVars
  BY <1>25
<1> QED
  BY <1>1, <1>2, <1>3, <1>4, <1>5, <1>6, <1>7, <1>8, <1>9, <1>10, <1>11, <1>12, <1>13, <1>14, <1>15,
     <1>16, <1>17, <1>18, <1>19, <1>20, <1>21, <1>22, <1>23, <1>24, <1>25
  DEF ExecNext, ExecMain, WritePipe, Command

\* Chunks are read from what was written, once the writer has met a reader.
LEMMA PipeStep ==
  ASSUME ExecTypeOK, FolderInv, PipeInv, [ExecNext]_execVars
  PROVE  PipeInv'
<1> USE ExecAssumption DEF execVars, fileVars, pipeVars, childVars, Opts, IsFile, ExecOver, Fifo,
        Regular, ExecTypeOK, FolderInv, PipeInv
<1>1. CASE Begin
  BY <1>1 DEF Begin, Goes, Gives
<1>2. CASE SwitchUser
  BY <1>2 DEF SwitchUser, Goes, Gives
<1>3. CASE MakeDir
  BY <1>3 DEF MakeDir, Goes, Gives
<1>4. CASE CheckName
  BY <1>4 DEF CheckName, Goes, Gives
<1>5. CASE GetPipe
  BY <1>5 DEF GetPipe, Goes, Gives
<1>6. CASE GetFile
  BY <1>6 DEF GetFile, Goes, Gives
<1>7. CASE WriteFile
  BY <1>7 DEF WriteFile, Goes
<1>8. CASE StartWithFile
  BY <1>8 DEF StartWithFile, Starts, StartFails, Goes, Gives
<1>9. CASE StartWithEnv
  BY <1>9 DEF StartWithEnv, Starts, StartFails, Goes, Gives
<1>10. CASE Wait
  BY <1>10 DEF Wait, Gives
<1>11. CASE RemoveAll
  BY <1>11 DEF RemoveAll, Goes
<1>12. CASE Leave
  BY <1>12 DEF Leave, Goes
<1>13. CASE Killed
  BY <1>13 DEF Killed, Goes
<1>14. CASE OpenPipe
  BY <1>14 DEF OpenPipe
<1>15. CASE Meet
  BY <1>15 DEF Meet
<1>16. CASE WriteChunk
  BY <1>16 DEF WriteChunk
<1>17. CASE ClosePipe
  BY <1>17 DEF ClosePipe
<1>18. CASE Open
  BY <1>18 DEF Open, ChildTo, Writing
<1>19. CASE Read
  BY <1>19 DEF Read, ChildTo, OfPipe
<1>20. CASE EndOfFile
  BY <1>20 DEF EndOfFile, ChildTo, OfPipe, Writing
<1>21. CASE CloseEarly
  BY <1>21 DEF CloseEarly, ChildTo, Writing
<1>22. CASE Exit
  BY <1>22 DEF Exit, ChildTo
<1>23. CASE FatalPipe
  BY <1>23 DEF FatalPipe, Gives
<1>24. CASE Unlink
  BY <1>24 DEF Unlink
<1>25. CASE UNCHANGED execVars
  BY <1>25
<1> QED
  BY <1>1, <1>2, <1>3, <1>4, <1>5, <1>6, <1>7, <1>8, <1>9, <1>10, <1>11, <1>12, <1>13, <1>14, <1>15,
     <1>16, <1>17, <1>18, <1>19, <1>20, <1>21, <1>22, <1>23, <1>24, <1>25
  DEF ExecNext, ExecMain, WritePipe, Command

\* No chunk of the first read is lost: the writer closes the pipe after the last one, or finds
\* no reader.
LEMMA ReadStep ==
  ASSUME ExecTypeOK, FolderInv, PipeInv, FirstReadInv, RegularReadInv, [ExecNext]_execVars
  PROVE  (FirstReadInv /\ RegularReadInv)'
<1> USE ExecAssumption DEF execVars, fileVars, pipeVars, childVars, Opts, IsFile, ExecOver, Fifo,
        Regular, ExecTypeOK, FolderInv, PipeInv, FirstReadInv, RegularReadInv
<1>1. CASE Begin
  BY <1>1 DEF Begin, Goes, Gives
<1>2. CASE SwitchUser
  BY <1>2 DEF SwitchUser, Goes, Gives
<1>3. CASE MakeDir
  BY <1>3 DEF MakeDir, Goes, Gives
<1>4. CASE CheckName
  BY <1>4 DEF CheckName, Goes, Gives
<1>5. CASE GetPipe
  BY <1>5 DEF GetPipe, Goes, Gives
<1>6. CASE GetFile
  BY <1>6 DEF GetFile, Goes, Gives
<1>7. CASE WriteFile
  BY <1>7 DEF WriteFile, Goes
<1>8. CASE StartWithFile
  BY <1>8 DEF StartWithFile, Starts, StartFails, Goes, Gives
<1>9. CASE StartWithEnv
  BY <1>9 DEF StartWithEnv, Starts, StartFails, Goes, Gives
<1>10. CASE Wait
  BY <1>10 DEF Wait, Gives
<1>11. CASE RemoveAll
  BY <1>11 DEF RemoveAll, Goes
<1>12. CASE Leave
  BY <1>12 DEF Leave, Goes
<1>13. CASE Killed
  BY <1>13 DEF Killed, Goes
<1>14. CASE OpenPipe
  BY <1>14 DEF OpenPipe
<1>15. CASE Meet
  BY <1>15 DEF Meet
<1>16. CASE WriteChunk
  BY <1>16 DEF WriteChunk
<1>17. CASE ClosePipe
  BY <1>17 DEF ClosePipe
<1>18. CASE Open
  BY <1>18 DEF Open, ChildTo, Writing
<1>19. CASE Read
  BY <1>19 DEF Read, ChildTo, OfPipe
<1>20. CASE EndOfFile
  BY <1>20 DEF EndOfFile, ChildTo, OfPipe, Writing
<1>21. CASE CloseEarly
  BY <1>21 DEF CloseEarly, ChildTo, Writing
<1>22. CASE Exit
  BY <1>22 DEF Exit, ChildTo
<1>23. CASE FatalPipe
  BY <1>23 DEF FatalPipe, Gives
<1>24. CASE Unlink
  BY <1>24 DEF Unlink
<1>25. CASE UNCHANGED execVars
  BY <1>25
<1> QED
  BY <1>1, <1>2, <1>3, <1>4, <1>5, <1>6, <1>7, <1>8, <1>9, <1>10, <1>11, <1>12, <1>13, <1>14, <1>15,
     <1>16, <1>17, <1>18, <1>19, <1>20, <1>21, <1>22, <1>23, <1>24, <1>25
  DEF ExecNext, ExecMain, WritePipe, Command

\* The inductive invariant.
THEOREM ExecInvariant == ExecSpec => []ExecInv
<1>1. ExecInit => ExecInv
  <2> SUFFICES ASSUME ExecInit PROVE ExecInv
    OBVIOUS
  <2> USE ExecAssumption DEF ExecInit
  <2>1. ExecTypeOK
    <3>1. 0 \in 0..Chunks /\ 0 \in 0..Room /\ 0 \in 0..MaxOpens
      OBVIOUS
    <3> QED
      BY <3>1 DEF ExecTypeOK
  <2>2. FolderInv
    BY DEF FolderInv
  <2>3. PipeInv
    BY DEF PipeInv
  <2>4. FirstReadInv /\ RegularReadInv
    BY DEF FirstReadInv, RegularReadInv
  <2> QED
    BY <2>1, <2>2, <2>3, <2>4 DEF ExecInv
<1>2. ExecInv /\ [ExecNext]_execVars => ExecInv'
  BY ExecTypeStep, FolderStep, PipeStep, ReadStep DEF ExecInv
<1> QED
  BY <1>1, <1>2, PTL DEF ExecSpec

\* Every variable of ExecFile keeps its type, however long the plaintext is and however little
\* the pipe holds.
THEOREM ExecTypesCorrect == ExecSpec => []ExecTypeOK
<1>1. ExecInv => ExecTypeOK
  BY DEF ExecInv
<1> QED
  BY <1>1, ExecInvariant, PTL

\* Whichever way sops ends by itself, by the return of ExecWithFile or by log.Fatal in one of its
\* goroutines, no clear text stays on the disk; and no directory, unless its FIFO was not opened.
THEOREM NothingIsLeftBehind == ExecSpec => []NothingLeftBehind
<1>1. ExecInv => NothingLeftBehind
  BY DEF ExecInv, FolderInv, NothingLeftBehind
<1> QED
  BY <1>1, ExecInvariant, PTL

\* While sops waits for the command, what the command reads to the end is the whole file: the
\* first time from a FIFO, at all times from a regular file.
THEOREM ReadsAreAlwaysWhole == ExecSpec => []ReadsAreWhole
<1>1. ExecInv => ReadsAreWhole
  <2> SUFFICES ASSUME ExecInv, runner = "wait", ended = "eof", opts.fifo => opens = 1
               PROVE  taken = IF opts.fifo THEN Chunks ELSE held
    BY DEF ReadsAreWhole
  <2>1. IsFile
    BY DEF ExecInv, PipeInv
  <2>2. CASE opts.fifo
    BY <2>1, <2>2 DEF ExecInv, FirstReadInv, Fifo, ExecOver
  <2>3. CASE ~opts.fifo
    BY <2>1, <2>3 DEF ExecInv, RegularReadInv, Regular
  <2> QED
    BY <2>2, <2>3
<1> QED
  BY <1>1, ExecInvariant, PTL
-----------------------------------------------------------------------------
(***************************************************************************)
(* edit                                                                    *)
(***************************************************************************)

\* A running editor is the one that the worker waits for.
EditorInv ==
  /\ main \in {"mkdir", "create", "notify", "fork"} =>
       worker = "none" /\ watcher = "none" /\ result = <<>>
  /\ worker = "none" => editor = "none" /\ ~strayed
  /\ editor = "running" => worker = "editing"
  /\ main = "mkdir" => ~dir
  /\ main = "create" => dir

\* Every answer has a sender, who is done when it is sent.
AnswerInv ==
  /\ result # <<>> => Head(result).from = "watcher" \/ (Head(result).from = "worker" /\ worker = "done")
  /\ main \in {"stop", "close", "remove", "rmdir", "returned"} =>
       \/ outcome.from = "main" /\ worker = "none"
       \/ outcome.from = "watcher"
       \/ outcome.from = "worker" /\ worker = "done"

\* Nobody writes while the directory is removed after an answer of the worker.
RemovalInv ==
  outcome.from # "watcher" /\ ~strayed =>
    /\ main = "rmdir" => file = Absent
    /\ main = "returned" => ~dir

\* From the end of the editor to the reading of the file, nobody else writes it.
LeftInv ==
  /\ worker \in {"hash", "start", "editing", "compare", "read", "judge", "press"} =>
       file \in Text \cup {Absent}
  /\ worker = "judge" => edited \in Text
  /\ ~strayed =>
       /\ (worker = "editing" /\ editor = "exited") \/ worker \in {"compare", "read"} =>
            file \in {left, Absent}
       /\ worker = "read" /\ ~show => file # Emitted \/ file = Absent

\* What was read is what was left, and the text that is judged is the one that is encrypted.
Judged == edited \in Text /\ (~strayed => edited = left /\ edited # Emitted)
Encryptable == Judged /\ edited.form # "rejected" /\ tree = [value |-> edited.value, keyed |-> TRUE]

EncryptInv ==
  ~show =>
    /\ worker = "judge" => Judged
    /\ worker \in {"encrypt", "finished"} => Encryptable
    /\ result # <<>> /\ Head(result).ok => worker = "done" /\ Encryptable /\ Head(result).tree = tree
    /\ outcome.ok => worker = "done" /\ Encryptable /\ outcome.tree = tree

EditInv == SessionTypeOK /\ EditorInv /\ AnswerInv /\ RemovalInv /\ LeftInv /\ EncryptInv

\* What goes through the channel has the type of its variables.
LEMMA OneResult ==
  ASSUME SessionTypeOK, result # <<>>
  PROVE  Head(result) \in Result /\ Tail(result) = <<>>
<1>1. PICK r \in Result : result = <<r>>
  BY DEF SessionTypeOK
<1> QED
  BY <1>1

\* An error is a result, whoever sends it.
LEMMA ErrorIsResult == \A s \in {"main", "watcher", "worker"} : Error(s) \in Result
  BY EditAssumption DEF Error, Result, Tree, NoTree

\* So is a success.
LEMMA SuccessIsResult == \A t \in Tree : Success(t) \in Result
  BY DEF Success, Result

\* What is written for the editor is a text.
LEMMA EmittedIsText == Emitted \in Text
  BY EditAssumption DEF Emitted, Text, Form

\* A text that is taken makes a tree.
LEMMA AdoptedIsTree ==
  \A t \in Tree, e \in Text : [t EXCEPT !.value = e.value] \in Tree
  BY DEF Tree, Text

\* A text with metadata is judged in one of three ways, and only the worker moves.
LEMMA WholeIsJudged ==
  ASSUME LeftInv, AdoptWhole
  PROVE  /\ show /\ worker = "judge" /\ worker' \in {"failed", "press", "encrypt"}
         /\ UNCHANGED <<main, watcher>>
         /\ UNCHANGED <<show, result, outcome, signalled, diskVars, editorVars, edited, tree>>
<1>1. worker = "judge" /\ edited.form \in Form
  BY DEF LeftInv, AdoptWhole, WorkerAt, Text
<1>2. CASE edited.form = "misversioned"
  BY <1>1, <1>2 DEF AdoptWhole, WorkerTo, Fails
<1>3. CASE edited.form = "keyless"
  BY <1>1, <1>3 DEF AdoptWhole, WorkerTo, Fails
<1>4. CASE edited.form = "fine"
  BY <1>1, <1>4 DEF AdoptWhole, WorkerTo, Fails
<1>5. show /\ edited.form # "rejected"
  BY DEF AdoptWhole
<1> QED
  BY <1>1, <1>2, <1>3, <1>4, <1>5 DEF Form

\* The variables keep their types.
LEMMA TypeStep ==
  ASSUME SessionTypeOK, EditorInv, LeftInv, [EditNext]_editVars
  PROVE  SessionTypeOK'
<1> USE EditAssumption DEF editVars, procVars, diskVars, editorVars, SessionTypeOK, EditorInv
<1>1. CASE Mkdir
  BY <1>1, ErrorIsResult DEF Mkdir, MainTo
<1>2. CASE CreateTemp
  BY <1>2, ErrorIsResult DEF CreateTemp, MainTo
<1>3. CASE Notify
  BY <1>3 DEF Notify, MainTo
<1>4. CASE Fork
  BY <1>4 DEF Fork
<1>5. CASE Receive
  BY <1>5, OneResult DEF Receive, MainTo
<1>6. CASE Stop
  BY <1>6 DEF Stop, MainTo
<1>7. CASE CloseTemp
  BY <1>7 DEF CloseTemp, MainTo
<1>8. CASE RemoveFile
  BY <1>8 DEF RemoveFile, MainTo
<1>9. CASE RemoveDir
  BY <1>9 DEF RemoveDir, MainTo
<1>10. CASE Signal
  BY <1>10 DEF Signal, Over, Handled
<1>11. CASE SignalKills
  BY <1>11 DEF SignalKills, Over, Handled
<1>12. CASE Watch
  BY <1>12, ErrorIsResult DEF Watch, Over
<1>13. CASE Emit
  BY <1>13, EmittedIsText DEF Emit, WorkerTo, WorkerAt, Fails, Over
<1>14. CASE HashOriginal
  BY <1>14 DEF HashOriginal, WorkerTo, WorkerAt, Fails, Over
<1>15. CASE StartEditor
  BY <1>15 DEF StartEditor, WorkerTo, WorkerAt, Fails, Over
<1>16. CASE EditorReturned
  BY <1>16 DEF EditorReturned, WorkerTo, WorkerAt, Fails, Over
<1>17. CASE Compare
  BY <1>17 DEF Compare, WorkerTo, WorkerAt, Fails, Over
<1>18. CASE ReadEdited
  BY <1>18 DEF ReadEdited, WorkerTo, WorkerAt, Fails, Over
<1>19. CASE Reject
  BY <1>19 DEF Reject, WorkerTo, WorkerAt, Fails, Over
<1>20. CASE Adopt
  BY <1>20, AdoptedIsTree DEF Adopt, WorkerTo, WorkerAt, Fails, Over, LeftInv
<1>21. CASE AdoptWhole
  BY <1>21, WholeIsJudged
<1>22. CASE PressKey
  BY <1>22 DEF PressKey, WorkerTo, WorkerAt, Over
<1>23. CASE EncryptEdited
  BY <1>23 DEF EncryptEdited, WorkerTo, WorkerAt, Fails, Over
<1>24. CASE Send
  BY <1>24, ErrorIsResult, SuccessIsResult DEF Send, WorkerTo, Over
<1>25. CASE EditorExits
  BY <1>25 DEF EditorExits
<1>26. ASSUME NEW t \in Typed, Save(t) PROVE SessionTypeOK'
  BY <1>26 DEF Save, Alive, Typed
<1>27. CASE UNCHANGED editVars
  BY <1>27
<1> QED
  BY <1>1, <1>2, <1>3, <1>4, <1>5, <1>6, <1>7, <1>8, <1>9, <1>10, <1>11, <1>12, <1>13,
     <1>14, <1>15, <1>16, <1>17, <1>18, <1>19, <1>20, <1>21, <1>22, <1>23, <1>24, <1>25, <1>26,
     <1>27
     DEF EditNext, Main, Worker, Editor

\* Who runs beside whom.
LEMMA EditorStep ==
  ASSUME SessionTypeOK, EditorInv, LeftInv, [EditNext]_editVars
  PROVE  EditorInv'
<1> USE EditAssumption DEF editVars, procVars, diskVars, editorVars, SessionTypeOK, EditorInv
<1>1. CASE Mkdir
  BY <1>1 DEF Mkdir, MainTo
<1>2. CASE CreateTemp
  BY <1>2 DEF CreateTemp, MainTo
<1>3. CASE Notify
  BY <1>3 DEF Notify, MainTo
<1>4. CASE Fork
  BY <1>4 DEF Fork
<1>5. CASE Receive
  BY <1>5, OneResult DEF Receive, MainTo
<1>6. CASE Stop
  BY <1>6 DEF Stop, MainTo
<1>7. CASE CloseTemp
  BY <1>7 DEF CloseTemp, MainTo
<1>8. CASE RemoveFile
  BY <1>8 DEF RemoveFile, MainTo
<1>9. CASE RemoveDir
  BY <1>9 DEF RemoveDir, MainTo
<1>10. CASE Signal
  BY <1>10 DEF Signal, Over, Handled
<1>11. CASE SignalKills
  BY <1>11 DEF SignalKills, Over, Handled
<1>12. CASE Watch
  BY <1>12 DEF Watch, Over
<1>13. CASE Emit
  BY <1>13 DEF Emit, WorkerTo, WorkerAt, Fails, Over
<1>14. CASE HashOriginal
  BY <1>14 DEF HashOriginal, WorkerTo, WorkerAt, Fails, Over
<1>15. CASE StartEditor
  BY <1>15 DEF StartEditor, WorkerTo, WorkerAt, Fails, Over
<1>16. CASE EditorReturned
  BY <1>16 DEF EditorReturned, WorkerTo, WorkerAt, Fails, Over
<1>17. CASE Compare
  BY <1>17 DEF Compare, WorkerTo, WorkerAt, Fails, Over
<1>18. CASE ReadEdited
  BY <1>18 DEF ReadEdited, WorkerTo, WorkerAt, Fails, Over
<1>19. CASE Reject
  BY <1>19 DEF Reject, WorkerTo, WorkerAt, Fails, Over
<1>20. CASE Adopt
  BY <1>20 DEF Adopt, WorkerTo, WorkerAt, Fails, Over
<1>21. CASE AdoptWhole
  BY <1>21, WholeIsJudged
<1>22. CASE PressKey
  BY <1>22 DEF PressKey, WorkerTo, WorkerAt, Over
<1>23. CASE EncryptEdited
  BY <1>23 DEF EncryptEdited, WorkerTo, WorkerAt, Fails, Over
<1>24. CASE Send
  BY <1>24 DEF Send, WorkerTo, Over
<1>25. CASE EditorExits
  BY <1>25 DEF EditorExits
<1>26. ASSUME NEW t \in Typed, Save(t) PROVE EditorInv'
  BY <1>26 DEF Save, Alive, Typed
<1>27. CASE UNCHANGED editVars
  BY <1>27
<1> QED
  BY <1>1, <1>2, <1>3, <1>4, <1>5, <1>6, <1>7, <1>8, <1>9, <1>10, <1>11, <1>12, <1>13,
     <1>14, <1>15, <1>16, <1>17, <1>18, <1>19, <1>20, <1>21, <1>22, <1>23, <1>24, <1>25, <1>26,
     <1>27
     DEF EditNext, Main, Worker, Editor

\* Who has answered.
LEMMA AnswerStep ==
  ASSUME SessionTypeOK, EditorInv, LeftInv, AnswerInv, [EditNext]_editVars
  PROVE  AnswerInv'
<1> USE EditAssumption DEF editVars, procVars, diskVars, editorVars, SessionTypeOK, EditorInv,
        AnswerInv
<1>1. CASE Mkdir
  BY <1>1 DEF Mkdir, MainTo, Error
<1>2. CASE CreateTemp
  BY <1>2 DEF CreateTemp, MainTo, Error
<1>3. CASE Notify
  BY <1>3 DEF Notify, MainTo
<1>4. CASE Fork
  BY <1>4 DEF Fork
<1>5. CASE Receive
  BY <1>5, OneResult DEF Receive, MainTo
<1>6. CASE Stop
  BY <1>6 DEF Stop, MainTo
<1>7. CASE CloseTemp
  BY <1>7 DEF CloseTemp, MainTo
<1>8. CASE RemoveFile
  BY <1>8 DEF RemoveFile, MainTo
<1>9. CASE RemoveDir
  BY <1>9 DEF RemoveDir, MainTo
<1>10. CASE Signal
  BY <1>10 DEF Signal, Over, Handled
<1>11. CASE SignalKills
  BY <1>11 DEF SignalKills, Over, Handled
<1>12. CASE Watch
  BY <1>12 DEF Watch, Over, Error
<1>13. CASE Emit
  BY <1>13 DEF Emit, WorkerTo, WorkerAt, Fails, Over
<1>14. CASE HashOriginal
  BY <1>14 DEF HashOriginal, WorkerTo, WorkerAt, Fails, Over
<1>15. CASE StartEditor
  BY <1>15 DEF StartEditor, WorkerTo, WorkerAt, Fails, Over
<1>16. CASE EditorReturned
  BY <1>16 DEF EditorReturned, WorkerTo, WorkerAt, Fails, Over
<1>17. CASE Compare
  BY <1>17 DEF Compare, WorkerTo, WorkerAt, Fails, Over
<1>18. CASE ReadEdited
  BY <1>18 DEF ReadEdited, WorkerTo, WorkerAt, Fails, Over
<1>19. CASE Reject
  BY <1>19 DEF Reject, WorkerTo, WorkerAt, Fails, Over
<1>20. CASE Adopt
  BY <1>20 DEF Adopt, WorkerTo, WorkerAt, Fails, Over
<1>21. CASE AdoptWhole
  BY <1>21, WholeIsJudged
<1>22. CASE PressKey
  BY <1>22 DEF PressKey, WorkerTo, WorkerAt, Over
<1>23. CASE EncryptEdited
  BY <1>23 DEF EncryptEdited, WorkerTo, WorkerAt, Fails, Over
<1>24. CASE Send
  BY <1>24 DEF Send, WorkerTo, Over, Error, Success
<1>25. CASE EditorExits
  BY <1>25 DEF EditorExits
<1>26. ASSUME NEW t \in Typed, Save(t) PROVE AnswerInv'
  BY <1>26 DEF Save, Alive, Typed
<1>27. CASE UNCHANGED editVars
  BY <1>27
<1> QED
  BY <1>1, <1>2, <1>3, <1>4, <1>5, <1>6, <1>7, <1>8, <1>9, <1>10, <1>11, <1>12, <1>13,
     <1>14, <1>15, <1>16, <1>17, <1>18, <1>19, <1>20, <1>21, <1>22, <1>23, <1>24, <1>25, <1>26,
     <1>27
     DEF EditNext, Main, Worker, Editor

\* After an answer of the worker the editor is gone, and nobody brings the file back.
LEMMA RemovalStep ==
  ASSUME SessionTypeOK, EditorInv, LeftInv, AnswerInv, RemovalInv, [EditNext]_editVars
  PROVE  RemovalInv'
<1> USE EditAssumption DEF editVars, procVars, diskVars, editorVars, SessionTypeOK, EditorInv,
        AnswerInv, RemovalInv
<1>1. CASE Mkdir
  BY <1>1 DEF Mkdir, MainTo, Error
<1>2. CASE CreateTemp
  BY <1>2 DEF CreateTemp, MainTo, Error
<1>3. CASE Notify
  BY <1>3 DEF Notify, MainTo
<1>4. CASE Fork
  BY <1>4 DEF Fork
<1>5. CASE Receive
  BY <1>5, OneResult DEF Receive, MainTo
<1>6. CASE Stop
  BY <1>6 DEF Stop, MainTo
<1>7. CASE CloseTemp
  BY <1>7 DEF CloseTemp, MainTo
<1>8. CASE RemoveFile
  BY <1>8 DEF RemoveFile, MainTo
<1>9. CASE RemoveDir
  BY <1>9 DEF RemoveDir, MainTo
<1>10. CASE Signal
  BY <1>10 DEF Signal, Over, Handled
<1>11. CASE SignalKills
  BY <1>11 DEF SignalKills, Over, Handled
<1>12. CASE Watch
  BY <1>12 DEF Watch, Over
<1>13. CASE Emit
  BY <1>13 DEF Emit, WorkerTo, WorkerAt, Fails, Over
<1>14. CASE HashOriginal
  BY <1>14 DEF HashOriginal, WorkerTo, WorkerAt, Fails, Over
<1>15. CASE StartEditor
  BY <1>15 DEF StartEditor, WorkerTo, WorkerAt, Fails, Over
<1>16. CASE EditorReturned
  BY <1>16 DEF EditorReturned, WorkerTo, WorkerAt, Fails, Over
<1>17. CASE Compare
  BY <1>17 DEF Compare, WorkerTo, WorkerAt, Fails, Over
<1>18. CASE ReadEdited
  BY <1>18 DEF ReadEdited, WorkerTo, WorkerAt, Fails, Over
<1>19. CASE Reject
  BY <1>19 DEF Reject, WorkerTo, WorkerAt, Fails, Over
<1>20. CASE Adopt
  BY <1>20 DEF Adopt, WorkerTo, WorkerAt, Fails, Over
<1>21. CASE AdoptWhole
  BY <1>21, WholeIsJudged
<1>22. CASE PressKey
  BY <1>22 DEF PressKey, WorkerTo, WorkerAt, Over
<1>23. CASE EncryptEdited
  BY <1>23 DEF EncryptEdited, WorkerTo, WorkerAt, Fails, Over
<1>24. CASE Send
  BY <1>24 DEF Send, WorkerTo, Over
<1>25. CASE EditorExits
  BY <1>25 DEF EditorExits
<1>26. ASSUME NEW t \in Typed, Save(t) PROVE RemovalInv'
  BY <1>26 DEF Save, Alive, Typed
<1>27. CASE UNCHANGED editVars
  BY <1>27
<1> QED
  BY <1>1, <1>2, <1>3, <1>4, <1>5, <1>6, <1>7, <1>8, <1>9, <1>10, <1>11, <1>12, <1>13,
     <1>14, <1>15, <1>16, <1>17, <1>18, <1>19, <1>20, <1>21, <1>22, <1>23, <1>24, <1>25, <1>26,
     <1>27
     DEF EditNext, Main, Worker, Editor

\* Between the end of the editor and the reading of the file only the main goroutine touches it.
LEMMA LeftStep ==
  ASSUME SessionTypeOK, EditorInv, LeftInv, [EditNext]_editVars
  PROVE  LeftInv'
<1> USE EditAssumption DEF editVars, procVars, diskVars, editorVars, SessionTypeOK, EditorInv,
        LeftInv, Emitted
<1>1. CASE Mkdir
  BY <1>1 DEF Mkdir, MainTo
<1>2. CASE CreateTemp
  BY <1>2 DEF CreateTemp, MainTo
<1>3. CASE Notify
  BY <1>3 DEF Notify, MainTo
<1>4. CASE Fork
  BY <1>4 DEF Fork
<1>5. CASE Receive
  BY <1>5, OneResult DEF Receive, MainTo
<1>6. CASE Stop
  BY <1>6 DEF Stop, MainTo
<1>7. CASE CloseTemp
  BY <1>7 DEF CloseTemp, MainTo
<1>8. CASE RemoveFile
  BY <1>8 DEF RemoveFile, MainTo
<1>9. CASE RemoveDir
  BY <1>9 DEF RemoveDir, MainTo
<1>10. CASE Signal
  BY <1>10 DEF Signal, Over, Handled
<1>11. CASE SignalKills
  BY <1>11 DEF SignalKills, Over, Handled
<1>12. CASE Watch
  BY <1>12 DEF Watch, Over
<1>13. CASE Emit
  BY <1>13, EmittedIsText DEF Emit, WorkerTo, WorkerAt, Fails, Over
<1>14. CASE HashOriginal
  BY <1>14 DEF HashOriginal, WorkerTo, WorkerAt, Fails, Over
<1>15. CASE StartEditor
  BY <1>15 DEF StartEditor, WorkerTo, WorkerAt, Fails, Over
<1>16. CASE EditorReturned
  BY <1>16 DEF EditorReturned, WorkerTo, WorkerAt, Fails, Over
<1>17. CASE Compare
  BY <1>17 DEF Compare, WorkerTo, WorkerAt, Fails, Over
<1>18. CASE ReadEdited
  BY <1>18 DEF ReadEdited, WorkerTo, WorkerAt, Fails, Over
<1>19. CASE Reject
  BY <1>19 DEF Reject, WorkerTo, WorkerAt, Fails, Over
<1>20. CASE Adopt
  BY <1>20 DEF Adopt, WorkerTo, WorkerAt, Fails, Over
<1>21. CASE AdoptWhole
  BY <1>21, WholeIsJudged
<1>22. CASE PressKey
  BY <1>22 DEF PressKey, WorkerTo, WorkerAt, Over
<1>23. CASE EncryptEdited
  BY <1>23 DEF EncryptEdited, WorkerTo, WorkerAt, Fails, Over
<1>24. CASE Send
  BY <1>24 DEF Send, WorkerTo, Over
<1>25. CASE EditorExits
  BY <1>25 DEF EditorExits
<1>26. ASSUME NEW t \in Typed, Save(t) PROVE LeftInv'
  BY <1>26 DEF Save, Alive, Typed
<1>27. CASE UNCHANGED editVars
  BY <1>27
<1> QED
  BY <1>1, <1>2, <1>3, <1>4, <1>5, <1>6, <1>7, <1>8, <1>9, <1>10, <1>11, <1>12, <1>13,
     <1>14, <1>15, <1>16, <1>17, <1>18, <1>19, <1>20, <1>21, <1>22, <1>23, <1>24, <1>25, <1>26,
     <1>27
     DEF EditNext, Main, Worker, Editor

\* What was judged is what is encrypted and sent.
LEMMA EncryptStep ==
  ASSUME SessionTypeOK, EditorInv, AnswerInv, LeftInv, EncryptInv, [EditNext]_editVars
  PROVE  EncryptInv'
<1> USE EditAssumption DEF editVars, procVars, diskVars, editorVars, SessionTypeOK, EditorInv,
        AnswerInv, LeftInv, EncryptInv, Judged, Encryptable, Emitted, Tree
<1>1. CASE Mkdir
  BY <1>1 DEF Mkdir, MainTo, Error
<1>2. CASE CreateTemp
  BY <1>2 DEF CreateTemp, MainTo, Error
<1>3. CASE Notify
  BY <1>3 DEF Notify, MainTo
<1>4. CASE Fork
  BY <1>4 DEF Fork
<1>5. CASE Receive
  BY <1>5, OneResult DEF Receive, MainTo
<1>6. CASE Stop
  BY <1>6 DEF Stop, MainTo
<1>7. CASE CloseTemp
  BY <1>7 DEF CloseTemp, MainTo
<1>8. CASE RemoveFile
  BY <1>8 DEF RemoveFile, MainTo
<1>9. CASE RemoveDir
  BY <1>9 DEF RemoveDir, MainTo
<1>10. CASE Signal
  BY <1>10 DEF Signal, Over, Handled
<1>11. CASE SignalKills
  BY <1>11 DEF SignalKills, Over, Handled
<1>12. CASE Watch
  BY <1>12 DEF Watch, Over, Error
<1>13. CASE Emit
  BY <1>13 DEF Emit, WorkerTo, WorkerAt, Fails, Over
<1>14. CASE HashOriginal
  BY <1>14 DEF HashOriginal, WorkerTo, WorkerAt, Fails, Over
<1>15. CASE StartEditor
  BY <1>15 DEF StartEditor, WorkerTo, WorkerAt, Fails, Over
<1>16. CASE EditorReturned
  BY <1>16 DEF EditorReturned, WorkerTo, WorkerAt, Fails, Over
<1>17. CASE Compare
  BY <1>17 DEF Compare, WorkerTo, WorkerAt, Fails, Over
<1>18. CASE ReadEdited
  BY <1>18 DEF ReadEdited, WorkerTo, WorkerAt, Fails, Over
<1>19. CASE Reject
  BY <1>19 DEF Reject, WorkerTo, WorkerAt, Fails, Over
<1>20. CASE Adopt
  BY <1>20 DEF Adopt, WorkerTo, WorkerAt, Fails, Over
<1>21. CASE AdoptWhole
  BY <1>21, WholeIsJudged
<1>22. CASE PressKey
  BY <1>22 DEF PressKey, WorkerTo, WorkerAt, Over
<1>23. CASE EncryptEdited
  BY <1>23 DEF EncryptEdited, WorkerTo, WorkerAt, Fails, Over
<1>24. CASE Send
  BY <1>24 DEF Send, WorkerTo, Over, Error, Success
<1>25. CASE EditorExits
  BY <1>25 DEF EditorExits
<1>26. ASSUME NEW t \in Typed, Save(t) PROVE EncryptInv'
  BY <1>26 DEF Save, Alive, Typed
<1>27. CASE UNCHANGED editVars
  BY <1>27
<1> QED
  BY <1>1, <1>2, <1>3, <1>4, <1>5, <1>6, <1>7, <1>8, <1>9, <1>10, <1>11, <1>12, <1>13,
     <1>14, <1>15, <1>16, <1>17, <1>18, <1>19, <1>20, <1>21, <1>22, <1>23, <1>24, <1>25, <1>26,
     <1>27
     DEF EditNext, Main, Worker, Editor

\* The inductive invariant of a session.
THEOREM EditInvariant == EditSpec => []EditInv
<1>1. EditInit => EditInv
  <2> SUFFICES ASSUME EditInit PROVE EditInv
    OBVIOUS
  <2> USE EditAssumption DEF EditInit
  <2>1. SessionTypeOK
    <3>1. tree \in Tree
      BY DEF Tree
    <3>2. outcome \in Result
      BY ErrorIsResult
    <3> QED
      BY <3>1, <3>2 DEF SessionTypeOK
  <2>2. EditorInv /\ AnswerInv /\ RemovalInv
    BY DEF EditorInv, AnswerInv, RemovalInv
  <2>3. LeftInv /\ EncryptInv
    BY DEF LeftInv, EncryptInv, Error
  <2> QED
    BY <2>1, <2>2, <2>3 DEF EditInv
<1>2. EditInv /\ [EditNext]_editVars => EditInv'
  BY TypeStep, EditorStep, AnswerStep, RemovalStep, LeftStep, EncryptStep DEF EditInv
<1> QED
  BY <1>1, <1>2, PTL DEF EditSpec

\* What a session returns to be written was read from the temporary file, could be encrypted, and
\* is encrypted for someone; and it is what the user left there, whatever the values are, however
\* often the user returned to the editor and whatever signals came.
THEOREM SuccessIsEdited == EditSpec => []SuccessIsWhatWasEdited
<1>1. EditInv => SuccessIsWhatWasEdited
  BY DEF EditInv, EncryptInv, Encryptable, Judged, SuccessIsWhatWasEdited
<1> QED
  BY <1>1, EditInvariant, PTL

\* An answer of the worker leaves no clear text behind.
THEOREM NoFileIsLeft == EditSpec => []NoFileAfterAnswer
<1>1. EditInv => NoFileAfterAnswer
  BY DEF EditInv, RemovalInv, NoFileAfterAnswer
<1> QED
  BY <1>1, EditInvariant, PTL
=============================================================================
