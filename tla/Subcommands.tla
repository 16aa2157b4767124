------------------------------ MODULE Subcommands ------------------------------
(***************************************************************************)
(* One run of sops is one of its subcommands: here those that run beside   *)
(* other programs (cmd/sops/main.go, app.Commands).  The parts share no    *)
(* state, and in one run only one of them moves: exec-file and exec-env    *)
(* run a command, edit runs an editor, keyservice serves clients, encrypt  *)
(* and publish make files for others to read, and a command that encrypts  *)
(* for an age recipient and decrypts again looks for identities.           *)
(***************************************************************************)
EXTENDS ExecFile, EditSession, AgeIdentities, KeyServer, Publish

VARIABLE
  part     \* the subcommand

allVars == <<part, execVars, editVars, ageVars, serverVars, publishVars>>

Parts == {"exec", "edit", "age", "keyservice", "publish"}

\* A part that does not run stays where it would begin.
Running(p, inputs, idle) == IF part = p THEN inputs ELSE {idle}

IdleOpts == [op |-> "env", fits |-> TRUE, background |-> FALSE, same |-> FALSE]
IdleJob == CHOOSE j \in Jobs : j.op = "package"

\* There is something to begin with: a server, an option of encrypt, and no age source set.
ASSUME PartsAssumption ==
  /\ Setups # {} /\ \E j \in Jobs : j.op = "package"
  /\ [s \in Sources |-> Unset] \in Environments

SubcommandsInit ==
  /\ part \in Parts
  /\ opts \in Running("exec", Opts, IdleOpts) /\ ExecInit
  /\ show \in Running("edit", BOOLEAN, FALSE) /\ EditInit /\ (part # "edit" => tree.keyed)
  /\ \E setup \in Running("keyservice", Setups, CHOOSE s \in Setups : TRUE) :
       host = setup.host /\ key = setup.keys
  /\ ServerInit
  /\ job \in Running("publish", Jobs, IdleJob) /\ PublishInit
  /\ env \in Running("age", Environments, [s \in Sources |-> Unset])
  /\ asked \in Running("age", Asks, [by |-> "default"]) /\ AgeStart

SubcommandsNext ==
  \/ part = "exec" /\ ExecNext /\ UNCHANGED <<part, editVars, ageVars, serverVars, publishVars>>
  \/ part = "edit" /\ EditNext /\ UNCHANGED <<part, execVars, ageVars, serverVars, publishVars>>
  \/ part = "age" /\ AgeNext /\ UNCHANGED <<part, execVars, editVars, serverVars, publishVars>>
  \/ part = "keyservice" /\ ServerNext /\ UNCHANGED <<part, execVars, editVars, ageVars, publishVars>>
  \/ part = "publish" /\ PublishNext /\ UNCHANGED <<part, execVars, editVars, ageVars, serverVars>>

\* The fairness of ExecFairness, FairEditSpec and ServerFairness, for the part that runs.
SubcommandsFairness ==
  /\ WF_execVars(part = "exec" /\ ExecMain)
  /\ WF_execVars(part = "exec" /\ WritePipe)
  /\ WF_execVars(part = "exec" /\ (Read \/ EndOfFile))
  /\ WF_editVars(part = "edit" /\ Main)
  /\ WF_editVars(part = "edit" /\ Watch)
  /\ WF_editVars(part = "edit" /\ Worker)
  /\ \A p \in Clients : WF_serverVars(part = "keyservice" /\ Request(p))

SubcommandsSpec == SubcommandsInit /\ [][SubcommandsNext]_allVars /\ SubcommandsFairness

\* The type invariants of the parts.
SubcommandsTypeOK ==
  part \in Parts /\ ExecTypeOK /\ SessionTypeOK /\ AgeTypeOK /\ ServerTypeOK /\ PublishTypeOK
=============================================================================
