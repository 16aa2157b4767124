-------------------------- MODULE SubcommandsProofs --------------------------
(***************************************************************************)
(* Theorems about Subcommands: in one run of sops every part behaves as    *)
(* its own specification says, so that what is proved of the parts holds   *)
(* of the whole.                                                           *)
(***************************************************************************)
EXTENDS Subcommands, CleartextProofs, AgeIdentitiesProofs, KeyServerProofs, PublishProofs

-----------------------------------------------------------------------------
(***************************************************************************)
(* Beginnings                                                              *)
(***************************************************************************)
\* A part that does not run begins as it could if it ran.
LEMMA IdleInputs ==
  /\ \A p : Running(p, Opts, IdleOpts) \subseteq Opts
  /\ \A p : Running(p, Setups, CHOOSE s \in Setups : TRUE) \subseteq Setups
  /\ \A p : Running(p, Jobs, IdleJob) \subseteq Jobs
  /\ \A p : Running(p, Environments, [s \in Sources |-> Unset]) \subseteq Environments
  /\ \A p : Running(p, Asks, [by |-> "default"]) \subseteq Asks
<1>1. IdleOpts \in Opts
  BY DEF IdleOpts, Opts
<1>2. (CHOOSE s \in Setups : TRUE) \in Setups
  BY PartsAssumption
<1>3. IdleJob \in Jobs
  BY PartsAssumption DEF IdleJob
<1>4. [s \in Sources |-> Unset] \in Environments
  BY PartsAssumption
<1>5. [by |-> "default"] \in Asks
  BY DEF Asks
<1> QED BY <1>1, <1>2, <1>3, <1>4, <1>5 DEF Running

LEMMA PartsBegin ==
  SubcommandsInit => ExecInit /\ EditInit /\ AgeInit /\ ServerInit /\ PublishInit
<1> SUFFICES ASSUME SubcommandsInit PROVE AgeInit
  BY DEF SubcommandsInit
<1> QED BY IdleInputs DEF SubcommandsInit, AgeInit

-----------------------------------------------------------------------------
(***************************************************************************)
(* Steps                                                                   *)
(***************************************************************************)
\* A step of one part is none of the others.
LEMMA PartsStep ==
  [SubcommandsNext]_allVars =>
    /\ [ExecNext]_execVars /\ [EditNext]_editVars /\ [AgeNext]_ageVars
    /\ [ServerNext]_serverVars /\ [PublishNext]_publishVars
BY DEF SubcommandsNext, allVars

\* Of the parts' own specifications nothing is lost in their composition.
THEOREM PartsRunAsSpecified ==
  SubcommandsSpec => ExecSpec /\ EditSpec /\ AgeSpec /\ ServerSpec /\ PublishSpec
BY PartsBegin, PartsStep, PTL
   DEF SubcommandsSpec, ExecSpec, EditSpec, AgeSpec, ServerSpec, PublishSpec

LEMMA OnePart == SubcommandsSpec => [](part \in Parts)
<1>1. SubcommandsInit => part \in Parts
  BY DEF SubcommandsInit
<1>2. part \in Parts /\ [SubcommandsNext]_allVars => (part \in Parts)'
  <2>1. [SubcommandsNext]_allVars => part' = part
    BY DEF SubcommandsNext, allVars
  <2> QED BY <2>1 DEF Parts
<1> QED BY <1>1, <1>2, PTL DEF SubcommandsSpec

-----------------------------------------------------------------------------
(***************************************************************************)
(* Theorems                                                                *)
(***************************************************************************)
\* The type invariant of every part holds in every run of sops.
THEOREM SubcommandsTypeCorrect == SubcommandsSpec => []SubcommandsTypeOK
<1>1. part \in Parts /\ ExecTypeOK /\ EditInv /\ AgeTypeOK /\ ServerTypeOK /\ PublishTypeOK
        => SubcommandsTypeOK
  BY DEF SubcommandsTypeOK, EditInv
<1> QED
  BY <1>1, OnePart, PartsRunAsSpecified, ExecTypesCorrect, EditInvariant, AgeTypeCorrect,
     ServerTypeCorrect, PublishTypeCorrect, PTL

\* And so do the properties that were proved of the parts: what a command reads and what exec-file,
\* edit and publish leave behind, what an edit session encrypts, which identities open a file,
\* what the key service answers, and who can read what was made.
THEOREM SubcommandsKeepTheirPromises ==
  SubcommandsSpec =>
    [](/\ ReadsAreWhole /\ NothingLeftBehind
       /\ SuccessIsWhatWasEdited /\ NoFileAfterAnswer
       /\ AnyNativeIdentityOpens /\ ChosenRecipientOpens
       /\ RepliesAreOwn /\ OneYesOneReply /\ FailsForAReason
       /\ FilesOpen /\ KeysAsConfigured /\ SecretsStaySealed /\ WalkPublishesAll /\ RotatedAsAsked)
BY PartsRunAsSpecified, ReadsAreAlwaysWhole, NothingIsLeftBehind, SuccessIsEdited, NoFileIsLeft,
   EveryNativeIdentityOpens, ChosenRecipientsOpen, RepliesAreAlwaysOwn, EveryReplyHasItsYes,
   FailuresHaveReasons, EveryFileOpens, FilesHaveTheConfiguredKeys, NothingLeaksIntoBuckets,
   WalksPublishAll, RotatedKeysAreAsAsked, PTL
=============================================================================
