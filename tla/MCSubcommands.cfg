SPECIFICATION SubcommandsSpec
CONSTANTS
  Chunks = 2
  Room = 1
  MaxOpens = 2
  k1 = k1
  k2 = k2
  s1 = s1
  p1 = p1
  n1 = n1
  n2 = n2
  c1 = c1
  c2 = c2
  v0 = v0
  v1 = v1
  Value = {v0, v1}
  Original = v0
  Empty = Empty
  Absent = Absent
  Environments <- MCEnvironments
  Recipients <- MCRecipients
  Names = {n1, n2}
  NoName = NoName
  Malformed = Malformed
  NoRecipient = NoRecipient
  Clients = {c1, c2}
  Setups <- MCSetups
  Nothing = Nothing
  MaxVersion = 2
  MaxTyped = 3
  Jobs <- MCJobs
  Matching <- MCMatching
  MasterKeys <- MCMasterKeys
  KeyGroups <- MCKeyGroups
INVARIANTS
  SubcommandsTypeOK
  ReadsAreWhole
  NothingLeftBehind
  SuccessIsWhatWasEdited
  NoFileAfterAnswer
  AnyNativeIdentityOpens
  ChosenRecipientOpens
  RepliesAreOwn
  OneYesOneReply
  FailsForAReason
  FilesOpen
  KeysAsConfigured
  SecretsStaySealed
  WalkPublishesAll
  RotatedAsAsked
PROPERTIES
  CommandIsServed
  SignalEndsSession
  EditorReturnLeadsOn
  CancelledCallsReturn
CHECK_DEADLOCK FALSE
