SPECIFICATION CipherSpec
CONSTANTS
  MaxDepth = 4
  Documents <- MCDocuments
  Rules <- MCRules
  Edits <- MCEdits
  MarkedNames <- MCMarkedNames
  MarkedTexts <- MCMarkedTexts
  On <- MCOn
  Off <- MCOff
  MaxRounds = 2
INVARIANTS
  CipherTypeOK
  EncryptsWhatIsMeant
  UnchangedKeepTheirCiphertext
  EditsAreLocal
PROPERTIES
  DecryptUndoesEncrypt
  FormatsKeepValues
  CommentsStayInPxf
CHECK_DEADLOCK FALSE
