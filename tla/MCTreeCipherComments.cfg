SPECIFICATION CipherSpec
CONSTANTS
  MaxDepth = 4
  Documents <- MCYamlDocuments
  Rules <- MCRules
  Edits <- MCEdits
  MarkedNames <- MCMarkedNames
  MarkedTexts <- MCMarkedTexts
  On <- MCOn
  Off <- MCOff
  MaxRounds = 2
PROPERTIES
  SealedDocumentsOpen
CHECK_DEADLOCK FALSE
