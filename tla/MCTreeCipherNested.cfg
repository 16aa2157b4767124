SPECIFICATION CipherSpec
CONSTANTS
  MaxDepth = 4
  Documents <- MCNestedDocuments
  Rules <- MCRules
  Edits <- MCEdits
  MarkedNames <- MCMarkedNames
  MarkedTexts <- MCMarkedTexts
  On <- MCOn
  Off <- MCOff
  MaxRounds = 2
PROPERTIES
  DirectivesRoundTrip
CHECK_DEADLOCK FALSE
