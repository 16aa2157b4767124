SPECIFICATION CipherSpec
CONSTANTS
  MaxDepth = 4
  Documents <- MCDotenvDocuments
  Rules <- MCUnmarked
  Edits <- MCEdits
  MarkedNames <- MCMarkedNames
  MarkedTexts <- MCMarkedTexts
  On <- MCOn
  Off <- MCOff
  MaxRounds = 2
INVARIANTS
  StoredAsDocumented
CHECK_DEADLOCK FALSE
