SPECIFICATION PublishSpec
CONSTANTS
  Jobs <- MCJobs
  Matching <- MCMatching
  MasterKeys <- MCMasterKeys
  KeyGroups <- MCKeyGroups
INVARIANTS
  PublishedLikeCreated
CHECK_DEADLOCK FALSE
