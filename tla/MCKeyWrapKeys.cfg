SPECIFICATION FairSpec
CONSTANTS
  age = age
  pgp = pgp
  d1 = d1
  d2 = d2
  DataKey = {d1, d2}
  KeyType = {age, pgp}
  DecryptionOrder <- MCDecryptionOrder
  NoKey = NoKey
  Garbage = Garbage
  NoPart = NoPart
  MaxShares = 3
  MaxGroups = 2
  MaxKeys = 2
  MaxSvcs = 2
  MaxSplits = 1
INVARIANTS
  TypeOK
  GroupAnswersByFirstGoodKey
  LoopProgress
PROPERTY CallsEnd
