SPECIFICATION Spec
CONSTANTS
  age = age
  pgp = pgp
  d1 = d1
  d2 = d2
  DataKey = {d1, d2}
  KeyType = {age}
  DecryptionOrder <- MCDecryptionOrder
  NoKey = NoKey
  Garbage = Garbage
  NoPart = NoPart
  MaxShares = 3
  MaxGroups = 3
  MaxKeys = 1
  MaxSvcs = 2
  MaxSplits = 2
INVARIANTS
  UpdateSeals
  RecoversTheSealedKey
  QuorumDecides
PROPERTY ImplementsCustody
