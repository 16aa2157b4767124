SPECIFICATION Spec
CONSTANTS
  age = age
  pgp = pgp
  d1 = d1
  d2 = d2
  DataKey = {d1, d2}
  KeyType = {age}
  DecryptionOrder <- MCDecryptionOrder
  NoKey = NoKey
  Garbage = Garbage
  NoPart = NoPart
  MaxShares = 3
  MaxGroups = 2
  MaxKeys = 1
  MaxSvcs = 1
  MaxSplits = 2
PROPERTY ThresholdZeroMeansAnyKey
