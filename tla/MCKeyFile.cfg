SPECIFICATION FileSpec
CONSTANTS
  age = age
  pgp = pgp
  d1 = d1
  d2 = d2
  DataKey = {d1, d2}
  KeyType = {age, pgp}
  DecryptionOrder <- MCDecryptionOrder
  StoredOrder <- MCStoredOrder
  NoKey = NoKey
  Garbage = Garbage
  NoPart = NoPart
  MaxShares = 3
  MaxGroups = 3
  MaxKeys = 2
  MaxSvcs = 1
  MaxSplits = 2
INVARIANTS
  FileTypeOK
  FileReadable
  TornOnlyWhileWriting
PROPERTIES
  FileKeptOnErrors
  RotateRenewsTheKey
