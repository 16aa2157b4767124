SPECIFICATION EditSpec
CONSTANTS
  v0 = v0
  v1 = v1
  Value = {v0, v1}
  Original = v0
  Empty = Empty
  Absent = Absent
INVARIANTS
  EditsReachTheFile
CHECK_DEADLOCK FALSE
