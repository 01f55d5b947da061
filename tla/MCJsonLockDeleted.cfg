SPECIFICATION Spec

CONSTANTS
  a1 = a1
  p1 = p1
  AttemptId = {a1, a2}
  ProfileId = {p1}
  Objective = {}
  Definition = {}
  None = None
  Proc = {c1, c2}
  Write <- Appends
  Nothing <- EmptyFile
  Inode = {i1, i2}
  DeletableInUse = TRUE

INVARIANTS
  NoLostAppend
