SPECIFICATION FairSpec

CONSTANTS
  a1 = a1
  p1 = p1
  AttemptId = {a1, a2}
  ProfileId = {p1, p2}
  Objective = {}
  Definition = {}
  None = None
  Proc = {c1, c2, c3}
  Write <- Appends
  Nothing <- EmptyFile
  Inode = {i1, i2}
  DeletableInUse = FALSE

INVARIANTS
  NoLostAppend
PROPERTIES
  ImplementsAtomicStore
  EveryWriteEnds
