SPECIFICATION FairSpec

CONSTANTS
  AttemptId = {}
  ProfileId = {p1}
  Objective = {1, 2}
  Definition = {d1, d2}
  None = None
  Proc = {c1, c2}
  Write <- Edits
  Nothing <- NoProfiles
  Runner = {r1, r2}
  Latest = 3
  Release = {0, 2}
  MaxRuns = 2
  Inherited <- OldRelease
  p1 = p1
  d1 = d1
  d2 = d2

CHECK_DEADLOCK FALSE
INVARIANTS
  ReadsWhatWasThere
  SchemaIsARelease
  SuccessIsLatest
PROPERTIES
  ImplementsAtomicStore
  EveryoneEnds
