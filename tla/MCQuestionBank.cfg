SPECIFICATION FairSpec

CONSTANTS
  Caller = {c1, c2, c3}
  Material = {m1, m2}
  Topic = {T, Other}
  QuestionId = {q1, q2, q3}
  Calls <- Generations
  None = None
  m1 = m1
  m2 = m2
  T = T
  Other = Other
  q1 = q1
  q2 = q2
  q3 = q3

CHECK_DEADLOCK FALSE
INVARIANTS
  Integrity
  ReplacedAreGone
PROPERTIES
  ImplementsAtomicBank
  EveryCallEnds
