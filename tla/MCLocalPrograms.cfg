SPECIFICATION Spec

CONSTANTS
  Objective = {o1, o2}
  Date = {0, 1}
  Now = 0
  Command <- Commands
  Process = {p1, p2}
  Session = {s1}
  Inherited <- OldStores
  MaxBegun = 4
  None = None

CHECK_DEADLOCK FALSE
SYMMETRY Symmetry
INVARIANTS
  ReportIsTrue
PROPERTIES
  CheckIsRight
  OnlyOverwritingEscapes
