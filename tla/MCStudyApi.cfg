SPECIFICATION Spec
CONSTANTS
  None = None  Omitted = Omitted
  r1 = r1  r2 = r2  topic = topic  limits = limits  series = series  page = page
  a1 = a1  a2 = a2  right = right  wrong = wrong  unit = unit  other = other
  Request = {r1, r2}
  Topic = {topic}
  Objective = {limits, series}
  Unit = {unit, other}
  NoUnit = unit
  Material = {page}
  AttemptId = {a1}
  Key = {right, wrong}
  Calls <- AllCalls
  Proposals <- Drafts
  CreateRace = FALSE
  MaxQuestions = 2
INVARIANTS QuestionsArePractisable EveryAttemptHasItsObjective SavedMeansSaved
PROPERTIES NothingIsForgotten
