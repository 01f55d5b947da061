SPECIFICATION QueriesSpec

CONSTANTS
  c1 = c1
  c2 = c2
  p1 = p1
  p2 = p2
  Horizon = 1
  TicksPerDay = 1
  Scale = 1000
  Window = 2
  MinAttempts = 2
  Learning = 600
  Competent = 850
  MasteryMinRaw = 950
  MasteryMinDays = 2
  MasteryMinSpan = 1
  Schedule <- DailySchedule
  Multiplier = 2
  MaxInterval = 1
  RetentionFloor = 400
  Retention <- LinearRetention
  None = None
  Caller = {c1, c2}
  Profile = {p1, p2}
  Objective = {1, 2}
  AttemptId = {1, 2}
  ExplicitId = {1}
  SavedSet = {{1}, {1, 2}}
  Steps = {1}
  Answers <- HitAndMiss
  Series <- HitThenMiss
  MaxAttempts = 2

CONSTRAINT FewAtATime
INVARIANTS
  EachIdOnce
  OrphansOnlyByRemoval
  ImprovementIsEarned
  NothingDropsOut
  SummaryAddsUp
PROPERTIES
  PastIsNotRewritten
