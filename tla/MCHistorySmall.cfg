SPECIFICATION HistorySpec

CONSTANTS
  Horizon = 12
  TicksPerDay = 2
  Scale = 1000
  Window = 3
  MinAttempts = 2
  Learning = 600
  Competent = 850
  MasteryMinRaw = 800
  MasteryMinDays = 2
  MasteryMinSpan = 2
  Schedule <- SmallSchedule
  Multiplier = 2
  MaxInterval = 6
  RetentionFloor = 400
  Retention <- SmallRetention
  None = None
  Lateness = {0, 4}
  Steps = {3}
  MaxAnswers = 4

INVARIANTS
  NothingIsIrreversible
  DueUntilAnswered
  ForgettingOnlyLowers
  LatestAnswerCounts
