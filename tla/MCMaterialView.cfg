SPECIFICATION MaterialSpec
CONSTANTS
  None = None
  NoUnit = NoUnit
  MaxObjectives = 2
  Material = {m1, m2}
  Generations = 2
  Spelling <- Spellings
  Stripped <- StrippedOf
  Folded <- FoldedOf
  Answers <- SomeAnswers
  OldCatalogs <- SomeCatalogs
  OldPages <- NoPages
  MaxRequests = 2
INVARIANTS RunningIsPending ArticleIsTrue SummaryIsTrue
PROPERTIES UploadIsListed UnitsAreKept
SYMMETRY Symmetry
