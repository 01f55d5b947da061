SPECIFICATION ScopeSpec
CONSTANTS
  Null = Null  NoUnit = NoUnit
  main = main  side = side  D1 = D1  D2 = D2  a = a  b = b  c = c  d = d
  Topic = {main, side}
  Unit = {D1, D2}
  Objective = {a, b, c, d}
  CatalogsOf <- Catalogs
INVARIANTS ServedAsTicked
PROPERTIES ATickIsItsRow OneSpelling
