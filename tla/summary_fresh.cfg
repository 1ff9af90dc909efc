SPECIFICATION Spec
CONSTANTS
  Writers = {w1, w2}
  w1 = w1
  w2 = w2
  r1 = r1
  r2 = r2
  q1 = q1
  Readers = {r1}
  Queries = {q1}
  Lives = {1}
  GenLife = 2
  Patience = 1
  MaxWrites = 3
  Horizon = 6
INVARIANTS
  StalenessIsBounded
  QuietCacheIsCurrent
PROPERTIES
  SummariesAreFresh
SYMMETRY Symmetry
CHECK_DEADLOCK FALSE
