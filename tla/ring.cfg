SPECIFICATION FairSpec
CONSTANTS
  N = 2
  Items = {a, b}
  Blank = Blank
  SizeModulus = 8
  Producers = {p1, p2}
  Pollers = {q}
  Poppers = {}
  MayClean = TRUE
INVARIANT TypeOK
PROPERTIES DequeSpec StrandedProducersWake
