SPECIFICATION Spec
CONSTANTS
  NoId = NoId
  m1 = m1
  h1 = h1
  h2 = h2
  t1 = t1
  t2 = t2
  Ids = {m1}
  Handlers = {h1, h2}
  Tasks = {t1, t2}
  Concurrency = 1
  MaxRetries = 1
  MaxSends = 3
  MaxFaults = 3
  Overlap = TRUE
SYMMETRY Symmetry
INVARIANTS
  IInv
PROPERTY
  Refinement
