SPECIFICATION Spec
CONSTANTS
  NoId = NoId
  m1 = m1
  h1 = h1
  h2 = h2
  t1 = t1
  Ids = {m1}
  Handlers = {h1, h2}
  Tasks = {t1}
  Concurrency = 1
  MaxRetries = 1
  MaxSends = 2
  MaxFaults = 0
  Overlap = TRUE
INVARIANTS
  NeverHalfWritten
