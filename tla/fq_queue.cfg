SPECIFICATION Spec
CONSTANTS
  NoId = NoId
  m1 = m1
  m2 = m2
  h1 = h1
  h2 = h2
  t1 = t1
  t2 = t2
  t3 = t3
  Ids = {m1, m2}
  Handlers = {h1, h2}
  Tasks = {t1, t2, t3}
  Concurrency = 1
  MaxRetries = 1
  MaxSends = 2
  MaxFaults = 1
  Overlap = FALSE
SYMMETRY Symmetry
INVARIANTS
  NoLoss
  OneTaskPerFile
  NeverHalfWritten
  OnceUnlessFaulty
PROPERTY
  BuriedOnlyWhenRefused
