SPECIFICATION Spec
CONSTANTS
  first = first
  second = second
  other = other
  note = note
  t1 = t1
  t2 = t2
  Ids = {first, second, other}
  Message <- MCMessage
  Profiles <- MCProfiles
  Threads = {t1, t2}
  Outcomes <- MCOutcomes
  Free = Free
  MaxFaults = 2
INVARIANTS
  AbortIsSuccess
CHECK_DEADLOCK FALSE
