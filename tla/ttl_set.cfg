SPECIFICATION Spec
CONSTANTS
  Keys = {k1, k2, k3}
  Callers = {c1, c2}
  TTL = 2
  Capacity = 2
  MaxClock = 4
SYMMETRY Symmetry
INVARIANTS RemembersRecent IInv
PROPERTIES AnswersTrue
