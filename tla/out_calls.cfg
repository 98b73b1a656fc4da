SPECIFICATION Spec
CONSTANTS
  NoMsg = NoMsg
  Requests = {r1, r2}
  MsgIds = {m1, m2}
  PerMinute = 2
  Refill = 2
  MaxClock = 9
SYMMETRY Symmetry
INVARIANTS
  WindowBound
  DeniedOnlyWhenSpent
  
  IInv
