SPECIFICATION Spec
CONSTANTS
  NoMsg = NoMsg
  Requests = {r1}
  MsgIds = {m1}
  PerMinute = 1
  Refill = 1
  MaxClock = 1
SYMMETRY Symmetry
INVARIANTS
  ReplyIsMention
