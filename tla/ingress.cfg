SPECIFICATION Spec
CONSTANTS
  Users = {"u1", "u2"}
  Groups = {"g1", "g2"}
  NonChats = {"status"}
  Nobody = "nobody"
  GoodLabels = {"default", "ops", "hr"}
  Feature = TRUE
  Envs <- MCEnvs
  Envelopes <- MCEnvelopes
  BotIds = {"b1"}
  MaxEdits = 1
  MaxAccepts = 2
  MaxMessages = 1
INVARIANTS
  IInv
  OnlyInvited
  Summoned
  TagsAreHeard
  RightAgent
  RoutesResolve
  TranscribedOnce
  MediaServed
CHECK_DEADLOCK FALSE
