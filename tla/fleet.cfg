SPECIFICATION Spec
CONSTANTS
  Users = {"u1"}
  Groups = {"g1", "g2", "g3"}
  NonChats = {"status"}
  Nobody = "nobody"
  GoodLabels = {"default", "ops", "hr"}
  Feature = TRUE
  TenantIds <- MCTenantIds
  Broken = Broken
  Nothing = Nothing
  Box = "demo"
  Jids = {j1, j2}
  Heights = {10, 40}
  TenantFiles <- MCTenantFiles
  MaxCommands = 3
  MaxMishaps = 1
  MaxEdits = 1
SYMMETRY Symmetry
INVARIANTS
  IInv
  ScrollInside
  
  PairingBackedUp
  RunsWhatIsRendered
  
  
CHECK_DEADLOCK FALSE
