SPECIFICATION Spec
CONSTANTS
  Workers = {w1, w2}
  Users = {u1}
  Shops = {s1, s2}
  s1 = s1
  s2 = s2
  silver = silver
  gold = gold
  Levels = {regular, silver, gold}
  Regular = regular
  Config <- TwoScales
  SigninPoints = 1
  Amounts = {2}
  Opening = 2
  Offered <- AllKinds
  None = None
  MaxRequests = 4
  MaxTime = 3
SYMMETRY Symmetry
CHECK_DEADLOCK FALSE
INVARIANTS
  AccountsAddUp
  LogExplainsBalance
  OneSigninADay
  LevelFitsTotal
