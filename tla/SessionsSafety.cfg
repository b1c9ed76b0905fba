SPECIFICATION Spec
CONSTANTS
  b1 = b1
  u1 = u1
  r1 = r1
  r2 = r2
  Browsers <- OneBrowser
  Users <- OneUser
  Requests <- TwoRequests
  None = None
  Unset = Unset
  Removal = Removal
  AccessLifetime = 1
  RefreshLifetime = 2
  MaxTime = 3
  MaxJti = 1
  MaxBoots = 2
SYMMETRY SymmetryRequests
INVARIANTS
  TypeOK
  SessionsStartWithLogin
  SessionIsGivenWhole
  RevocationTakesEffect
CHECK_DEADLOCK FALSE
