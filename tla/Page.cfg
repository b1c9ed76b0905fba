SPECIFICATION PageSpec
CONSTANTS
  b1 = b1
  u1 = u1
  u2 = u2
  r1 = r1
  r2 = r2
  Browsers <- MCBrowsers
  Users <- MCUsers
  Requests <- MCRequests
  None = None
  Unset = Unset
  Removal = Removal
  AccessLifetime = 1
  RefreshLifetime = 2
  MaxTime = 0
  MaxJti = 0
  MaxBoots = 1
SYMMETRY Symmetry
INVARIANTS
  PageTypeOK
  ShownWasHeld
  AsksAfterRefresh
PROPERTY
  AsksAsSomeone
CHECK_DEADLOCK FALSE
