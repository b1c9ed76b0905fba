SPECIFICATION PageSpec
CONSTANTS
  b1 = b1
  u1 = u1
  u2 = u2
  r1 = r1
  r2 = r2
  Browsers <- MCBrowsers
  Users <- MCOneUser
  Requests <- MCOneRequest
  None = None
  Unset = Unset
  Removal = Removal
  AccessLifetime = 1
  RefreshLifetime = 2
  MaxTime = 2
  MaxJti = 1
  MaxBoots = 2
PROPERTIES
  LoadingEnds
  HomeSettles
CHECK_DEADLOCK FALSE
