SPECIFICATION Spec
CONSTANTS
  i1 = i1
  i2 = i2
  r1 = r1
  r2 = r2
  r3 = r3
  r4 = r4
  Ids <- MCIds
  Emails <- MCEmails
  TagOf <- MCTagOf
  None = None
  Foreign = Foreign
  Passwords = {"p", "q"}
  Requests <- TwoRequests
  MaxBoots = 2
  MaxRedisCrashes = 1
SYMMETRY Symmetry2
INVARIANT
  UniqueEmail
CHECK_DEADLOCK FALSE
