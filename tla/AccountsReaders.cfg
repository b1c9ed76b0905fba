\* Two accounts with different emails and two runs: who reads whom.
SPECIFICATION Spec
CONSTANTS
  i1 = i1
  i2 = i2
  r1 = r1
  r2 = r2
  r3 = r3
  r4 = r4
  Ids <- MCIds
  Emails <- OtherEmails
  TagOf <- OtherTags
  None = None
  Foreign = Foreign
  Passwords = {"p"}
  Requests <- FourRequests
  MaxBoots = 2
  MaxRedisCrashes = 0
SYMMETRY Symmetry4
INVARIANT
  ReadsOwnEmail
CHECK_DEADLOCK FALSE
