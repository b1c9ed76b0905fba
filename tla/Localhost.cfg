\* One request of up to two fields, one other client, one of the devtools.
SPECIFICATION LocalSpec
CONSTANTS
  f1 = f1
  f2 = f2
  u1 = u1
  u2 = u2
  poll = poll
  c1 = c1
  devtool = devtool
  None = None
  Fields <- MCFields
  Users <- MCUsers
  Clients <- MCClients
  Poll = poll
  Devtools <- MCDevtools
INVARIANTS
  LocalTypeOK
  ExecutesForCaller
  AnswerCarriesSession
  RefusalsStartNoSession
  NobodyLeftBehind
PROPERTIES
  HandlersAnswer
  StopsOnSignal
  PollingEnds
  NothingStays
CHECK_DEADLOCK FALSE
