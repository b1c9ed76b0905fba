SPECIFICATION Spec
CONSTANTS
  r1 = r1
  r2 = r2
  r3 = r3
  Requests <- ThreeRequests
  Limit = 2
  MaxCount = 4
  MaxFailures = 1
INVARIANTS
  TypeOK
  AnswersVerdict
  WindowCloses
PROPERTIES
  ImplementsWindow
  WindowsEnd
CHECK_DEADLOCK FALSE
