\* Two variables and up to three setters, over all fields of all builders; up
\* to three documents, and every list of up to four items.
SPECIFICATION SearchSpec
CONSTANTS
  h1 = h1
  h2 = h2
  x = x
  y = y
  None = None
  Handles <- MCHandles
  Arguments <- MCArguments
  MaxCalls = 3
  MaxList = 2
  Keys <- MCKeys
  Contents <- MCContents
  Garbage = Garbage
  Extra = "0.5"
  MaxItems = 4
  MaxHits = 3
SYMMETRY Perms
INVARIANTS
  SearchTypeOK
  CommandSaysWhatWasSet
  SearchFindsDocuments
  HarmlessOptions
  NothingInvented
CHECK_DEADLOCK FALSE
