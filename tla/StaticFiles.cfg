\* One request (requests share nothing they write) while a build makes up to
\* four writes, and any removals, in three seconds.
SPECIFICATION Spec
CONSTANTS
  Requests = {"r"}
  Assets = {"app.js"}
  Index = "index.html"
  Routes = {"/login"}
  Accepts <- MCAccepts
  None = None
  Gone = Gone
  MaxWrites = 4
  MaxTime = 2
INVARIANTS
  TypeOK
  LastModifiedNotNewer
  TypeFitsBody
  ServesWhatStays
CHECK_DEADLOCK FALSE
