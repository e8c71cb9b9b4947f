SPECIFICATION ApplFairSpec
CONSTANTS
  c1 = c1
  c2 = c2
  d1 = d1
  d2 = d2
  Server = {s1, s2}
  File = {f1}
  Cell = {c1, c2}
  FirstCell = c1
  Block <- Blocks
  Data = {d1, d2}
  MaxUpdates = 2
  NoUpdate = NoUpdate
  NoFile = NoFile
  Dangling = Dangling
  Absent = Absent
  Hole = Hole
  Zero = Zero
  Lossy = TRUE
  ReorderWindow = 1
  MaxInFlight = 1
  DiskFaults = FALSE
  Crashable = {}
  NumServers = 2
  Timely = TRUE
  Calls <- ApplCalls
  MaxCalls = 5
  MaxClients = 1
  fileName0 = f1
  Line <- Lines
INVARIANTS
  WritesReachAll
  OnCourse
PROPERTIES
  ApplSucceeds
CHECK_DEADLOCK FALSE
