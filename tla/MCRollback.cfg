SPECIFICATION Spec
CONSTANTS
  c1 = c1
  c2 = c2
  Server = {s1}
  File = {f1}
  Cell = {c1, c2}
  FirstCell = c1
  Block <- WholeFile
  Data = {d1}
  MaxUpdates = 1
  NoUpdate = NoUpdate
  NoFile = NoFile
  Dangling = Dangling
  Absent = Absent
  Hole = Hole
  Zero = Zero
  Lossy = FALSE
  ReorderWindow = 1
  MaxInFlight = 1
  DiskFaults = TRUE
  Crashable = {}
  NumServers = 1
  Timely = TRUE
  Calls <- CommitOnly
  MaxCalls = 6
  MaxClients = 1
PROPERTIES
  RollbackRestores
CHECK_DEADLOCK FALSE
