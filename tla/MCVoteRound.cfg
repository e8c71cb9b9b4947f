SPECIFICATION Spec
CONSTANTS
  c1 = c1
  c2 = c2
  Server = {s1, s2}
  File = {f1}
  Cell = {c1}
  FirstCell = c1
  Block <- WholeFile
  Data = {d1}
  MaxUpdates = 1
  NoUpdate = NoUpdate
  NoFile = NoFile
  Dangling = Dangling
  Absent = Absent
  Hole = Hole
  Zero = Zero
  Lossy = TRUE
  ReorderWindow = 1
  MaxInFlight = 2
  DiskFaults = FALSE
  Crashable = {}
  NumServers = 1
  Timely = TRUE
  Calls <- CommitOnly
  MaxCalls = 4
  MaxClients = 1
INVARIANTS
  AllPrepared
CHECK_DEADLOCK FALSE
