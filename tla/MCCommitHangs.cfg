SPECIFICATION LosslessFairSpec
CONSTANTS
  c1 = c1
  c2 = c2
  Server = {s1, s2}
  File = {f1}
  Cell = {c1}
  FirstCell = c1
  Block <- WholeFile
  Data = {d1}
  MaxUpdates = 1
  NoUpdate = NoUpdate
  NoFile = NoFile
  Dangling = Dangling
  Absent = Absent
  Hole = Hole
  Zero = Zero
  Lossy = FALSE
  ReorderWindow = 1
  MaxInFlight = 1
  DiskFaults = FALSE
  Crashable = {s1}
  NumServers = 2
  Timely = FALSE
  Calls <- CommitOnly
  MaxCalls = 4
  MaxClients = 1
PROPERTIES
  CallReturns
CHECK_DEADLOCK FALSE
