SPECIFICATION Spec
CONSTANTS
  c1 = c1
  c2 = c2
  f1 = f1
  f2 = f2
  d1 = d1
  Server = {s1, s2}
  File = {f1, f2}
  Cell = {c1}
  FirstCell = c1
  Block <- WholeFile
  Data = {d1}
  MaxUpdates = 2
  NoUpdate = NoUpdate
  NoFile = NoFile
  Dangling = Dangling
  Absent = Absent
  Hole = Hole
  Zero = Zero
  Lossy = FALSE
  ReorderWindow = 1
  MaxInFlight = 2
  DiskFaults = TRUE
  Crashable = {}
  NumServers = 2
  Timely = TRUE
  Calls <- AllCalls
  MaxCalls = 5
  MaxClients = 1
  FileId <- FileIds
  Name <- Names
  Extent <- Extents
  Octets <- Bytes
SYMMETRY Servers
INVARIANTS
  DamageIsReported
  Untold
  PacketsReadAsSent
CHECK_DEADLOCK FALSE
