SPECIFICATION Spec
CONSTANTS
  c1 = c1
  c2 = c2
  Server = {s1}
  File = {f1}
  Cell = {c1}
  FirstCell = c1
  Block <- WholeFile
  Data = {d1, d2}
  MaxUpdates = 2
  NoUpdate = NoUpdate
  NoFile = NoFile
  Dangling = Dangling
  Absent = Absent
  Hole = Hole
  Zero = Zero
  Lossy = TRUE
  ReorderWindow = 2
  MaxInFlight = 1
  DiskFaults = FALSE
  Crashable = {}
  NumServers = 1
  Timely = FALSE
  Calls <- AllCalls
  MaxCalls = 4
  MaxClients = 2
INVARIANTS
  TypeOK
  ServerPrefix
  ClientMapComplete
  VoteBookkeeping
PROPERTIES
  VoteIsBinding
  ServersKeepPledges
CHECK_DEADLOCK FALSE
