SPECIFICATION Spec
CONSTANTS
  c1 = c1
  c2 = c2
  Server = {s1, s2}
  File = {f1}
  Cell = {c1}
  FirstCell = c1
  Block <- WholeFile
  Data = {d1, d2}
  MaxUpdates = 2
  NoUpdate = NoUpdate
  NoFile = NoFile
  Dangling = Dangling
  Absent = Absent
  Hole = Hole
  Zero = Zero
  Lossy = TRUE
  ReorderWindow = 1
  MaxInFlight = 2
  DiskFaults = FALSE
  Crashable = {}
  NumServers = 2
  Timely = TRUE
  Calls <- CommitOnly
  MaxCalls = 5
  MaxClients = 1
SYMMETRY Servers
INVARIANTS
  AllPrepared
  ReplicasMatchPromise
  VotesAreHonest
  Tolerant
PROPERTIES
  DecisionFirst
  FilesAreAtomic
CHECK_DEADLOCK FALSE
