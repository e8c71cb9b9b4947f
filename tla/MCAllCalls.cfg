SPECIFICATION Spec
CONSTANTS
  c1 = c1
  c2 = c2
  Server = {s1, s2}
  File = {f1, f2}
  Cell = {c1, c2}
  FirstCell = c1
  Block <- Overlapping
  Data = {d1}
  MaxUpdates = 2
  NoUpdate = NoUpdate
  NoFile = NoFile
  Dangling = Dangling
  Absent = Absent
  Hole = Hole
  Zero = Zero
  Lossy = FALSE
  ReorderWindow = 1
  MaxInFlight = 2
  DiskFaults = FALSE
  Crashable = {s1, s2}
  NumServers = 2
  Timely = TRUE
  Calls <- AllCalls
  MaxCalls = 5
  MaxClients = 1
SYMMETRY Servers
INVARIANTS
  AllPrepared
  ReplicasMatchPromise
  ClosedMeansCommitted
  ClosedLeavesNothing
  HealthyNeverAborts
  SameFileEverywhere
  Reliable
PROPERTIES
  DecisionFirst
  OneRoundSuffices
  FilesAreAtomic
CHECK_DEADLOCK FALSE
