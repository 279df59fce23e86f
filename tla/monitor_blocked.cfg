SPECIFICATION MonitorSpec
CONSTANTS
  db1 = db1
  db2 = db2
  db3 = db3
  h = h
  NoSource = NoSource
  Unmapped = Unmapped
  Nodes = {db1, db2}
  Trx = {h}
  History = {h}
  Super = {}
  PublishLag = 0
  MaxCrashes = 1
  NodeSpec <- TwoNodes
  AllowCascading = FALSE
  SemiSyncPolicy = "disabled"
  WaitForReplicaCount = 0
  Pins = {NoSource}
  SalvagePolicy = "availability-first"
  SSHSalvage = {}
  FencingSteps <- ReadOnlyFence
  HasSuperReadOnly = {db1, db2}
  EndpointEnabled = FALSE
  InitialPrimary = db1
  MaxRuns = 1
  FailureThreshold = 2
  Observers = {}
  MaxStarts = 1
  MaxSwitches = 0
INVARIANTS SucceededMeansFailover
CHECK_DEADLOCK FALSE
