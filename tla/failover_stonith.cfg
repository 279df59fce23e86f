SPECIFICATION Spec
CONSTANTS
  db1 = db1
  db2 = db2
  db3 = db3
  h = h
  t1 = t1
  t2 = t2
  NoSource = NoSource
  Unmapped = Unmapped
  Nodes = {db1, db2}
  Trx = {h, t1, t2}
  History = {h}
  Super = {t2}
  PublishLag = 1
  MaxCrashes = 2
  NodeSpec <- TwoNodes
  AllowCascading = FALSE
  SemiSyncPolicy = "disabled"
  WaitForReplicaCount = 0
  Pins = {NoSource}
  SalvagePolicy = "salvage-if-possible"
  SSHSalvage = {db1}
  FencingSteps <- FullFence
  HasSuperReadOnly = {db1, db2}
  EndpointEnabled = TRUE
  InitialPrimary = db1
  MaxRuns = 1
INVARIANTS IInv NoSplitBrain
PROPERTY EndpointFollowsFailover
CHECK_DEADLOCK FALSE
