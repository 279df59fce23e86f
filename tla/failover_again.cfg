SPECIFICATION Spec
CONSTANTS
  db1 = db1
  db2 = db2
  db3 = db3
  h = h
  t1 = t1
  t2 = t2
  NoSource = NoSource
  Unmapped = Unmapped
  Nodes = {db1, db2, db3}
  Trx = {h}
  History = {h}
  Super = {}
  PublishLag = 1
  MaxCrashes = 1
  NodeSpec <- ThreeNodes
  AllowCascading = FALSE
  SemiSyncPolicy = "disabled"
  WaitForReplicaCount = 0
  Pins = {NoSource}
  SalvagePolicy = "availability-first"
  SSHSalvage = {}
  FencingSteps <- ReadOnlyFence
  HasSuperReadOnly = {db1, db2, db3}
  EndpointEnabled = FALSE
  InitialPrimary = db1
  MaxRuns = 2
INVARIANT AtMostOneWriter
CHECK_DEADLOCK FALSE
