SPECIFICATION Spec
CONSTANTS
  db1 = db1
  db2 = db2
  db3 = db3
  db4 = db4
  t1 = t1
  t2 = t2
  NoSource = NoSource
  Unmapped = Unmapped
  Nodes = {db1, db2}
  Trx = {t1, t2}
  History = {}
  Super = {t2}
  PublishLag = 1
  MaxCrashes = 0
  NodeSpec <- TwoNodes
  AllowCascading = FALSE
  SemiSyncPolicy = "disabled"
  WaitForReplicaCount = 0
  Pins = {NoSource}
  StableSamples = 3
  HasSuperReadOnly = {db1, db2}
  EndpointEnabled = FALSE
  InitialPrimary = db1
  InitialWritable = {db1, db2}
  MaxRuns = 1
INVARIANT PromotedWithoutErrantGTIDs
CHECK_DEADLOCK FALSE
