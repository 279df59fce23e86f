SPECIFICATION Spec
CONSTANTS
  db1 = db1
  db2 = db2
  db3 = db3
  db4 = db4
  t1 = t1
  t2 = t2
  NoSource = NoSource
  Unmapped = Unmapped
  Nodes = {db1, db2, db3, db4}
  Trx = {t1}
  History = {}
  Super = {t1}
  PublishLag = 1
  MaxCrashes = 1
  NodeSpec <- FourBesideObserver
  AllowCascading = FALSE
  SemiSyncPolicy = "disabled"
  WaitForReplicaCount = 0
  Pins = {NoSource, db3}
  StableSamples = 3
  HasSuperReadOnly = {db1, db3}
  EndpointEnabled = FALSE
  InitialPrimary = db1
  InitialWritable = {db1}
  MaxRuns = 1
INVARIANTS IInv SucceededTopology
CHECK_DEADLOCK FALSE
