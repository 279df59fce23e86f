SPECIFICATION CheckSpec
CONSTANTS
  db1 = db1
  db2 = db2
  db3 = db3
  db4 = db4
  NoSource = NoSource
  Unmapped = Unmapped
  Nodes = {db1, db2, db3, db4}
  Trx = {}
  History = {}
  Super = {}
  PublishLag = 0
  MaxCrashes = 1
  NodeSpec <- WithObserver
  AllowCascading = FALSE
  SemiSyncPolicy = "disabled"
  WaitForReplicaCount = 0
  Pins = {NoSource}
  Layouts <- StarsBesideObserver
INVARIANTS ElectsTheHead ElectsOne HealthyMeansReplicating
