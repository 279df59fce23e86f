SPECIFICATION FairSpec
CONSTANTS
  db1 = db1
  db2 = db2
  db3 = db3
  db4 = db4
  t1 = t1
  t2 = t2
  NoSource = NoSource
  Unmapped = Unmapped
  Nodes = {db1, db2, db3}
  Trx = {t1}
  History = {}
  Super = {}
  PublishLag = 1
  MaxCrashes = 0
  NodeSpec <- ThreeNodes
  AllowCascading = FALSE
  SemiSyncPolicy = "disabled"
  WaitForReplicaCount = 0
  Pins = {NoSource, db3}
  StableSamples = 3
  HasSuperReadOnly = {db1, db2, db3}
  EndpointEnabled = TRUE
  InitialPrimary = db1
  InitialWritable = {db1}
  MaxRuns = 2
INVARIANTS HandoverInv NoLostWrite AtMostOneWriter
PROPERTIES EndpointFollowsHandover ImplementsHandover RunTerminates Converges
CHECK_DEADLOCK FALSE
