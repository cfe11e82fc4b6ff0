SPECIFICATION FairSpec
CONSTANTS
  t1 = t1 t2 = t2 u1 = u1 u2 = u2
  None = None
  Users = {u1}
  Handlers = {t1}
  Keys <- MCKeys
  Hashes <- MCHashes
  RangeKeys = {"r"}
  Position <- MCPosition
  Versions <- SmallVersions
  Operations = {"process", "delete"}
  Faults = {"read_snapshots", "mark_deleted", "delete_orphans", "store", "relate", "publish", "store_metadata", "delete_nodes", "delete_metadata"}
  MaxEvents = 3
  MaxFaults = 2
  MaxCrashes = 1
  BatchSize = 1
  CacheCrowded = FALSE
  ProducerReady = TRUE
INVARIANTS NodesTracked OrphansPurged NothingStale DeletionEmptiesGraph
PROPERTIES EveryEventHandled
CHECK_DEADLOCK FALSE
