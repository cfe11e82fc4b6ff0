SPECIFICATION Spec
CONSTANTS
  t1 = t1 t2 = t2 u1 = u1 u2 = u2
  None = None
  Users = {u1}
  Handlers = {t1}
  Keys <- MCKeys
  Hashes <- MCHashes
  RangeKeys = {"r"}
  Position <- MCPosition
  Versions <- EditVersions
  Operations = {"process"}
  Faults = {}
  MaxEvents = 4
  MaxFaults = 0
  MaxCrashes = 0
  BatchSize = 1
  CacheCrowded = TRUE
  ProducerReady = TRUE
INVARIANTS TypeOK SnapshotMatchesRequest
PROPERTIES ImplementsFileIndex
CHECK_DEADLOCK FALSE
