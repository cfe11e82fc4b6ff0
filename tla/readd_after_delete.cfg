SPECIFICATION Spec
CONSTANTS
  t1 = t1 t2 = t2 u1 = u1 u2 = u2
  None = None
  Users = {u1}
  Handlers = {t1}
  Keys <- MCKeys
  Hashes <- MCHashes
  RangeKeys = {"r"}
  Position <- MCPosition
  Versions <- OneVersion
  Operations = {"process", "delete"}
  Faults = {}
  MaxEvents = 3
  MaxFaults = 0
  MaxCrashes = 0
  BatchSize = 1
  CacheCrowded = FALSE
  ProducerReady = TRUE
INVARIANTS EveryChunkStored
CHECK_DEADLOCK FALSE
