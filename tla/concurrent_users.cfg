SPECIFICATION EmbSpec
CONSTANTS
  t1 = t1 t2 = t2 c1 = c1 c2 = c2 u1 = u1 u2 = u2
  None = None
  Users = {u1, u2}
  Handlers = {t1, t2}
  Callbacks = {c1}
  Keys <- MCKeys
  Hashes <- MCHashes
  RangeKeys = {"r"}
  Position <- MCPosition
  Versions <- SmallVersions
  Operations = {"process", "delete"}
  Faults = {}
  CallbackFaults = {}
  MaxEvents = 2
  MaxFaults = 0
  MaxCrashes = 0
  MaxAnswers = 2
  TypedCells = FALSE
  BatchSize = 2
  CacheCrowded = FALSE
  ProducerReady = TRUE
INVARIANTS NodesTracked GraphHoldsOwnRequests EmbeddingsWereSent
CHECK_DEADLOCK FALSE
