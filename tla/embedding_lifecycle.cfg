SPECIFICATION EmbFairSpec
CONSTANTS
  t1 = t1 t2 = t2 c1 = c1 c2 = c2 u1 = u1 u2 = u2
  None = None
  Users = {u1}
  Handlers = {t1}
  Callbacks = {c1}
  Keys <- MCKeys
  Hashes <- MCHashes
  RangeKeys = {"r"}
  Position <- MCPosition
  Versions <- SmallVersions
  Operations = {"process", "delete"}
  Faults = {"publish"}
  CallbackFaults = {"lookup", "update", "link"}
  MaxEvents = 2
  MaxFaults = 1
  MaxCrashes = 1
  MaxAnswers = 2
  TypedCells = TRUE
  BatchSize = 2
  CacheCrowded = TRUE
  ProducerReady = TRUE
INVARIANTS EmbTypeOK EmbeddingsFollowEdits
PROPERTIES SentContentStored EveryAnswerHandled
CHECK_DEADLOCK FALSE
