SPECIFICATION Spec
CONSTANTS
  None = None
  Blank = Blank
  SourceId = SourceId
  Denotes <- MCDenotes
  Files <- MCFiles
  Keys <- MCKeys
  FileOf <- MCFileOf
  Versions <- TwiceVersions
  RowOrders <- MCRowOrders
  Replies = {TRUE, FALSE}
  SourceUuids = {TRUE, FALSE}
  MaxEvents = 3
  MaxSyncs = 1
  MaxFaults = 1
INVARIANTS TypeOK StructureWithinFile BareNodesWereDeleted ImportsRelated
CHECK_DEADLOCK FALSE
