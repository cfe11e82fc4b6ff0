SPECIFICATION Spec
CONSTANTS
  None = None
  Blank = Blank
  SourceId = SourceId
  Denotes <- MCDenotes
  Files <- MCFiles
  Keys <- MCKeys
  FileOf <- MCFileOf
  Versions <- MCVersions
  RowOrders <- MCRowOrders
  Replies = {FALSE}
  SourceUuids = {FALSE}
  MaxEvents = 2
  MaxSyncs = 1
  MaxFaults = 0
INVARIANTS CallsRelated
CHECK_DEADLOCK FALSE
