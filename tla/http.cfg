SPECIFICATION Spec
CONSTANTS
  None = None
  r1 = r1
  r2 = r2
  ann = ann
  bob = bob
  Requests <- MCRequests
  Keys <- MCKeys
  Limit <- MCLimit
  Window = 2
  MaxTime = 2
  Calls <- MCCalls
  Tokens <- MCTokens
  InternalKey = "internal"
  Users <- MCUsers
  UserOf <- MCUserOf
  Files <- MCFiles
  MaxAge = 1
  MaxDeletions = 1
INVARIANTS TypeOK SlidingWindow HandledWereCleared CountedStayTheirs SuccessMeansRegistered
PROPERTY RequestsAnswered
CHECK_DEADLOCK FALSE
