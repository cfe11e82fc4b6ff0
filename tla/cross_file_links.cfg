SPECIFICATION Spec
CONSTANTS
  None = None
  Bare = Bare
  c1 = c1 c2 = c2
  Keys <- MCKeys
  Events <- MCEvents
  Stem <- MCStem
  Named <- MCNamed
  Contents <- MCContents
  References <- MCReferences
  Mentions <- MCMentions
  Callbacks = {c1, c2}
  TypedCells = TRUE
  MaxStores = 3
  MaxAnswers = 2
  MaxDeletes = 1
  MaxFaults = 1
INVARIANTS TypeOK HandledAreLinked LinksAreMentioned LinksFindStored
CHECK_DEADLOCK FALSE
