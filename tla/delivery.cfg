SPECIFICATION Spec
CONSTANTS
  None = None
  Tasks <- MCTasks
  MaxAttempts = 2
  Retries = 2
  DeadLetters = TRUE
  Environments <- MCEnvironments
  HealthAttempts = 2
  ProducerAttempts = 2
  Partitions = {"repo_events", "embedding_generated"}
  Logs <- MCLogs
  MaxLosses = 1
INVARIANTS TypeOK RetriesBounded ResultIsTrue CommittedWereTaken TasksHaveProcessor
PROPERTIES MessagesTaken TasksEnd
CHECK_DEADLOCK FALSE
