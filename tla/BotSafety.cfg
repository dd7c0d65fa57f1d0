SPECIFICATION Spec
CONSTANTS
  FailureThreshold = 2
  SuccessThreshold = 1
  ResetTimeout = 1
  MaxReconnectAttempts = 2
  SweepTasks = {"sweep"}
  AttemptTasks = {"attempt"}
  Scenarios <- SafetyScenarios
INVARIANTS RegisteredOnly RetryOwned EntryTruth
CHECK_DEADLOCK FALSE
