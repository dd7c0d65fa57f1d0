SPECIFICATION FairSpec
CONSTANTS
  FailureThreshold = 2
  SuccessThreshold = 1
  ResetTimeout = 1
  MaxReconnectAttempts = 2
  SweepTasks = {"sweep"}
  AttemptTasks = {"attempt"}
  Scenarios <- ServiceScenarios
PROPERTIES  IntentServed
CHECK_DEADLOCK FALSE
