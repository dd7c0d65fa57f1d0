SPECIFICATION Spec
CONSTANTS
  FailureThreshold = 2
  SuccessThreshold = 1
  ResetTimeout = 1
  MaxReconnectAttempts = 2
  SweepTasks = {"sweep"}
  AttemptTasks = {"attempt"}
  Scenarios <- StopWhileConnecting
PROPERTY NoResurrection
CHECK_DEADLOCK FALSE
