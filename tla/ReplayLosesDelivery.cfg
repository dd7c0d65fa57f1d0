SPECIFICATION Spec
CONSTANTS
  Event = {msg, tick}
  Natural = {msg}
  Hook = {hook}
  WebhookAttempts = 2
  ReplayAttempts = 1
  Concurrency = 1
  Operator = {op1, op2}
  MaxBufferedRows = 1
  Rerun = {rerun}
  RerunAttempts = 2
  Scenarios <- RefusingEndpoint
INVARIANTS ReplayKeepsDelivery
CHECK_DEADLOCK FALSE
