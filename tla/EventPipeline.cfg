SPECIFICATION FairSpec
CONSTANTS
  Event = {msg, tick}
  Natural = {msg}
  Hook = {hook}
  WebhookAttempts = 2
  ReplayAttempts = 1
  Concurrency = 1
  Operator = {op1, op2}
  MaxBufferedRows = 1
  Rerun = {rerun}
  RerunAttempts = 2
  Scenarios <- PipelineScenarios
INVARIANTS EventAccounted BatcherLive
PROPERTIES StoreSpec PipelineSettles
CHECK_DEADLOCK FALSE
