SPECIFICATION FairSpec
CONSTANTS
  Replica = {r1, r2}
  NoReplica = NoReplica
  Checks = {"check1"}
  Kinds = {"loss", "crash", "shutdown"}
  MaxEvents = 2
  Repeated = FALSE
PROPERTIES EventuallyLed RunServedByFailover
CHECK_DEADLOCK FALSE
