SPECIFICATION Spec
CONSTANTS
  Replica = {r1, r2}
  NoReplica = NoReplica
  Checks = {"check1"}
  Kinds = {"loss", "error", "crash", "shutdown", "start", "stop"}
  MaxEvents = 2
  Repeated = TRUE
SYMMETRY Replicas
INVARIANTS LeaseHolds 
CHECK_DEADLOCK FALSE
