SPECIFICATION Spec
CONSTANTS
  Clients = {c1}
  Devices = {d1}
INVARIANTS NoDeadlock
CHECK_DEADLOCK FALSE
