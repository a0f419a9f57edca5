SPECIFICATION Spec
CONSTANTS
  Clients = {c1}
  Devices = {d1, d2}
INVARIANTS NoNoticeLost
CHECK_DEADLOCK FALSE
