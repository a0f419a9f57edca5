SPECIFICATION FairSpec
CONSTANTS
  Clients = {c1}
  Devices = {d1, d2}
INVARIANTS TypeOK NoDeviceMissed NoDeviceLeftBehind NobodyElseStuck
PROPERTIES EveryDeviceSeen
CHECK_DEADLOCK FALSE
