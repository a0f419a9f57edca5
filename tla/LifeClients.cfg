SPECIFICATION Spec
CONSTANTS
  Clients = {c1, c2}
  Devices = {d1}
  NoClient = NoClient
  NoDevice = NoDevice
  PortMod = 3
  Commands <- ConnectOnly
  MaxAhead = 0
  MaxAsked = 2
  MaxPipe = 1
INVARIANTS ClientsMatchConnections DeviceToldOfTeardown ShutdownLeavesNothing
SYMMETRY Symmetry
CHECK_DEADLOCK FALSE
