SPECIFICATION Spec
CONSTANTS
  Clients = {c1}
  Devices = {d1}
  NoClient = NoClient
  NoDevice = NoDevice
  PortMod = 4
  Commands <- Command
  MaxAhead = 0
  MaxAsked = 2
  MaxPipe = 1
INVARIANTS FreedOnce
CHECK_DEADLOCK FALSE
