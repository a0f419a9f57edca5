SPECIFICATION Spec
CONSTANTS
  Clients = {c1}
  Devices = {d1}
  NoClient = NoClient
  NoDevice = NoDevice
  PortMod = 4
  Commands <- Command
  MaxAhead = 2
  MaxAsked = 2
  MaxPipe = 1
INVARIANTS DeadClientUntouched
CHECK_DEADLOCK FALSE
