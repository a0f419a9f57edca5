SPECIFICATION FairSpec
CONSTANTS
  Clients = {c1}
  Devices = {d1}
  NoClient = NoClient
  NoDevice = NoDevice
  PortMod = 2
  Commands <- Command
  MaxAhead = 1
  MaxAsked = 3
  MaxPipe = 2
INVARIANTS TypeOK AnswersInOrder TunnelIsClean
PROPERTIES Sessions ConnectAnswered HangupReleases
CHECK_DEADLOCK FALSE
