SPECIFICATION FairSpec
CONSTANTS
  TxWin = 2
  InCap = 2
  MaxPayload = 2
  WinUnit = 1
  SeqMod = 16
  DevBuf = 1
  SockCap = 1
  MaxIn = 3
  MaxOut = 2
INVARIANTS TypeOK InputFits AckMeansDelivered InSequence DeviceFits
PROPERTIES DownstreamFlows HangupEndsConnection StreamSpec
CHECK_DEADLOCK FALSE
