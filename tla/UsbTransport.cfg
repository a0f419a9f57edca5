SPECIFICATION FairSpec
CONSTANTS
  Devices = {d1, d2}
  NoDevice = NoDevice
  NUM_RX_LOOPS = 1
  MaxFailures = 1
  MaxTx = 1
  USB_MRU = 2
  DEV_MRU = 6
  MaxPacket = 12
INVARIANTS TypeOK TransfersOwned MuxHasUsb WholePackets
PROPERTIES DisconnectEnds DeadIsReaped
CHECK_DEADLOCK FALSE
