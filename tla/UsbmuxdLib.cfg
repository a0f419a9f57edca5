SPECIFICATION FairSpec
CONSTANTS
  MaxHandles = 2
  MaxDevices = 2
  MaxDaemons = 2
  MaxSubs = 1
  MaxEntries = 1
  MaxBroken = 1
INVARIANTS TypeOK ViewAgrees
PROPERTIES ViewConverges UnsubscribeEnds
CHECK_DEADLOCK FALSE
