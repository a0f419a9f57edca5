SPECIFICATION FairSpec
CONSTANTS
  Attachments = {1, 2}
  SavedKinds = {"good"}
  MaxSaves = 1
INVARIANTS TypeOK StackIsLive
PROPERTIES WorkerEnds
CHECK_DEADLOCK FALSE
