SPECIFICATION Spec
CONSTANTS
  Faults = {"network", "beside"}
  MaxPeerPushes = 2
  MaxEdits = 1
  MaxFaults = 1
PROPERTIES
    NothingOverwritten
CHECK_DEADLOCK FALSE
