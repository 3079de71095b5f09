SPECIFICATION Spec
CONSTANTS
  Faults = {"network", "restart", "careless", "spoil"}
  MaxPeerPushes = 3
  MaxEdits = 2
  MaxFaults = 3
INVARIANTS
    BriefSound
PROPERTIES
    NothingOverwritten
    NeverNewer
    MergeEnds
CHECK_DEADLOCK FALSE
