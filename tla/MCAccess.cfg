SPECIFICATION AccessSpec
CONSTANTS
  u1 = u1
  u2 = u2
  legacy = legacy
  Users = {u1, u2}
  Legacy = legacy
  Reqs = {r1, r2}
  Ids = {"team", "te.am", "other"}
  DirName <- MCDirName
  DirOf <- MCDirOf
  Traffic <- MCTraffic
  OldRows <- MCOldRows
  RepoCap = 1
  MemberCap = 2
  Faults = {"create", "purge", "owner"}
  Sessions = "first"
  MaxGen = 2
  MaxReqs = 3
INVARIANTS
    CreationSound
    OldRowsGone
    LetInOnly
PROPERTIES
    OwnedStaysOwned
CHECK_DEADLOCK FALSE
