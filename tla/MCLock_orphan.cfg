SPECIFICATION FairSpec
CONSTANTS
    Procs = {p, q, r}
    Remote = {}
    Ids = {1, 2, 3, 4, 5, 6, 7, 8, 9, 10, 11, 12, 13, 14}
    Faults = {"crash", "orphan"}
PROPERTIES
    GuardStays
    LockIsReached
