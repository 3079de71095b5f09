SPECIFICATION LockSpec
CONSTANTS
    Procs = {p, q, r}
    Remote = {r}
    Ids = {1, 2, 3, 4, 5, 6, 7, 8, 9, 10, 11, 12}
    Faults = {"crash", "io"}
SYMMETRY Symmetry
INVARIANTS
    LockInv
    Exclusion
PROPERTIES
    LiveLockStays
