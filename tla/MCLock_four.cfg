SPECIFICATION LockSpec
CONSTANTS
    Procs = {p, q, r, s}
    Remote = {}
    Ids = {1, 2, 3, 4, 5, 6, 7, 8, 9, 10, 11, 12, 13, 14, 15, 16, 17}
    Faults = {"orphan"}
SYMMETRY Symmetry
INVARIANTS
    Exclusion
