SPECIFICATION Spec
CONSTANTS
    Absent = Absent
    Clones = {c1}
    Peers = {w}
    Pages = {p1}
    Contents = {x, y}
    Broken = {b}
    MaxCommits = 3
    Commands = {"pull", "push", "ours", "repair"}
    Faults = {"crash", "timeout"}
SYMMETRY Symmetry
INVARIANTS
    TypeOK
    IInv
PROPERTIES
    NoLostUpdate
    ConflictsPersist
