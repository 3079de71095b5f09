SPECIFICATION Spec
CONSTANTS
    Absent = Absent
    Clones = {c1, c2}
    Peers = {}
    Pages = {p1}
    Contents = {x, y}
    Broken = {}
    MaxCommits = 3
    Commands = {"pull", "push", "ours"}
    Faults = {"wipe"}
SYMMETRY Symmetry
CONSTRAINT Cut
INVARIANTS
    UnchangedIsEqual
    ConflictIsNewer
PROPERTIES
    SharedSpec
