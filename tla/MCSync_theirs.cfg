SPECIFICATION Spec
CONSTANTS
    Absent = Absent
    Clones = {c1}
    Peers = {w}
    Pages = {p1}
    Contents = {x, y}
    Broken = {}
    MaxCommits = 3
    Commands = {"pull", "push", "theirs", "repair"}
    Faults = {"damage", "io", "second"}
SYMMETRY Symmetry
INVARIANTS
    BaseTruthful
PROPERTIES
    NoLocalEditLost
