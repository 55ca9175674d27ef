SPECIFICATION Spec
CONSTANTS
    Callers = {c1, c2}
    Inodes = {i1, i2, i3, i4}
    NoInode = NoInode
    MaxCommits = 1
    MaxCrashes = 2
SYMMETRY Symmetry
INVARIANTS DestWhole AckedSurvives
PROPERTY NeverReplaced
CHECK_DEADLOCK FALSE
