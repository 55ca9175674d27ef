SPECIFICATION Spec
CONSTANTS
    Keys = {k1, k2}
    Values = {v1}
    Tombstone = Tombstone
    Absent = Absent
    Readers = {r1, r2}
    Writer = Writer
    NoSnapshot = NoSnapshot
    Refs = {a1, a2, a3, a4}
SYMMETRY Symmetry
PROPERTY ImplementsSnapshotStore
