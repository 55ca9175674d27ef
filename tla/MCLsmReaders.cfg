SPECIFICATION Spec
CONSTANTS
    Keys = {k1}
    Values = {v1, v2}
    Tombstone = Tombstone
    Absent = Absent
    Readers = {r1}
    Writer = Writer
    NoSnapshot = NoSnapshot
    Inodes = {i1, i2, i3, i4}
    FlushBytes = 1
    TriggerFiles = 2
    IoFaults = {}
    MaxOps = 4
    MaxCrashes = 1
SYMMETRY Symmetry
PROPERTIES SnapshotsStable VerifyWindow ImplementsSnapshotStore
