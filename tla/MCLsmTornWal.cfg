SPECIFICATION Spec
CONSTANTS
    Keys = {k1}
    Values = {v1, v2}
    Tombstone = Tombstone
    Absent = Absent
    Readers = {}
    Writer = Writer
    NoSnapshot = NoSnapshot
    Inodes = {i1, i2, i3}
    FlushBytes = 2
    TriggerFiles = 2
    IoFaults = {"wal_write"}
    MaxOps = 3
    MaxCrashes = 1
INVARIANT CommitsDurable
