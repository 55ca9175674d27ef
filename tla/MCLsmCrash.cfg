SPECIFICATION Spec
CONSTANTS
    Keys = {k1, k2}
    Values = {v1}
    Tombstone = Tombstone
    Absent = Absent
    Readers = {}
    Writer = Writer
    NoSnapshot = NoSnapshot
    Inodes = {i1, i2, i3}
    FlushBytes = 2
    TriggerFiles = 2
    IoFaults = {}
    MaxOps = 4
    MaxCrashes = 2
SYMMETRY Symmetry
INVARIANTS TypeOK CrashSafe ReadsCommitted LayerOrder WalRegionPure RefusedOnlyUnborn
