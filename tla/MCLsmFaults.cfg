SPECIFICATION FairSpec
CONSTANTS
    Keys = {k1}
    Values = {v1}
    Tombstone = Tombstone
    Absent = Absent
    Readers = {}
    Writer = Writer
    NoSnapshot = NoSnapshot
    Inodes = {i1, i2, i3}
    FlushBytes = 1
    TriggerFiles = 2
    IoFaults = {"wal_write", "wal_sync", "flush_write", "flush_header",
                "compact_build", "compact_rename", "compact_sync_dir"}
    MaxOps = 3
    MaxCrashes = 1
INVARIANTS CrashSafe
PROPERTIES OpenEnds
