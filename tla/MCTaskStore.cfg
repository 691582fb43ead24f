SPECIFICATION TaskStoreSpec
CONSTANTS
    MaxTask = 4
    MaxBatch = 3
    MaxRevision = 8
    MaxTime = 1
CHECK_DEADLOCK FALSE
INVARIANTS
    GraphCoherent
    SnapshotRestores
    TaskStoreOK
