SPECIFICATION MigrationSpec
CONSTANTS
    MgScenes <- LateMove
    MgIds = {1, 2, 3, 4}
    MgRevs = {1, 2, 3}
    ContentKeys = {h}
    FreshKeys <- Fresh
    EmptyKey = e
    BatchSize = 2
    MaxTries = 2
    h = h
    o = o
    e = e
INVARIANT FailedCopyUnmoved
CHECK_DEADLOCK FALSE
