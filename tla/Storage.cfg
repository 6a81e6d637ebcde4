SPECIFICATION StorageSpec
CONSTANTS
    u1 = u1
    u2 = u2
    u3 = u3
    x1 = x1
    v1 = v1
    c1 = c1
    c2 = c2
    k1 = k1
    k2 = k2
    NoBlob = NoBlob
    Uploads <- ThreeUploads
    Copies <- None
    Versions <- OneVersion
    Cleaners <- TwoCleaners
    KeyOf <- MixedKeys
    DedupKeys <- SharedDedup
    Chunked <- LastChunked
    ClaimTimeout = 1
    TimelyCleanup = FALSE
    MgScenes <- AllMigrations
    MgIds = {1, 2, 3, 4}
    MgRevs = {1, 2, 3}
    ContentKeys = {h}
    FreshKeys <- Fresh
    EmptyKey = e
    BatchSize = 2
    MaxTries = 2
    h = h
    o = o
    e = e
    token1 = token1
    token2 = token2
    push1 = push1
    Tokens <- OneToken
    Pushers <- OnePush
    Created <- Tunnelled
    Editable = {"enabled"}
    Unset = Unset
    MaxEdits = 2
    MaxRevision = 2
    MaxFaults = 1
INVARIANTS RefsCounted OwnedContentKept MigrationSound  CompletedIsBound
PROPERTIES ContentUnchanged  BindingConverges
CHECK_DEADLOCK FALSE
