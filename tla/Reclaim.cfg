SPECIFICATION ReclaimSpec
CONSTANTS
    u1 = u1
    u2 = u2
    u3 = u3
    x1 = x1
    v1 = v1
    c1 = c1
    c2 = c2
    k1 = k1
    k2 = k2
    NoBlob = NoBlob
    Uploads <- TwoUploads
    Copies <- OneCopy
    Versions <- None
    Cleaners <- TwoCleaners
    KeyOf <- SharedKey
    DedupKeys <- SharedDedup
    Chunked <- TwoUploads
    ClaimTimeout = 2
    TimelyCleanup = TRUE
    d1 = d1
    d2 = d2
    d3 = d3
    g1 = g1
    g2 = g2
    Downloads = {d1, d2}
    Ranges = {g1, g2}
    MaxDownloads = 2
    Capacity = 1
INVARIANTS CountBalanced  SessionCountedOnce
PROPERTIES GarbageCollected QueueServed
CHECK_DEADLOCK FALSE
