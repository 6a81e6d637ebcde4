SPECIFICATION Spec
CONSTANTS
    u1 = u1
    u2 = u2
    u3 = u3
    x1 = x1
    v1 = v1
    c1 = c1
    c2 = c2
    k1 = k1
    k2 = k2
    NoBlob = NoBlob
    Uploads <- TwoUploads
    Copies <- None
    Versions <- None
    Cleaners <- OneCleaner
    KeyOf <- SharedKey
    DedupKeys <- SharedDedup
    Chunked <- TwoUploads
    ClaimTimeout = 2
    TimelyCleanup = TRUE
INVARIANT DedupContentKept
