SPECIFICATION RenewalSpec
CONSTANTS
    t1 = t1
    t2 = t2
    w1 = w1
    w2 = w2
    r1 = r1
    s1 = s1
    NoTask = NoTask
    Tasks <- TwoTasks
    Workers <- TwoRequests
    Retriers <- None
    Sweepers <- OneSweeper
    LaneOf <- SharedLane
    ClusterLimit <- LimitOne
    MetadataWriters <- None
    ScratchTasks <- OneTask
    Lease = 2
    RenewalTimeout = 2
    RetryDelay = 1
    MaxAttempts = 2
    MaxToken = 3
    StalledWrites = FALSE
    sid1 = sid1
    sid2 = sid2
    req1 = req1
    req2 = req2
    login1 = login1
    Sids <- TwoSids
    Requests <- TwoRequests
    Logins <- OneLogin
    Free = Free
    MaxJti = 3
    MaxGeneration = 2
SYMMETRY RenewalAlike
INVARIANTS ExclusiveExecution LaneQuota  RotatesOnce
PROPERTY RefreshNeedsStanding
