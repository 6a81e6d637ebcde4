SPECIFICATION Spec
CONSTANTS
    t1 = t1
    t2 = t2
    w1 = w1
    w2 = w2
    r1 = r1
    s1 = s1
    NoTask = NoTask
    Tasks <- OneTask
    Workers <- TwoWorkers
    Retriers <- None
    Sweepers <- None
    LaneOf <- SharedLane
    ClusterLimit <- LimitOne
    MetadataWriters <- OneTask
    ScratchTasks <- None
    Lease = 2
    RenewalTimeout = 2
    RetryDelay = 1
    MaxAttempts = 2
    MaxToken = 3
    StalledWrites = FALSE
INVARIANT ExclusiveExecution
