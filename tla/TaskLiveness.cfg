SPECIFICATION LiveSpec
CONSTANTS
    t1 = t1
    t2 = t2
    w1 = w1
    w2 = w2
    r1 = r1
    s1 = s1
    NoTask = NoTask
    Tasks <- TwoTasks
    Workers <- TwoWorkers
    Retriers <- None
    Sweepers <- None
    LaneOf <- SharedLane
    ClusterLimit <- LimitOne
    MetadataWriters <- None
    ScratchTasks <- None
    Lease = 1
    RenewalTimeout = 1
    RetryDelay = 1
    MaxAttempts = 2
    MaxToken = 3
    StalledWrites = TRUE
PROPERTY CancellationSettles
PROPERTY EveryTaskFinishes
