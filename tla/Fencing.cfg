SPECIFICATION FencingSpec
CONSTANTS
    t1 = t1
    t2 = t2
    w1 = w1
    w2 = w2
    r1 = r1
    s1 = s1
    NoTask = NoTask
    Tasks <- OneTask
    Workers <- TwoWorkers
    Retriers <- OneRetrier
    Sweepers <- None
    LaneOf <- SharedLane
    ClusterLimit <- LimitOne
    MetadataWriters <- OneTask
    ScratchTasks <- OneTask
    Lease = 3
    RenewalTimeout = 2
    RetryDelay = 1
    MaxAttempts = 3
    MaxToken = 5
    StalledWrites = TRUE
    flow1 = flow1
    flow2 = flow2
    sender1 = sender1
    Flows <- TwoFlows
    Verifiers <- TwoWorkers
    Senders <- OneSender
    Scenes <- MfaScenes
    MfaMaxAttempts = 2
    MaxLag = 2
    MaxStep = 3
    MaxRecovery = 2
    MaxMails = 2
    MaxVersion = 2
SYMMETRY FencingAlike
INVARIANTS HolderOwns AttemptBudget
INVARIANTS CodeUsedOnce OneSessionPerFlow 
PROPERTIES OnlyHolderEndsAttempt CancellationSticks
