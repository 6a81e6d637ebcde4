SPECIFICATION UploadSpec
CONSTANTS
    p1 = p1
    p2 = p2
    c1 = c1
    c2 = c2
    k1 = k1
    sw = sw
    Scenes <- LossyParts
    Parts <- TwoParts
    Putters <- TwoPutters
    Completers <- TwoCompleters
    Cancels <- OneCancel
    SweeperTask <- sw
    LeaseTimeout = 2
    Grace = 1
    SessionTtl = 2
PROPERTIES CompletedRetained
CHECK_DEADLOCK FALSE
