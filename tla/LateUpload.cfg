SPECIFICATION TreeSpec
CONSTANTS
    dirA = dirA
    dirB = dirB
    doc = doc
    h1 = h1
    h2 = h2
    m1 = m1
    m2 = m2
    w1 = w1
    w2 = w2
    Root = Root
    OpToken = OpToken
    None = None
    Folders <- TwoFolders
    Files <- OneFile
    Holders <- OneHolder
    Movers <- TwoMovers
    BatchSets <- Selections
    PurgeWorkers <- TwoPurgers
    MaxClaims = 2
    Casts <- LateUpload
PROPERTIES PurgedWasTrashed
CHECK_DEADLOCK FALSE
