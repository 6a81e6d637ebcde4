SPECIFICATION WorkspaceSpec
CONSTANTS
    dirA = dirA
    dirB = dirB
    doc = doc
    h1 = h1
    h2 = h2
    m1 = m1
    m2 = m2
    w1 = w1
    w2 = w2
    Root = Root
    OpToken = OpToken
    None = None
    Folders <- TwoFolders
    Files <- OneFile
    Holders <- OneHolder
    Movers <- TwoMovers
    BatchSets <- Selections
    PurgeWorkers <- TwoPurgers
    MaxClaims = 2
    Casts <- AllCasts
    b1 = b1
    b2 = b2
    j1 = j1
    j2 = j2
    f1 = f1
    f2 = f2
    NoJob = NoJob
    RvFiles = {f1, f2}
    RvBlobs = {b1, b2}
    Jobs = {j1, j2}
    SizeOf <- Sizes
    Quota = 5
    MaxVersions = 1
    MaxRevs = 3
INVARIANTS TreeSound UsageExact LedgerSound RefsMatchLedger
PROPERTIES  EmptiesWhatWasAsked ActsAtomically NoLostUpdate
SYMMETRY WorkspaceAlike
CHECK_DEADLOCK FALSE
