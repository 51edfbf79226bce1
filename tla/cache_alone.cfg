SPECIFICATION FairSpec
CONSTANTS
    p1 = p1
    p2 = p2
    leaf = leaf
    nf = nf
    Procs <- OneProcess
    Overlap = FALSE
    Nullifiers <- OneNullifier
    Others <- OneLeaf
    Deployed = 1
    Margin = 1
    MaxRecords = 3
    Endpoint = TRUE
    MaxHead = 3
    MaxReorgs = 1
    MaxDownloads = 1
INVARIANTS
    TypeOK
    CacheNeverLies
    CacheOpens
PROPERTIES
    SyncMatchesChain
    SpentMatchesChain
    CacheOnlyGrows
    CapIsKept
    CacheCatchesUp
