SPECIFICATION Spec
CONSTANTS
    p1 = p1
    p2 = p2
    leaf = leaf
    nf = nf
    Procs <- TwoProcesses
    Overlap = TRUE
    Nullifiers <- OneNullifier
    Others <- NoEvents
    Deployed = 1
    Margin = 1
    MaxRecords = 9
    Endpoint = TRUE
    MaxHead = 2
    MaxReorgs = 0
    MaxDownloads = 2
SYMMETRY EitherProcess
INVARIANTS
    CacheNeverLies
PROPERTIES
    SpentMatchesChain
