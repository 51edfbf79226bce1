SPECIFICATION FairSpec
CONSTANTS
    p1 = p1
    p2 = p2
    Procs <- OneProcess
    Values <- OneAmount
    Gap = 1
    Cap = 1
    Overlap = FALSE
    MaxNotes = 2
    MaxSends = 3
    MaxImports = 0
    MaxEpoch = 1
    MaxReorgs = 0
PROPERTIES
    PendingIsSettled
    SyncedNotesAreUnspent
