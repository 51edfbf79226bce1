SPECIFICATION Spec
CONSTANTS
    p1 = p1
    p2 = p2
    Procs <- TwoProcesses
    Values <- OneAmount
    Gap = 1
    Cap = 1
    Overlap = TRUE
    MaxNotes = 2
    MaxSends = 2
    MaxImports = 0
    MaxEpoch = 0
    MaxReorgs = 0
INVARIANTS
    NoNoteLost
