SPECIFICATION Spec
CONSTANTS
    p1 = p1
    p2 = p2
    Procs <- OneProcess
    Values <- TwoAmounts
    Gap = 1
    Cap = 1
    Overlap = FALSE
    MaxNotes = 2
    MaxSends = 2
    MaxImports = 1
    MaxEpoch = 1
    MaxReorgs = 1
PROPERTIES
    RescanMatchesChain
    IndexNeverRewound
