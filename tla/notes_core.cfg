SPECIFICATION Spec
CONSTANTS
    p1 = p1
    p2 = p2
    Procs <- OneProcess
    Values <- TwoAmounts
    Gap = 2
    Cap = 3
    Overlap = FALSE
    MaxNotes = 4
    MaxSends = 4
    MaxImports = 0
    MaxEpoch = 0
    MaxReorgs = 0
INVARIANTS
    TypeOK
    NoNoteLost
    OneIndexPerNote
    ConfirmedMeansLanded
    SpendsOnlyLanded
PROPERTIES
    CustodySpec
    RescanMatchesChain
