SPECIFICATION Spec
CONSTANTS
    MaxIndex = 3
    Batch = 2
    Lookahead = 1
    MaxSends = 2
    MaxImports = 1
INVARIANTS
    TypeOK
    OwnIsListed
PROPERTIES
    FreshOnce
    ImportFindsUsed
