SPECIFICATION Spec
CONSTANTS
    Values <- OneAndTwo
    Gap = 3
    Cap = 4
    Passes = 3
    MaxTxs = 3
    MaxUnread = 1
    MaxEpoch = 1
INVARIANTS
    FoundIsReal
    SpentIsKnown
    EveryNoteFound
    PassesSuffice
    ResultIsPromised
CHECK_DEADLOCK FALSE
