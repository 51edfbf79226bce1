SPECIFICATION Spec
CONSTANTS
    Values <- OneAndTwo
    Gap = 2
    Cap = 4
    Passes = 4
    MaxTxs = 4
    MaxUnread = 0
    MaxEpoch = 0
INVARIANT
    EveryNoteFoundAtAnyValue
CHECK_DEADLOCK FALSE
