SPECIFICATION Spec
CONSTANTS
    Jobs <- MCJobs
    FirstBalance = 12
    Mod = 16
    VerifyFee = 1
    Window = 3
    MaxCommands = 2
    MaxElsewhere = 1
INVARIANTS TypeOK RanInOrder NothingUnasked SentIsAffordable
PROPERTIES ReportIsTrue CommandEnds
CHECK_DEADLOCK FALSE
