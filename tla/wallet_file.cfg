SPECIFICATION Spec
CONSTANTS
    p1 = p1
    p2 = p2
    s1 = s1
    s2 = s2
    f1 = f1
    f2 = f2
    f3 = f3
    NoFile = NoFile
    Empty = Empty
    Garbled = Garbled
    NoWallet = NoWallet
    Procs <- OneProcess
    Seeds <- TwoSeeds
    Files <- ThreeFiles
    Overlap = FALSE
    MaxRev = 3
INVARIANTS
    WalletLoads
    SavedSurvives
PROPERTIES
    SeedKept
    StoreSpec
