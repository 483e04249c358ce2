CONSTANTS
    OtherOptions = {"-x"}
    Calls = {c1, c2, c3}
    CallTimeout = 2
    TableLife = 2
    Tables <- Versions
    ArgLists <- SomeArgs
    MaxTime = 8
    NoCall = NoCall
SPECIFICATION Spec
INVARIANTS
    IndInv
    VerdictIsOrderFree
    JudgedByRecentTable
    ReadsAreNeeded
    CallsAreBounded
SYMMETRY CallSymmetry
