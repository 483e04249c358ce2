CONSTANTS
    Calls = {c1, c2}
    CallTimeout = 1
    RenewMargin = 2
    TokenLife = 3
    Skew = 1
    MaxRevocations = 2
    MaxSerial = 4
    MaxTime = 4
    NoToken = NoToken
SPECIFICATION Spec
INVARIANTS
    IndInv
    NeverOutlived
    HeldTogether
    RetryIsFresh
    FinalRefusalIsNews
SYMMETRY CallSymmetry
