SPECIFICATION Spec
CONSTANTS
    Enrollers = {e1}
    Says <- SaysThis
    MaxIssued = 2
    WithCA = {TRUE, FALSE}
INVARIANTS
    IndInv
    SuccessIsUsable
    DialsAreSaid
PROPERTY NodeKeptUntilAnswered
