SPECIFICATION Spec
CONSTANTS
    Enrollers = {e1}
    Says <- SaysThis
    MaxIssued = 2
    WithCA = {TRUE}
INVARIANT TrustsNothingElse
