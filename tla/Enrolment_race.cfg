SPECIFICATION Spec
CONSTANTS
    Enrollers = {e1, e2}
    Says <- SaysThis
    MaxIssued = 2
    WithCA = {TRUE}
PROPERTY OnlyForceReplaces
