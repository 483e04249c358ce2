SPECIFICATION Spec
CONSTANTS
    Cap = 2
    MaxWritten = 5
    PipeSize = 1
    ToolTimeout = 2
    CallTimeout = 4
    StartDelay = 1
    StopGrace = 0
    MaxClock = 6
INVARIANTS
    IndInv
    WholeIsWhole
    LadderHolds
PROPERTIES
    ImplementsLog
    NeverHeldUp
    CallReturns
    UnitIsBounded
