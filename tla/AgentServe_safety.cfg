SPECIFICATION Spec
CONSTANTS
    Names <- MCNames
    Shape <- MCShape
    Channels = {c1, c2}
    Opens <- MCOpens
    NoOpen = NoOpen
    MaxAcceptErrors = 2
    NodeId = "node1"
    ToolNames <- TheTools
    WebAllowed <- TheWebs
SYMMETRY AnyChannels
INVARIANTS
    ServesOnlyWhatWasAsked
    IndInv
PROPERTIES
    ImplementsLog
    LeavesForCause
    ImplementsService
