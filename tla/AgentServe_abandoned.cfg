SPECIFICATION Spec
CONSTANTS
    Names <- MCNames
    Shape <- MCShape
    Channels = {c1, c2}
    Opens <- FewOpens
    NoOpen = NoOpen
    MaxAcceptErrors = 2
    NodeId = "node1"
    ToolNames <- TheTools
    WebAllowed <- TheWebs
PROPERTY OneBadOpenIsNotFatal
