\* Two scripts, two questions, two changes by others, and pipes that get full.
CONSTANTS
    out = out
    in = in
    Uplinks = {a, b}
    Ports <- MCPorts
    Wires <- MCWires
    TxCap = 1
    RxCap = 2
    MsgCap = 1
    ListCap = 1
    MaxAsks = 2
    MaxChanges = 2
SPECIFICATION FairSpec
INVARIANTS
    ViewFollowsGraph
PROPERTIES
    AnsweredIfItFits
CHECK_DEADLOCK FALSE
