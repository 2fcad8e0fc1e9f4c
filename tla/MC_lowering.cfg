\* Three add_flow calls of compose(), then the lowering of five items.
CONSTANTS
    Ops <- MCOps
    Native <- MCNative
    DeclOuts <- MCDeclOuts
    DeclIns <- MCDeclIns
    AnyIns <- MCAnyIns
    VecParams <- MCVecParams
    Rank <- MCRank
    PortPairs <- MCPortPairs
    UserOps <- MCUserOps
    Items <- MCItems
    ItemOp <- MCItemOp
    ItemPort <- MCItemPort
    ItemIo <- MCItemIo
    VOp <- MCVOp
    FwOp <- MCFwOp
    MaxCalls = 3
SPECIFICATION LSpec
INVARIANTS
    TypeOK
    EdgesNameMaterializedPorts
    ForwardNameMatchesReceiver
\* Lowering ends once every item is connected.
CHECK_DEADLOCK FALSE
