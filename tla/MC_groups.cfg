\* Every configuration of arguments, UCX ports, pool members and
\* NetworkContext over three operators and two pools, with the operators
\* initialized in the fixed order InitOrder = <<c, b, a>>.
CONSTANTS
    Ops = {"a", "b", "c"}
    NodeOrder <- MCNodeOrder
    PoolSeq <- MCPoolSeq
    MaxMembers = 2
    Devs = {0, 1}
    NoDev = NoDev
    UcxDev = 0
    Default = Default
    Comps <- MCComps
    InitOrder <- MCInitOrder
    Kind <- MCKind
    CompArgs <- MCCompArgs
    Connector <- MCConnector
    IoConds <- MCIoConds
    NoConnector = NoConnector
    Sched = Sched
    Net = Net
    None = None
    DeviceOf <- MCDeviceOf
    OpArgMenu <- MCOpArgMenu
    SchedResMenu <- MCSchedResMenu
    SchedArgMenu <- MCSchedArgMenu
    NetResMenu <- MCNetResMenu
    NetArgMenu <- MCNetArgMenu
SPECIFICATION Spec
INVARIANTS
    TypeOK
    PoolGroupsAgree
    UcxGroupsHaveDevice
    EntityOfFirstHolder
\* Both passes end (done or failed) and the program goes on to run the graph.
CHECK_DEADLOCK FALSE
