\* Two multi-port conditions, each over one or two port names that may
\* include one the operator lacks.
CONSTANTS
    InOrder <- MCInOrder
    OutOrder <- MCOutOrder
    Unknown = Unknown
    AnySize <- MCAnySize
    QueueSizes = {1}
    CondKinds = {"MessageAvailable"}
    MaxConds = 1
    RxKinds = {"default"}
    TxKinds = {"default"}
    GxfKinds = {"double_buffer"}
    GroupKinds = {"MultiMessageAvailable"}
    MaxGroups = 2
    MaxGroupPorts = 2
    MaxOr = 0
SPECIFICATION Spec
INVARIANT
    ValidGroupsAdded
CHECK_DEADLOCK FALSE
