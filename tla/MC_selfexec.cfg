CONSTANTS
    Ops = {"a", "b", "c"}
    Virtual = {}
    Order <- MC_Order_Local
    Inputs <- LocalGraphs
    ExecSpecs <- MC_ExecSpecs_Any
SPECIFICATION Spec
INVARIANT SelfCycleExecOutNone
CHECK_DEADLOCK FALSE
