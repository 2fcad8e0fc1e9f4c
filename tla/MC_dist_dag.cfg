CONSTANTS
    Ops = {"a", "b", "c", "x"}
    Virtual = {"x"}
    Order <- MC_Order_Dist
    Inputs <- MC_Inputs_Dag
    ExecSpecs <- MC_ExecSpecs_Fixed
SPECIFICATION Spec
INVARIANT WiredExactlyOnce
CHECK_DEADLOCK FALSE
