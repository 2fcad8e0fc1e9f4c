CONSTANTS
    Ops = {"a", "b", "c"}
    Virtual = {}
    Order <- MC_Order_Local
    Inputs <- LocalGraphs
    ExecSpecs <- MC_ExecSpecs_Fixed
SPECIFICATION Spec
INVARIANT TypeOK
INVARIANT WiredExactlyOnce
INVARIANT WorklistFresh
PROPERTY Terminates
CHECK_DEADLOCK FALSE
