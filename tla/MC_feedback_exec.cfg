CONSTANTS
    Ops = {"a", "b", "c"}
    Virtual = {}
    Order <- MC_Order_Local
    Inputs <- ExecGraphs
    ExecSpecs <- MC_ExecSpecs_Fixed
SPECIFICATION Spec
INVARIANT FeedbackInputSizeOne
CHECK_DEADLOCK FALSE
