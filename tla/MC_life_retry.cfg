\* run() called again after lowering threw, and run_async() after lowering
\* returned false.
CONSTANTS
    Frags = {f1}
    Signals = {}
    NoFrag = NoFrag
    Modes = {"sync", "async"}
    LowerOutcomes = {"ok", "false", "throw"}
    WaitOutcomes = {"ok"}
    Streaming = {}
    MaxRuns = 2
    FatalCalls = {}
SPECIFICATION Spec
INVARIANT
    RunsComposedGraph
CHECK_DEADLOCK FALSE
