\* Two fragments in one process, each making one run() or run_async() call;
\* lowering may return false or throw, activation and GxfGraphRunAsync may
\* throw, the graph's wait may fail or rethrow,
\* and two signals may arrive.
CONSTANTS
    Frags = {f1, f2}
    Signals = {s1, s2}
    NoFrag = NoFrag
    Modes = {"sync", "async"}
    LowerOutcomes = {"ok", "false", "throw"}
    WaitOutcomes = {"ok", "fail", "throw"}
    Streaming = {f2}
    MaxRuns = 1
    FatalCalls = {"GxfGraphActivate", "GxfGraphRunAsync"}
SPECIFICATION Spec
INVARIANT
    TypeOK
PROPERTIES
    CallsReturn
    InterruptHonoured
\* The program stops after MaxRuns calls per fragment or at quick_exit.
CHECK_DEADLOCK FALSE
