\* A streaming graph stopped by one signal.
CONSTANTS
    Frags = {f1}
    Signals = {s1}
    NoFrag = NoFrag
    Modes = {"sync"}
    LowerOutcomes = {"ok"}
    WaitOutcomes = {"ok"}
    Streaming = {f1}
    MaxRuns = 1
    FatalCalls = {}
SPECIFICATION Spec
INVARIANT
    TimeoutOnlyWhileRunning
CHECK_DEADLOCK FALSE
