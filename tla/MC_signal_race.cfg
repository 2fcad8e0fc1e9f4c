\* A streaming graph and two signals.
CONSTANTS
    Frags = {f1}
    Signals = {s1, s2}
    NoFrag = NoFrag
    Modes = {"sync"}
    LowerOutcomes = {"ok"}
    WaitOutcomes = {"ok"}
    Streaming = {f1}
    MaxRuns = 1
    FatalCalls = {}
SPECIFICATION Spec
INVARIANT
    OneGracefulPerInterrupt
CHECK_DEADLOCK FALSE
