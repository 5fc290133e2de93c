SPECIFICATION Spec
CONSTANTS
    r1 = r1
    r2 = r2
    Requests = {r1, r2}
    MaxSignals = 3
    Arguments = {"help", "malformed", "incomplete", "complete"}
INVARIANTS
    TypeOK
    ClusterLeftBehind
    CutOffOnlyBySignal
    SuccessOnlyWhenAsked
PROPERTIES
    SignalEndsProcess
    EngineFailureEndsProcess
