SPECIFICATION FairEngineSpec
CONSTANTS
    StepId = {s1, s2}
    CallId = {c1, c2}
    RequestId = {q1}
    NoRequest = NoRequest
    NoStep = NoStep
    NoCall = NoCall
    MaxBlocks = 1
    MaxCount = 3
    EpochModulus = 1
INVARIANTS
    RefusedOnlyInToolRound
    ExitIsSettled
    TerminatedOnlyOnRequest
    EngineOK
PROPERTIES
    ImplementsRun
    ControlsComplete
