CONSTANTS
    StepId = {s1, s2}
    CallId = {c1}
    RequestId = {q1}
    NoRequest = NoRequest
    MaxBlocks = 0
    MaxCount = 2
    EpochModulus = 1
SYMMETRY Symmetry
SPECIFICATION Spec
INVARIANTS
    TypeOK
    AtMostOneActiveStep
    CancellationPhases
    SinglePurposeNeverInvokesModel
    ReflectionHasReturn
    AbortClosesSteps
PROPERTY
    TerminalOnce
