SPECIFICATION InputSpec
CONSTANTS
    Message = {m1, m2, m3}
    Skills = {m2}
    Controls = {"withdraw", "command", "query", "cancel", "interrupt", "launch"}
    MaxDisturbances = 2
    EpochModulus = 3
INVARIANTS
    NeverDuplicated
    OrderKept
    OnlyKnownLosses
    InputOK
