SPECIFICATION InputSpec
CONSTANTS
    Message = {m1, m2}
    Skills = {}
    Controls = {"query"}
    MaxDisturbances = 1
    EpochModulus = 3
INVARIANT
    NeverLost
