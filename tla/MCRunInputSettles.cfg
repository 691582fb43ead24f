SPECIFICATION FairInputSpec
CONSTANTS
    Message = {m1, m2}
    Skills = {}
    Controls = {"withdraw", "cancel", "interrupt", "launch"}
    MaxDisturbances = 2
    EpochModulus = 3
PROPERTY
    EveryMessageSettled
