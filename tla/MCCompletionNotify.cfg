CONSTANTS
    a = a
    b = b
    Process = {a, b}
    Budget = 1
SPECIFICATION FairNotifySpec
INVARIANT
    NotifyOK
PROPERTIES
    EveryCompletionTold
    WakeupsStop
