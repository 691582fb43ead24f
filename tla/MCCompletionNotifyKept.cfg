CONSTANTS
    a = a
    b = b
    Process = {a, b}
    Budget = 1
SPECIFICATION NotifySpec
INVARIANT
    CompletionsKept
