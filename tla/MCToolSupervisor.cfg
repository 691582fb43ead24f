SPECIFICATION FairSpec
CONSTANTS
    Call = {a, b}
    Cooperative = {a}
    Promotable = {a, b}
    Direct = {b}
    MaxFaults = 2
CHECK_DEADLOCK FALSE
INVARIANTS
    BooksAgree
    SupervisorOK
    SomeoneFinishes
PROPERTY
    EveryCallCloses
