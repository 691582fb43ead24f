SPECIFICATION FairDatasetSpec
CONSTANTS
    Client = {c1, c2}
    v = v
    w = w
    a = a
    b = b
    Version = {v, w}
    Content = {a, b}
    Members <- MCMembers
    None = None
    Absent = Absent
    Empty = Empty
    Kinds = {"read", "commit", "promote", "quarantine", "delete"}
    MaxOps = 4
    MaxFaults = 2
INVARIANTS
    NothingDangling
    DatasetOK
PROPERTIES
    CommitOnlyOnExpected
    ImplementsStore
    PendingRecovered
