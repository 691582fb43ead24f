SPECIFICATION FairBridgeSpec
CONSTANTS
    main = main
    sub = sub
    mute = mute
    q1 = q1
    q2 = q2
    q3 = q3
    q4 = q4
    Run = {main, sub, mute}
    Unavailable = {mute}
    Request = {q1, q2, q3, q4}
    RunOf <- Owner
    MaxQueue = 1
    NoRequest = NoRequest
CHECK_DEADLOCK FALSE
INVARIANTS
    WaitsOnLiveRequest
    BridgeOK
PROPERTIES
    ResolvedOnce
    AcceptedIsTaken
