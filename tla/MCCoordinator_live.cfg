\* Liveness of two concurrent calls against the listen.
SPECIFICATION FairSpec
CONSTANTS
    Calls = {c1, c2}
    Loop = loop
    Nobody = nobody
    Methods = {"set", "read"}
    ReadAttempts = 2
    DisconnectMayHang = FALSE
    CallsMayBeCancelled = FALSE
PROPERTIES
    EveryCallReturns
    PreemptedListenEnds
    StopEndsLoop
