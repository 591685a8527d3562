\* Two concurrent calls and the real-time loop, cancellations and hung
\* disconnects included.
SPECIFICATION Spec
CONSTANTS
    Calls = {c1, c2}
    Loop = loop
    Nobody = nobody
    Methods = {"lock", "unlock", "set", "read"}
    ReadAttempts = 2
    DisconnectMayHang = TRUE
    CallsMayBeCancelled = TRUE
SYMMETRY Symmetry
INVARIANTS
    TypeOK
    LockMatchesTasks
    OneTalker
    InProgressExact
    SnapshotCurrent
PROPERTIES
    ReportsAppliedInOrder
    PositionIsAccountedFor
    ImplementsFairAccess
    CallsAdvance
    StoppedLoopWindsDown
    CancellationIsSpent
