\* Two overlapping calls of any kind, with everything that can go wrong; nobody need wake the
\* keypad.
SPECIFICATION FairSpec
CONSTANTS
    Calls = {c1, c2}
    Methods = {"add", "delete", "enrol", "language", "read"}
    Polls = 2
    NotRead = NotRead
    MaxTable = 2
    LockMayNotAnswer = TRUE
    KeypadMayDozeOff = TRUE
    CallsMayBeCancelled = TRUE
INVARIANTS
    TypeOK
    NoLeftoverPrompt
    DrivenSuccessIsReal
    GatedWriteIsReal
    CountFollowsTable
PROPERTIES
    CallsAdvance
    AttemptedOnce
    EveryCallEnds
