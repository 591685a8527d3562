\* Two overlapping calls, with everything that can go wrong.
SPECIFICATION Spec
CONSTANTS
    Calls = {c1, c2}
    Toggles = {"touch_to_lock", "close_to_lock", "resume_lock"}
    Switchable = {"close_to_lock", "resume_lock"}
    Buttons = {"close_to_lock", "resume_lock"}
    NotRead = NotRead
    ReadAttempts = 2
    LockMayNotAnswer = TRUE
    AppIsUsed = TRUE
    CallsMayBeCancelled = TRUE
SYMMETRY Symmetry
INVARIANTS
    TypeOK
    SwitchesCurrent
PROPERTIES
    UndisturbedKeepsOthers
    CallsAdvance
