\* Two overlapping calls of the switches, on a lock that answers.
SPECIFICATION Spec
CONSTANTS
    Calls = {c1, c2}
    Toggles = {"touch_to_lock", "close_to_lock", "resume_lock", "any_unlock_lock"}
    Switchable = {"close_to_lock", "resume_lock"}
    Buttons = {}
    NotRead = NotRead
    ReadAttempts = 2
    LockMayNotAnswer = FALSE
    AppIsUsed = FALSE
    CallsMayBeCancelled = FALSE
PROPERTIES
    OnlyOwnToggle
