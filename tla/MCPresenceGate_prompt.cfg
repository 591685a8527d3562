\* Two language changes: does the prompt stay?
SPECIFICATION Spec
CONSTANTS
    Calls = {c1, c2}
    Methods = {"language"}
    Polls = 2
    NotRead = NotRead
    MaxTable = 2
    LockMayNotAnswer = FALSE
    KeypadMayDozeOff = FALSE
    CallsMayBeCancelled = FALSE
SYMMETRY Symmetry
INVARIANTS
    PromptStays
