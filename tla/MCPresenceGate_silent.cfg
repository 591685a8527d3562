\* Is a credential write that the lock refused reported?
SPECIFICATION Spec
CONSTANTS
    Calls = {c1}
    Methods = {"add"}
    Polls = 2
    NotRead = NotRead
    MaxTable = 2
    LockMayNotAnswer = FALSE
    KeypadMayDozeOff = FALSE
    CallsMayBeCancelled = FALSE
INVARIANTS
    CredentialSuccessIsReal
